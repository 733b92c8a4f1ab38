------------------------------ MODULE WebProofs ------------------------------
(***************************************************************************)
(* Theorems about the requests of proxy/lab (proxy.c, tiny/tiny.c, clients *)
(* and connections), for every number of clients, workers and objects,     *)
(* every request, file and server, and every size of the kernel's buffers. *)
(*                                                                         *)
(* The invariant follows an answer from Tiny's locals through a connection *)
(* into the hands of a worker, and from there to the client and into the   *)
(* cache: each of these holds a piece of the answer, and where one piece   *)
(* ends the next begins.  It says nothing once a request has used bytes    *)
(* that it did not write.                                                  *)
(***************************************************************************)
EXTENDS Web, SequenceTheorems, NaturalsInduction, WellFoundedInduction, TLAPS
-----------------------------------------------------------------------------
(* Pieces of an answer *)

\* s is what a has after its first k lines.
Piece(s, k, a) == k + Len(s) =< Len(a) /\ \A i \in 1 .. Len(s) : s[i] = a[k + i]

Elems(s)    == {s[i] : i \in DOMAIN s}
OnceEach(s) == \A i, j \in DOMAIN s : s[i] = s[j] => i = j

-----------------------------------------------------------------------------
(* What the variables hold *)

Answers == {Answer(u) : u \in DOMAIN Files} \cup {Page, clienterror("501")}
GetLine(u) == Line("GET", u, "1.0")
Chars   == STRING \cup {"NUL"}
Headers == {"Host:", "User-Agent:", "Connection:"}
Lines   == {r[c].lines[i] : r \in Requests, c \in Clients, i \in Nat}
           \cup {GetLine(u) : u \in DOMAIN Files}
           \cup {<<h>> : h \in Headers \cup {"Proxy-Connection:", "\r\n", "?", "NULL"}}
           \cup {a[i] : a \in Answers, i \in Nat} \cup {Copied(a[i]) : a \in Answers, i \in Nat}

EarlyPCs     == {"line", "header", "forward", "add"}
DownloadPCs  == {"response", "relay", "null"}
ConnectedPCs == EarlyPCs \cup DownloadPCs
WorkerPCs    == {"take", "request", "parse", "connect", "reply", "close"} \cup ConnectedPCs
TinyPCs      == {"accept", "request", "headers", "serve", "write", "fork", "child", "close", "exit"}

ConnTypes   == [up : Seq(Lines), down : Seq(Lines), closed : SUBSET {"near", "far"}]
WorkerTypes == [pc : WorkerPCs, fd : Clients \cup {"none"}, buf : Lines, url : AllUrls \cup {NoUrl}, uri : STRING,
                hostname : Seq(Chars), port : Seq(Chars), seen : SUBSET Headers,
                todo : Seq(Lines), rev_data : Seq(Lines)]
ClientTypes == [state : {"new", "refused", "open", "done", "left"}, sent : Nat, got : Seq(Lines)]
TinyStates  == [pc : TinyPCs, fd : Conns \cup {"none"}, uri : DOMAIN Files \cup {"/"}, buf : Lines,
                todo : Seq(Lines), then : {"close", "fork", "exit"}]

\* The file that Tiny is asked for, and the one whose CGI program it starts.
Forks(t)  == t.pc = "fork" \/ (t.pc = "write" /\ t.then = "fork")
TinyTypes == {t \in TinyStates : /\ t.pc \in {"headers", "serve"} => t.uri \in DOMAIN Files
                                 /\ Forks(t) => t.uri \in DOMAIN Files /\ Files[t.uri].stat = "ok"}

NetTypes   == /\ conn \in [Conns -> ConnTypes] /\ dead \subseteq {"proxy", "tiny"}
              /\ backlog \in [{"proxy", "tiny"} -> Seq(Conns)]
ProxyTypes == /\ queue \in Seq(Conns) /\ worker \in [Workers -> WorkerTypes]
              /\ list \in Seq([key : AllUrls, data : Seq(Lines)]) /\ size \in Int
OtherTypes == /\ request \in Requests /\ client \in [Clients -> ClientTypes] /\ tiny \in TinyTypes
TypeOK     == NetTypes /\ ProxyTypes /\ OtherTypes

-----------------------------------------------------------------------------
(* Where a connection is: with one process, and in one place there *)

InProxy(x) == \/ x \in Elems(backlog["proxy"]) \/ x \in Elems(queue)
              \/ \E w \in Workers : worker[w].fd = x
TinyAlive  == "tiny" \notin dead
InTiny(x)  == x \in Elems(backlog["tiny"]) \/ tiny.fd = x

ProxyPlaces ==
  /\ OnceEach(backlog["proxy"]) /\ OnceEach(queue)
  /\ Elems(backlog["proxy"]) \cap Elems(queue) = {}
  /\ \A w \in Workers : /\ worker[w].fd \notin Elems(backlog["proxy"]) \cup Elems(queue)
                        /\ (worker[w].fd = "none") <=> (worker[w].pc = "take")
                        /\ \A v \in Workers \ {w} : worker[v].fd = worker[w].fd => worker[w].fd = "none"
  /\ \A x \in Conns : InProxy(x) => /\ x \in Clients /\ request[x].to = "proxy"
                                    /\ client[x].state \notin {"new", "refused"}
                                    /\ "far" \notin conn[x].closed

TinyPlaces ==
  /\ OnceEach(backlog["tiny"]) /\ tiny.fd \notin Elems(backlog["tiny"])
  /\ (tiny.fd = "none") <=> (tiny.pc = "accept")
  /\ \A x \in Conns : InTiny(x) =>
       /\ "far" \notin conn[x].closed
       /\ x \in Clients => request[x].to = "tiny" /\ client[x].state \notin {"new", "refused"}
       /\ x \in Workers /\ ~ crashed => worker[x].pc \in ConnectedPCs

Places == (~ crashed => ProxyPlaces) /\ (TinyAlive => TinyPlaces) /\ (TinyAlive <=> tiny.pc # "exit")

-----------------------------------------------------------------------------
(* Clients, and the line that says what they ask for *)

Open(x) == "near" \notin conn[x].closed

ClientOK(c) ==
  /\ client[c].state \in {"new", "refused"} => client[c].sent = 0 /\ client[c].got = <<>> /\ conn[c] = Fresh
  /\ Open(c) <=> client[c].state \notin {"done", "left"}
  /\ client[c].state = "left" => request[c].leaves
  /\ client[c].state = "done" => "far" \in conn[c].closed /\ conn[c].down = <<>>

WaitsForProxy(c) == /\ ~ crashed
                    /\ \/ c \in Elems(backlog["proxy"]) \/ c \in Elems(queue)
                       \/ \E w \in Workers : worker[w].fd = c /\ worker[w].pc = "request"
WaitsForTiny(x)  == /\ TinyAlive
                    /\ x \in Elems(backlog["tiny"]) \/ (tiny.fd = x /\ tiny.pc = "request")

\* Nothing has been sent to c.
Silent(c) == client[c].got = <<>> /\ conn[c].down = <<>>

\* The request line is the first that x's peer will read.
Unread(x, unsent, line) == /\ (conn[x].up = <<>>) <=> unsent
                           /\ conn[x].up # <<>> => Head(conn[x].up) = line

AskedOK(c) == WaitsForProxy(c) \/ WaitsForTiny(c)
                => Silent(c) /\ Unread(c, client[c].sent = 0, Asked(c))

\* What a worker asks of Tiny is a file, even if the proxy has died since.
GetsFile(w) == WaitsForTiny(w) /\ conn[w].up # <<>>
                 => \E u \in DOMAIN Files : Head(conn[w].up) = GetLine(u)

-----------------------------------------------------------------------------
(* The answers under way *)

Sent(c, a) == Piece(client[c].got, 0, a) /\ Piece(conn[c].down, Len(client[c].got), a)
Given(c)   == Len(client[c].got) + Len(conn[c].down)

AnswerOK(c) == \E a \in RightAnswers(c) :
  /\ Sent(c, a)
  /\ "far" \in conn[c].closed /\ client[c].state # "left" /\ dead = {} => Given(c) = Len(a)

AnswerTo(line) == IF line[1] # "GET" THEN clienterror("501") ELSE Answer(line[2])

\* Tiny, serving a connection whose request is line, has written k lines.
TinyHas(k, line) ==
  \/ tiny.pc = "request" /\ k = 0
  \/ tiny.pc \in {"headers", "serve"} /\ k = 0 /\ line[1] = "GET" /\ tiny.uri = line[2]
  \/ /\ (tiny.pc = "write" /\ tiny.then = "close") \/ tiny.pc \in {"child", "close"}
     /\ Piece(tiny.todo, k, AnswerTo(line)) /\ k + Len(tiny.todo) = Len(AnswerTo(line))
     /\ tiny.pc = "close" => tiny.todo = <<>>
  \/ /\ tiny.pc = "write" /\ tiny.then = "exit" /\ line[1] = "GET" /\ tiny.uri = line[2]
     /\ Piece(tiny.todo, k, AnswerTo(line)) /\ k + Len(tiny.todo) = Len(AnswerTo(line))
  \/ /\ Forks(tiny) /\ line[1] = "GET" /\ tiny.uri = line[2]
     /\ Piece(tiny.todo, k, AnswerTo(line)) /\ k + Len(tiny.todo) = 1
     /\ tiny.pc = "fork" => tiny.todo = <<>>

TinyAt(x, k, line) == \/ "far" \in conn[x].closed /\ (TinyAlive => k = Len(AnswerTo(line)))
                      \/ TinyAlive /\ x \in Elems(backlog["tiny"]) /\ k = 0
                      \/ TinyAlive /\ tiny.fd = x /\ TinyHas(k, line)

\* The near end has read m lines.
Flow(x, m, line) == /\ Piece(conn[x].down, m, AnswerTo(line))
                    /\ TinyAt(x, m + Len(conn[x].down), line)

DirectOK(c) == request[c].to = "tiny" /\ client[c].state \notin {"new", "refused"} =>
                 /\ Sent(c, AnswerTo(Asked(c)))
                 /\ Open(c) => TinyAt(c, Given(c), Asked(c))

-----------------------------------------------------------------------------
(* The workers *)

Full(url) == IF url.scheme = "http" /\ url.path = "" THEN [url EXCEPT !.path = "/"] ELSE url

\* What w has before the cache is asked, before it connects, and after that.
RequestOK(w) ==
  LET me == worker[w]  c == me.fd
  IN  /\ me.pc = "parse" => me.buf = Asked(c) /\ me.url = Url(c) /\ Asked(c)[1] = "GET"
      /\ me.pc = "connect" =>
           /\ Url(c).scheme \in {"http", "none"}
           /\ Url(c).scheme = "http" => /\ me.hostname = Url(c).host /\ me.port = Url(c).port
                                        /\ me.url = Full(Url(c)) /\ me.uri = Path(Url(c))
           /\ Url(c).scheme = "none" => me.hostname # <<>> /\ me.hostname[1] = "NUL"
      /\ me.pc \in ConnectedPCs => /\ Server(c) \in {"tiny", "hung"} /\ Url(c).scheme = "http"
                                   /\ me.url = Full(Url(c)) /\ Open(w)
      /\ me.pc = "line" => me.buf = GetLine(Uri(c))
      /\ me.pc = "add" => me.todo # <<>>
      /\ me.pc \in {"parse", "connect"} \cup EarlyPCs => Silent(c)

\* w sends c a page, or what the cache had; or it has sent everything.
ReplyOK(w) ==
  LET me == worker[w]  c == me.fd
  IN  /\ me.pc = "reply" => \E a \in RightAnswers(c) :
           /\ Sent(c, a)
           /\ Open(c) => /\ Piece(me.todo, Given(c), a)
                         /\ TinyAlive => Given(c) + Len(me.todo) = Len(a)
      /\ me.pc = "close" /\ Open(c) => \E a \in RightAnswers(c) :
           Sent(c, a) /\ (TinyAlive => Given(c) = Len(a))

\* w has passed on n lines of the answer to c.
Download(w, n) ==
  LET me == worker[w]  c == me.fd  a == Answer(Uri(c))
  IN  /\ Sent(c, a) /\ (Open(c) => Given(c) = n)
      /\ me.rev_data # NULL => Len(me.rev_data) = n /\ Piece(me.rev_data, 0, Cut(a))
      /\ me.rev_data = NULL => n > MAX_OBJECT_SIZE
      /\ me.pc = "relay" => n < Len(a) /\ me.buf = a[n + 1] /\ Flow(w, n + 1, GetLine(Uri(c)))
      /\ me.pc = "response" => Flow(w, n, GetLine(Uri(c)))

FromTiny(w) ==
  LET me == worker[w]  c == me.fd
  IN  me.pc \in ConnectedPCs /\ Server(c) = "tiny" =>
        /\ me.pc \in EarlyPCs => Flow(w, 0, GetLine(Uri(c)))
        /\ me.pc \in DownloadPCs => \E n \in Nat : Download(w, n)
        /\ WaitsForTiny(w) => Unread(w, me.pc = "line", GetLine(Uri(c)))

FromHung(w) ==
  LET me == worker[w]  c == me.fd
  IN  me.pc \in ConnectedPCs /\ Server(c) = "hung" =>
        /\ me.pc \in EarlyPCs \cup {"response"} /\ Silent(c)
        /\ conn[w].down = <<>> /\ "far" \notin conn[w].closed /\ (TinyAlive => ~ InTiny(w))

WorkerOK(w) == /\ worker[w].pc \notin {"take", "request"} => RequestOK(w) /\ ReplyOK(w)
               /\ FromTiny(w) /\ FromHung(w)

EntryOK(e) == /\ <<e.key.host, e.key.port>> \in DOMAIN Servers
              /\ Servers[<<e.key.host, e.key.port>>] = "tiny" /\ Path(e.key) \in DOMAIN Files
              /\ Piece(e.data, 0, Cut(Answer(Path(e.key))))
              /\ TinyAlive => Len(e.data) = Len(Answer(Path(e.key)))

-----------------------------------------------------------------------------
(* The invariant *)

ClientsOK == \A c \in Clients : ClientOK(c) /\ AskedOK(c) /\ AnswerOK(c) /\ DirectOK(c)
WorkersOK == /\ ~ crashed => \A w \in Workers : WorkerOK(w)
             /\ \A w \in Workers : GetsFile(w)
CacheOK   == \A i \in DOMAIN list : EntryOK(list[i])

Inv == TypeOK /\ Places /\ ClientsOK /\ WorkersOK /\ CacheOK

-----------------------------------------------------------------------------
(* Sequences *)

\* What a sequence's head and tail are.
LEMMA HeadTail ==
  ASSUME NEW S, NEW s \in Seq(S), s # <<>>
  PROVE  /\ Head(s) = s[1] /\ Head(s) \in S /\ Tail(s) \in Seq(S)
         /\ Len(s) \in Nat \ {0} /\ Len(Tail(s)) = Len(s) - 1
         /\ \A i \in 1 .. Len(s) - 1 : Tail(s)[i] = s[i + 1]
BY HeadTailProperties, LenProperties

\* What Append returns.
LEMMA Appended ==
  ASSUME NEW S, NEW s \in Seq(S), NEW e \in S
  PROVE  /\ Append(s, e) \in Seq(S) /\ Len(Append(s, e)) = Len(s) + 1 /\ Append(s, e) # <<>>
         /\ Len(s) \in Nat /\ Append(s, e)[Len(s) + 1] = e
         /\ \A i \in 1 .. Len(s) : Append(s, e)[i] = s[i]
         /\ Head(Append(s, e)) = IF s = <<>> THEN e ELSE Head(s)
<1>1. /\ Append(s, e) \in Seq(S) /\ Len(Append(s, e)) = Len(s) + 1 /\ Len(s) \in Nat
      /\ Append(s, e)[Len(s) + 1] = e /\ \A i \in 1 .. Len(s) : Append(s, e)[i] = s[i]
  BY AppendProperties, LenProperties
<1>2. Append(s, e) # <<>>
  BY <1>1
<1>3. Head(Append(s, e)) = Append(s, e)[1]
  BY <1>1, <1>2, HeadTail
<1>4. CASE s = <<>>
  BY <1>1, <1>2, <1>3, <1>4
<1>5. CASE s # <<>>
  <2>1. Len(s) > 0 /\ Head(s) = s[1]
    BY <1>5, HeadTail
  <2> QED BY <1>1, <1>2, <1>3, <1>5, <2>1
<1> QED BY <1>1, <1>2, <1>4, <1>5

\* Nothing is a piece of every answer, wherever it is looked for.
LEMMA EmptyPiece ==
  ASSUME NEW S, NEW a \in Seq(S), NEW k \in 0 .. Len(a)
  PROVE  Piece(<<>>, k, a)
BY DEF Piece

\* The whole of an answer is a piece of it.
LEMMA WholePiece ==
  ASSUME NEW S, NEW a \in Seq(S)
  PROVE  Piece(a, 0, a)
BY DEF Piece

\* What is to come begins with the next line, and the rest of it comes after that.
LEMMA PieceHead ==
  ASSUME NEW S, NEW a \in Seq(S), NEW s \in Seq(S), NEW k \in Nat, Piece(s, k, a), s # <<>>
  PROVE  /\ Head(s) = a[k + 1] /\ k + 1 \in 1 .. Len(a)
         /\ Piece(Tail(s), k + 1, a) /\ Len(Tail(s)) = Len(s) - 1 /\ Len(s) > 0
BY HeadTail DEF Piece

\* A piece grows by the line that follows it.
LEMMA PieceAppend ==
  ASSUME NEW S, NEW a \in Seq(S), NEW s \in Seq(S), NEW k \in Nat, Piece(s, k, a),
         NEW e \in S, k + Len(s) < Len(a), e = a[k + Len(s) + 1]
  PROVE  Piece(Append(s, e), k, a) /\ Len(Append(s, e)) = Len(s) + 1
<1>1. Len(s) \in Nat /\ Len(a) \in Nat
  OBVIOUS
<1> QED BY <1>1, Appended DEF Piece

\* Who takes the first connection out of a queue is the only one to have it.
LEMMA TakeHead ==
  ASSUME NEW S, NEW q \in Seq(S), q # <<>>, OnceEach(q)
  PROVE  /\ OnceEach(Tail(q)) /\ Elems(Tail(q)) = Elems(q) \ {Head(q)} /\ Head(q) \in Elems(q)
<1>1. /\ DOMAIN q = 1 .. Len(q) /\ DOMAIN Tail(q) = 1 .. Len(q) - 1 /\ Len(q) \in Nat \ {0}
  BY HeadTail
<1>2. OnceEach(Tail(q))
  <2> SUFFICES ASSUME NEW i \in 1 .. Len(q) - 1, NEW j \in 1 .. Len(q) - 1, Tail(q)[i] = Tail(q)[j]
               PROVE  i = j
    BY <1>1 DEF OnceEach
  <2>1. i + 1 = j + 1
    BY <1>1, HeadTail DEF OnceEach
  <2> QED BY <2>1
<1>3. Elems(Tail(q)) \subseteq Elems(q) \ {Head(q)}
  <2> SUFFICES ASSUME NEW i \in 1 .. Len(q) - 1 PROVE Tail(q)[i] \in Elems(q) \ {Head(q)}
    BY <1>1 DEF Elems
  <2>1. Tail(q)[i] = q[i + 1] /\ Head(q) = q[1] /\ i + 1 \in DOMAIN q /\ 1 \in DOMAIN q /\ i + 1 # 1
    BY <1>1, HeadTail
  <2> QED BY <2>1 DEF OnceEach, Elems
<1>4. Elems(q) \ {Head(q)} \subseteq Elems(Tail(q))
  <2> SUFFICES ASSUME NEW i \in 1 .. Len(q), q[i] # Head(q) PROVE q[i] \in Elems(Tail(q))
    BY <1>1 DEF Elems
  <2>1. i # 1 /\ i - 1 \in 1 .. Len(q) - 1
    BY <1>1, HeadTail
  <2>2. Tail(q)[i - 1] = q[i - 1 + 1] /\ i - 1 + 1 = i
    BY <2>1, HeadTail
  <2> QED BY <1>1, <2>1, <2>2 DEF Elems
<1>5. Head(q) \in Elems(q)
  BY <1>1, HeadTail DEF Elems
<1> QED BY <1>2, <1>3, <1>4, <1>5

\* A connection put at the end of a queue joins those that are there.
LEMMA AddLast ==
  ASSUME NEW S, NEW q \in Seq(S), NEW x \in S
  PROVE  /\ Elems(Append(q, x)) = Elems(q) \cup {x} /\ Append(q, x) \in Seq(S)
         /\ OnceEach(q) /\ x \notin Elems(q) => OnceEach(Append(q, x))
<1>1. /\ DOMAIN q = 1 .. Len(q) /\ DOMAIN Append(q, x) = 1 .. Len(q) + 1 /\ Len(q) \in Nat
      /\ Append(q, x)[Len(q) + 1] = x /\ \A i \in 1 .. Len(q) : Append(q, x)[i] = q[i]
  BY Appended
<1>2. Elems(Append(q, x)) = Elems(q) \cup {x}
  <2>1. Elems(Append(q, x)) \subseteq Elems(q) \cup {x}
    BY <1>1 DEF Elems
  <2>2. Elems(q) \cup {x} \subseteq Elems(Append(q, x))
    BY <1>1 DEF Elems
  <2> QED BY <2>1, <2>2
<1>3. ASSUME OnceEach(q), x \notin Elems(q) PROVE OnceEach(Append(q, x))
  <2> SUFFICES ASSUME NEW i \in 1 .. Len(q) + 1, NEW j \in 1 .. Len(q) + 1,
                      Append(q, x)[i] = Append(q, x)[j]
               PROVE  i = j
    BY <1>1 DEF OnceEach
  <2>1. \A n \in 1 .. Len(q) : q[n] # x
    BY <1>1, <1>3 DEF Elems
  <2> QED BY <1>1, <1>3, <2>1 DEF OnceEach
<1> QED BY <1>2, <1>3, Appended

\* An empty queue holds nothing.
LEMMA EmptyElems == Elems(<<>>) = {} /\ OnceEach(<<>>)
BY DEF Elems, OnceEach

-----------------------------------------------------------------------------
(* Requests, files and answers *)

\* What is known of a file.
LEMMA Lengths ==
  ASSUME NEW u \in DOMAIN Files
  PROVE  /\ Files[u].stat \in {"ok", "missing", "forbidden"} /\ Files[u].cgi \in BOOLEAN
         /\ Files[u].body \in Seq({"text", "binary"}) /\ Len(Files[u].body) \in Nat
         /\ DOMAIN Files[u].body = 1 .. Len(Files[u].body)
         /\ DOMAIN Body(u) = 1 .. Len(Files[u].body)
         /\ \A i \in 1 .. Len(Files[u].body) : Body(u)[i] = <<u, i>>
BY FilesAssumption DEF Body

\* The body of an answer has the lines of the file.
LEMMA BodySeq ==
  ASSUME NEW u \in DOMAIN Files
  PROVE  Body(u) \in Seq({<<u, i>> : i \in Nat}) /\ Len(Body(u)) = Len(Files[u].body)
BY Lengths DEF Body

\* The answer to a request for a file that is there.
LEMMA GoodAnswer ==
  ASSUME NEW u \in DOMAIN Files, Files[u].stat = "ok"
  PROVE  /\ Answer(u) = <<<<"200">>>> \o Body(u)
         /\ Answer(u) \in Seq({<<u, i>> : i \in Nat} \cup {<<"200">>})
         /\ Len(Answer(u)) = 1 + Len(Body(u)) /\ Answer(u)[1] = <<"200">>
         /\ \A i \in 1 .. Len(Body(u)) : Answer(u)[1 + i] = Body(u)[i]
         /\ Len(Body(u)) \in Nat
<1> DEFINE S == {<<u, i>> : i \in Nat} \cup {<<"200">>}
<1>1. Answer(u) = <<<<"200">>>> \o Body(u)
  BY DEF Answer
<1>2. <<<<"200">>>> \in Seq(S) /\ Body(u) \in Seq(S) /\ Len(<<<<"200">>>>) = 1
  <2>1. Body(u) \in Seq({<<u, i>> : i \in Nat})
    BY BodySeq
  <2>2. Len(Body(u)) \in Nat /\ \A i \in 1 .. Len(Body(u)) : Body(u)[i] \in S
    BY <2>1
  <2> QED BY <2>1, <2>2
<1> HIDE DEF S
<1>3. /\ <<<<"200">>>> \o Body(u) \in Seq(S)
      /\ Len(<<<<"200">>>> \o Body(u)) = 1 + Len(Body(u))
      /\ \A i \in 1 .. 1 + Len(Body(u)) : (<<<<"200">>>> \o Body(u))[i] =
            IF i =< 1 THEN <<<<"200">>>>[i] ELSE Body(u)[i - 1]
  BY <1>2, ConcatProperties
<1>4. Len(Body(u)) \in Nat
  BY <1>2
<1>5. Answer(u)[1] = <<"200">>
  BY <1>1, <1>3, <1>4
<1>6. ASSUME NEW i \in 1 .. Len(Body(u)) PROVE Answer(u)[1 + i] = Body(u)[i]
  <2>1. 1 + i \in 1 .. 1 + Len(Body(u)) /\ ~ (1 + i =< 1) /\ (1 + i) - 1 = i
    BY <1>4
  <2> QED BY <1>1, <1>3, <2>1
<1> QED BY <1>1, <1>3, <1>4, <1>5, <1>6 DEF S

\* An answer is a sequence.
LEMMA AnswerSeq ==
  ASSUME NEW u \in DOMAIN Files
  PROVE  \E S : Answer(u) \in Seq(S)
<1>1. CASE Files[u].stat = "ok"
  BY <1>1, GoodAnswer
<1>2. CASE Files[u].stat # "ok"
  <2>1. Answer(u) \in {clienterror("404"), clienterror("403")}
    BY <1>2, Lengths DEF Answer
  <2>2. \A x : clienterror(x) \in Seq({<<x>>, <<"page">>})
    BY DEF clienterror
  <2> QED BY <2>1, <2>2
<1> QED BY <1>1, <1>2

\* No answer is empty, and an error page has two lines.
LEMMA LongEnough ==
  ASSUME NEW u \in DOMAIN Files
  PROVE  /\ Len(Answer(u)) \in Nat /\ Len(Answer(u)) > 0
         /\ Files[u].stat # "ok" => Len(Answer(u)) = 2
<1>1. CASE Files[u].stat = "ok"
  <2>1. Len(Answer(u)) = 1 + Len(Body(u)) /\ Len(Body(u)) \in Nat
    BY <1>1, GoodAnswer, Zenon
  <2> QED BY <1>1, <2>1
<1>2. CASE Files[u].stat # "ok"
  <2>1. Answer(u) \in {clienterror("404"), clienterror("403")}
    BY <1>2, Lengths DEF Answer
  <2>2. \A x : Len(clienterror(x)) = 2
    BY DEF clienterror
  <2> QED BY <2>1, <2>2
<1> QED BY <1>1, <1>2

\* Answers, and what the cache keeps of them, are made of lines, and of equally many.
LEMMA AnswersTyped ==
  ASSUME NEW a \in Answers
  PROVE  a \in Seq(Lines) /\ Cut(a) \in Seq(Lines) /\ Len(Cut(a)) = Len(a) /\ Len(a) \in Nat
         /\ \A i \in 1 .. Len(a) : a[i] \in Lines /\ Cut(a)[i] = Copied(a[i]) /\ Copied(a[i]) \in Lines
<1>1. \E S : a \in Seq(S)
  <2>1. \A x : clienterror(x) \in Seq({<<x>>, <<"page">>})
    BY DEF clienterror
  <2>2. Page \in Seq({<<"500">>, <<"page">>})
    BY DEF Page
  <2> QED BY <2>1, <2>2, AnswerSeq DEF Answers
<1>2. PICK S : a \in Seq(S)
  BY <1>1
<1>3. Len(a) \in Nat /\ DOMAIN a = 1 .. Len(a) /\ a = [i \in 1 .. Len(a) |-> a[i]]
  BY <1>2
<1>4. \A i \in 1 .. Len(a) : a[i] \in Lines /\ Copied(a[i]) \in Lines
  BY <1>3 DEF Lines
<1>5. a \in Seq(Lines)
  BY <1>2, <1>3, <1>4
<1>6. Cut(a) = [i \in 1 .. Len(a) |-> Copied(a[i])]
  BY <1>3 DEF Cut
<1> QED BY <1>3, <1>4, <1>5, <1>6

\* The lines that the program itself writes are lines.
LEMMA SomeLines ==
  /\ CRLF \in Lines /\ <<"?">> \in Lines /\ <<"NULL">> \in Lines
  /\ NULL \in Seq(Lines) /\ Blank = CRLF
  /\ \A u \in DOMAIN Files : GetLine(u) \in Lines /\ Answer(u) \in Answers
  /\ \A h \in Headers \cup {"Proxy-Connection:"} : <<h>> \in Lines
  /\ Page \in Answers /\ clienterror("501") \in Answers
<1>1. \A h \in Headers \cup {"Proxy-Connection:", "\r\n", "?", "NULL"} : <<h>> \in Lines
  BY DEF Lines
<1>2. NULL \in Seq(Lines)
  BY <1>1 DEF NULL
<1> QED BY <1>1, <1>2 DEF Lines, CRLF, Blank, Answers

-----------------------------------------------------------------------------
(* Connections *)

\* A connection has one owner, a client or a worker, and none is called "none".
LEMMA ConnsFacts == /\ \A c \in Clients : c \in Conns /\ c \notin Workers /\ c # "none"
                    /\ \A w \in Workers : w \in Conns /\ w \notin Clients /\ w # "none"
                    /\ "none" \notin Conns
BY NetAssumption DEF Conns

\* The type of one connection.
LEMMA ConnFacts ==
  ASSUME NetTypes, NEW x \in Conns
  PROVE  /\ conn[x] \in ConnTypes /\ conn[x].up \in Seq(Lines) /\ conn[x].down \in Seq(Lines)
         /\ conn[x].closed \subseteq {"near", "far"}
         /\ Len(conn[x].up) \in Nat /\ Len(conn[x].down) \in Nat
BY DEF NetTypes, ConnTypes

\* Only what goes on at x changes.
Only(x) == \A y \in Conns \ {x} : conn'[y] = conn[y]

\* A new connection is empty and open.
LEMMA FreshFacts == /\ Fresh \in ConnTypes /\ Fresh.up = <<>> /\ Fresh.down = <<>> /\ Fresh.closed = {}
BY DEF Fresh, ConnTypes

\* What Rio_writen does at the near end.
LEMMA WriteNear ==
  ASSUME NetTypes, NEW x \in Conns, NEW line \in Lines, Rio_writen(x, "near", line)
  PROVE  /\ conn' \in [Conns -> ConnTypes] /\ Only(x)
         /\ conn'[x].down = conn[x].down /\ conn'[x].closed = conn[x].closed
         /\ "far" \notin conn[x].closed => conn'[x].up = Append(conn[x].up, line)
         /\ "far" \in conn[x].closed => conn' = conn
<1>1. CASE "far" \in conn[x].closed
  BY <1>1 DEF Rio_writen, PeerGone, Peer, Out, Only, NetTypes
<1>2. CASE "far" \notin conn[x].closed
  <2>1. conn' = [conn EXCEPT ![x]["up"] = Append(@, line)]
    BY <1>2 DEF Rio_writen, PeerGone, Peer, Out
  <2>2. Append(conn[x].up, line) \in Seq(Lines)
    BY ConnFacts, Appended
  <2>3. conn'[x] = [conn[x] EXCEPT !.up = Append(conn[x].up, line)]
    BY <2>1 DEF NetTypes
  <2>4. conn'[x] \in ConnTypes /\ conn'[x].up = Append(conn[x].up, line) /\ conn'[x].down = conn[x].down
        /\ conn'[x].closed = conn[x].closed
    BY <2>2, <2>3, ConnFacts DEF ConnTypes
  <2> QED BY <1>2, <2>1, <2>4 DEF NetTypes, Only
<1> QED BY <1>1, <1>2

\* What Rio_writen does at the far end.
LEMMA WriteFar ==
  ASSUME NetTypes, NEW x \in Conns, NEW line \in Lines, Rio_writen(x, "far", line)
  PROVE  /\ conn' \in [Conns -> ConnTypes] /\ Only(x)
         /\ conn'[x].up = conn[x].up /\ conn'[x].closed = conn[x].closed
         /\ Open(x) => conn'[x].down = Append(conn[x].down, line)
         /\ ~ Open(x) => conn' = conn
<1>1. CASE "near" \in conn[x].closed
  BY <1>1 DEF Rio_writen, PeerGone, Peer, Out, Only, NetTypes, Open
<1>2. CASE "near" \notin conn[x].closed
  <2>1. conn' = [conn EXCEPT ![x]["down"] = Append(@, line)]
    BY <1>2 DEF Rio_writen, PeerGone, Peer, Out
  <2>2. Append(conn[x].down, line) \in Seq(Lines)
    BY ConnFacts, Appended
  <2>3. conn'[x] = [conn[x] EXCEPT !.down = Append(conn[x].down, line)]
    BY <2>1 DEF NetTypes
  <2>4. conn'[x] \in ConnTypes /\ conn'[x].down = Append(conn[x].down, line) /\ conn'[x].up = conn[x].up
        /\ conn'[x].closed = conn[x].closed
    BY <2>2, <2>3, ConnFacts DEF ConnTypes
  <2> QED BY <1>2, <2>1, <2>4 DEF NetTypes, Only, Open
<1> QED BY <1>1, <1>2

\* What Rio_readlineb does at the near end.
LEMMA ReadNear ==
  ASSUME NetTypes, NEW x \in Conns, Rio_readlineb(x, "near")
  PROVE  /\ conn' \in [Conns -> ConnTypes] /\ Only(x) /\ conn[x].down # <<>>
         /\ conn'[x].up = conn[x].up /\ conn'[x].closed = conn[x].closed
         /\ conn'[x].down = Tail(conn[x].down)
         /\ NextLine(x, "near") = Head(conn[x].down) /\ NextLine(x, "near") \in Lines
<1>1. /\ conn' = [conn EXCEPT ![x]["down"] = Tail(@)] /\ conn[x].down # <<>>
      /\ NextLine(x, "near") = Head(conn[x].down)
  BY DEF Rio_readlineb, Available, In, NextLine
<1>2. Tail(conn[x].down) \in Seq(Lines) /\ Head(conn[x].down) \in Lines
  BY <1>1, ConnFacts, HeadTail
<1>3. conn'[x] = [conn[x] EXCEPT !.down = Tail(conn[x].down)]
  BY <1>1 DEF NetTypes
<1>4. conn'[x] \in ConnTypes /\ conn'[x].down = Tail(conn[x].down) /\ conn'[x].up = conn[x].up
      /\ conn'[x].closed = conn[x].closed
  BY <1>2, <1>3, ConnFacts DEF ConnTypes
<1> QED BY <1>1, <1>2, <1>4 DEF NetTypes, Only

\* What Rio_readlineb does at the far end.
LEMMA ReadFar ==
  ASSUME NetTypes, NEW x \in Conns, Rio_readlineb(x, "far")
  PROVE  /\ conn' \in [Conns -> ConnTypes] /\ Only(x) /\ conn[x].up # <<>>
         /\ conn'[x].down = conn[x].down /\ conn'[x].closed = conn[x].closed
         /\ conn'[x].up = Tail(conn[x].up)
         /\ NextLine(x, "far") = Head(conn[x].up) /\ NextLine(x, "far") \in Lines
<1>1. /\ conn' = [conn EXCEPT ![x]["up"] = Tail(@)] /\ conn[x].up # <<>>
      /\ NextLine(x, "far") = Head(conn[x].up)
  BY DEF Rio_readlineb, Available, In, NextLine
<1>2. Tail(conn[x].up) \in Seq(Lines) /\ Head(conn[x].up) \in Lines
  BY <1>1, ConnFacts, HeadTail
<1>3. conn'[x] = [conn[x] EXCEPT !.up = Tail(conn[x].up)]
  BY <1>1 DEF NetTypes
<1>4. conn'[x] \in ConnTypes /\ conn'[x].up = Tail(conn[x].up) /\ conn'[x].down = conn[x].down
      /\ conn'[x].closed = conn[x].closed
  BY <1>2, <1>3, ConnFacts DEF ConnTypes
<1> QED BY <1>1, <1>2, <1>4 DEF NetTypes, Only

\* What Close does.
LEMMA Closes ==
  ASSUME NetTypes, NEW x \in Conns, NEW end \in {"near", "far"}, Close(x, end)
  PROVE  /\ conn' \in [Conns -> ConnTypes] /\ Only(x)
         /\ conn'[x].up = conn[x].up /\ conn'[x].down = conn[x].down
         /\ conn'[x].closed = conn[x].closed \cup {end}
<1>1. conn' = [conn EXCEPT ![x].closed = @ \cup {end}]
  BY DEF Close
<1>2. conn'[x] = [conn[x] EXCEPT !.closed = conn[x].closed \cup {end}]
  BY <1>1 DEF NetTypes
<1>3. conn'[x] \in ConnTypes /\ conn'[x].up = conn[x].up /\ conn'[x].down = conn[x].down
      /\ conn'[x].closed = conn[x].closed \cup {end}
  BY <1>2, ConnFacts DEF ConnTypes
<1> QED BY <1>1, <1>3 DEF NetTypes, Only

\* What open_clientfd does: the connection is new, and last in the server's backlog.
LEMMA Connects ==
  ASSUME NetTypes, NEW x \in Conns, NEW s, Connect(x, s)
  PROVE  /\ conn' \in [Conns -> ConnTypes] /\ Only(x) /\ conn'[x] = Fresh /\ dead' = dead
         /\ backlog' \in [{"proxy", "tiny"} -> Seq(Conns)]
         /\ \A t \in {"proxy", "tiny"} : backlog'[t] = IF s = t THEN Append(backlog[t], x) ELSE backlog[t]
<1>1. conn' = [conn EXCEPT ![x] = Fresh] /\ dead' = dead
  BY DEF Connect
<1>2. conn' \in [Conns -> ConnTypes] /\ Only(x) /\ conn'[x] = Fresh
  BY <1>1, FreshFacts DEF NetTypes, Only
<1>3. CASE s \in {"proxy", "tiny"}
  <2>1. backlog' = [backlog EXCEPT ![s] = Append(backlog[s], x)]
    BY <1>3 DEF Connect, NetTypes
  <2>2. Append(backlog[s], x) \in Seq(Conns)
    BY <1>3, AddLast DEF NetTypes
  <2> QED BY <1>1, <1>2, <1>3, <2>1, <2>2 DEF NetTypes
<1>4. CASE s \notin {"proxy", "tiny"}
  <2>1. backlog' = backlog
    BY <1>4 DEF Connect, NetTypes
  <2> QED BY <1>1, <1>2, <1>4, <2>1 DEF NetTypes
<1> QED BY <1>3, <1>4

\* What Accept does: the first connection leaves the backlog.
LEMMA Accepts ==
  ASSUME NetTypes, NEW s \in {"proxy", "tiny"}, Accept(s), OnceEach(backlog[s])
  PROVE  /\ backlog' \in [{"proxy", "tiny"} -> Seq(Conns)]
         /\ Head(backlog[s]) \in Elems(backlog[s]) /\ Head(backlog[s]) \in Conns
         /\ Elems(backlog'[s]) = Elems(backlog[s]) \ {Head(backlog[s])} /\ OnceEach(backlog'[s])
         /\ \A t \in {"proxy", "tiny"} \ {s} : backlog'[t] = backlog[t]
<1>1. backlog[s] \in Seq(Conns) /\ backlog[s] # <<>> /\ backlog' = [backlog EXCEPT ![s] = Tail(backlog[s])]
  BY DEF NetTypes, Accept
<1>2. Tail(backlog[s]) \in Seq(Conns) /\ Head(backlog[s]) \in Conns
  BY <1>1, HeadTail
<1>3. backlog'[s] = Tail(backlog[s])
  BY <1>1 DEF NetTypes
<1> QED BY <1>1, <1>2, <1>3, TakeHead DEF NetTypes

\* CloseAll(near, far) closes ends and changes nothing else.
LEMMA ClosesAll ==
  ASSUME NetTypes, NEW near, NEW far, CloseAll(near, far)
  PROVE  /\ conn' \in [Conns -> ConnTypes]
         /\ \A x \in Conns : /\ conn'[x].up = conn[x].up /\ conn'[x].down = conn[x].down
                             /\ ("near" \in conn'[x].closed) <=> ("near" \in conn[x].closed \/ x \in near)
                             /\ ("far" \in conn'[x].closed) <=> ("far" \in conn[x].closed \/ x \in far)
<1> DEFINE D(x) == conn[x].closed \cup (IF x \in near THEN {"near"} ELSE {})
                                  \cup (IF x \in far THEN {"far"} ELSE {})
<1>1. conn' = [x \in Conns |-> [conn[x] EXCEPT !.closed = D(x)]]
  BY DEF CloseAll
<1>2. ASSUME NEW x \in Conns
      PROVE  /\ D(x) \subseteq {"near", "far"}
             /\ ("near" \in D(x)) <=> ("near" \in conn[x].closed \/ x \in near)
             /\ ("far" \in D(x)) <=> ("far" \in conn[x].closed \/ x \in far)
  BY ConnFacts
<1> HIDE DEF D
<1>3. ASSUME NEW x \in Conns
      PROVE  /\ conn'[x] \in ConnTypes /\ conn'[x].up = conn[x].up /\ conn'[x].down = conn[x].down
             /\ conn'[x].closed = D(x)
  BY <1>1, <1>2, ConnFacts DEF ConnTypes
<1> QED BY <1>1, <1>2, <1>3

-----------------------------------------------------------------------------
(* What the clients ask for *)

\* What is known of a request.
LEMMA AskedFacts ==
  ASSUME request \in Requests, NEW c \in Clients
  PROVE  /\ request[c].lines \in Seq(Lines) /\ Len(request[c].lines) \in Nat \ {0}
         /\ Asked(c) = request[c].lines[1] /\ Asked(c) \in Lines
         /\ \/ request[c].to = "tiny" /\ Url(c) \in DOMAIN Files /\ Uri(c) = Url(c) /\ Server(c) = "tiny"
            \/ /\ request[c].to = "proxy" /\ Url(c) \in AllUrls /\ Path(Url(c)) \in DOMAIN Files
               /\ Uri(c) = Path(Url(c))
         /\ Uri(c) \in DOMAIN Files
<1>1. /\ request[c].lines \in Seq({request[c].lines[i] : i \in DOMAIN request[c].lines})
      /\ request[c].lines # <<>>
      /\ \/ request[c].to = "tiny" /\ Url(c) \in DOMAIN Files
         \/ request[c].to = "proxy" /\ Url(c) \in AllUrls /\ Path(Url(c)) \in DOMAIN Files
  BY RequestsAssumption DEF Url, Asked
<1>2. /\ Len(request[c].lines) \in Nat \ {0} /\ DOMAIN request[c].lines = 1 .. Len(request[c].lines)
  <2> DEFINE S == {request[c].lines[i] : i \in DOMAIN request[c].lines}
  <2>1. request[c].lines \in Seq(S) /\ request[c].lines # <<>>
    BY <1>1
  <2> HIDE DEF S
  <2> QED BY <2>1
<1>3. \A i \in 1 .. Len(request[c].lines) : request[c].lines[i] \in Lines
  <2> SUFFICES ASSUME NEW i \in 1 .. Len(request[c].lines) PROVE request[c].lines[i] \in Lines
    OBVIOUS
  <2>1. request[c].lines[i] \in {r[d].lines[j] : r \in Requests, d \in Clients, j \in Nat}
    BY <1>2
  <2> QED BY <2>1 DEF Lines
<1>4. request[c].lines \in Seq(Lines)
  <2> DEFINE S == {request[c].lines[i] : i \in DOMAIN request[c].lines}
  <2>1. request[c].lines \in Seq(S)
    BY <1>1
  <2>2. \A i \in DOMAIN request[c].lines : request[c].lines[i] \in Lines
    BY <1>2, <1>3
  <2>3. S \subseteq Lines
    BY <2>2
  <2> HIDE DEF S
  <2> QED BY <2>1, <2>3
<1>5. Uri(c) = IF request[c].to = "tiny" THEN Url(c) ELSE Path(Url(c))
  BY DEF Uri
<1> QED BY <1>1, <1>2, <1>3, <1>4, <1>5 DEF Asked, Server

\* There are right answers, and which ones are always among them.
LEMMA RightOnes ==
  ASSUME request \in Requests, NEW c \in Clients
  PROVE  /\ \A a \in RightAnswers(c) : a \in Seq(Lines) /\ Len(a) \in Nat
         /\ RightAnswers(c) # {}
         /\ request[c].to = "tiny" => /\ AnswerTo(Asked(c)) \in RightAnswers(c)
                                      /\ AnswerTo(Asked(c)) \in Answers
         /\ request[c].to = "proxy" /\ Server(c) = "tiny" =>
              {Answer(Uri(c)), Cut(Answer(Uri(c)))} \subseteq RightAnswers(c)
         /\ request[c].to = "proxy" /\ MayRefuse(c) => Page \in RightAnswers(c)
<1>1. Answer(Uri(c)) \in Answers /\ Page \in Answers /\ clienterror("501") \in Answers
  BY AskedFacts, SomeLines
<1>2. \A a \in Answers \cup {<<>>} : a \in Seq(Lines) /\ Len(a) \in Nat
  <2>1. \A a \in Answers : a \in Seq(Lines) /\ Len(a) \in Nat
    BY AnswersTyped
  <2>2. <<>> \in Seq(Lines) /\ Len(<<>>) \in Nat
    OBVIOUS
  <2> QED BY <2>1, <2>2
<1>3. Cut(Answer(Uri(c))) \in Seq(Lines)
  BY <1>1, AnswersTyped
<1>4. \A a \in RightAnswers(c) : a \in Answers \cup {<<>>} \/ a = Cut(Answer(Uri(c)))
  BY <1>1 DEF RightAnswers
<1>5. \A a \in RightAnswers(c) : a \in Seq(Lines) /\ Len(a) \in Nat
  BY <1>2, <1>3, <1>4
<1>6. request[c].to = "tiny" => /\ AnswerTo(Asked(c)) \in RightAnswers(c)
                                /\ AnswerTo(Asked(c)) \in Answers
  <2> SUFFICES ASSUME request[c].to = "tiny" PROVE AnswerTo(Asked(c)) \in RightAnswers(c) \cap Answers
    OBVIOUS
  <2>1. Server(c) = "tiny" /\ Uri(c) = Asked(c)[2]
    BY AskedFacts DEF Url
  <2>2. MayRefuse(c) <=> Asked(c)[1] # "GET"
    BY DEF MayRefuse
  <2> QED BY <1>1, <2>1, <2>2 DEF RightAnswers, AnswerTo
<1>7. request[c].to = "proxy" /\ Server(c) = "tiny" =>
        {Answer(Uri(c)), Cut(Answer(Uri(c)))} \subseteq RightAnswers(c)
  BY DEF RightAnswers
<1>8. request[c].to = "proxy" /\ MayRefuse(c) => Page \in RightAnswers(c)
  BY DEF RightAnswers
<1>9. RightAnswers(c) # {}
  <2>1. CASE request[c].to = "tiny"
    BY <1>6, <2>1
  <2>2. CASE request[c].to = "proxy"
    BY <2>2 DEF RightAnswers
  <2> QED BY <2>1, <2>2, AskedFacts
<1> QED BY <1>5, <1>6, <1>7, <1>8, <1>9

\* A worker's request line is answered with the file's answer.
LEMMA GetAnswer ==
  ASSUME NEW u
  PROVE  AnswerTo(GetLine(u)) = Answer(u) /\ GetLine(u)[1] = "GET" /\ GetLine(u)[2] = u
BY DEF AnswerTo, GetLine, Line

\* A request does not change.
LEMMA SameRequest ==
  ASSUME request' = request, NEW c
  PROVE  /\ Asked(c)' = Asked(c) /\ Url(c)' = Url(c) /\ Uri(c)' = Uri(c) /\ Server(c)' = Server(c)
         /\ RightAnswers(c)' = RightAnswers(c)
<1>1. Asked(c)' = Asked(c) /\ Url(c)' = Url(c)
  BY DEF Asked, Url
<1>2. Uri(c)' = Uri(c) /\ Server(c)' = Server(c)
  BY <1>1 DEF Uri, Server
<1>3. MayRefuse(c)' = MayRefuse(c)
  BY <1>1 DEF MayRefuse
<1> QED BY <1>1, <1>2, <1>3 DEF RightAnswers

-----------------------------------------------------------------------------
(* What a step leaves as it was *)

\* Tiny stands to x as before, or it has died and closed its end.
KeepsTiny(x) ==
  IF TinyAlive'
  THEN /\ TinyAlive
       /\ (x \in Elems(backlog["tiny"])') <=> (x \in Elems(backlog["tiny"]))
       /\ (tiny'.fd = x) <=> (tiny.fd = x)
       /\ tiny.fd = x => tiny' = tiny
  ELSE TinyAlive /\ InTiny(x) => "far" \in conn'[x].closed

\* Nothing goes on at x, but for a process that dies.
KeepsConn(x) ==
  /\ conn'[x].up = conn[x].up /\ conn'[x].down = conn[x].down
  /\ Open(x)' <=> Open(x)
  /\ "far" \in conn[x].closed => "far" \in conn'[x].closed
  /\ "far" \in conn'[x].closed \ conn[x].closed =>
       \/ TinyAlive /\ ~ TinyAlive' /\ InTiny(x)
       \/ ~ crashed /\ crashed' /\ InProxy(x)

\* What c has been sent stays.
KeepsSent(c) == /\ \A a : Sent(c, a) => Sent(c, a)'
                /\ Given(c)' = Given(c)
                /\ Open(c)' => Open(c)
                /\ Silent(c) => Silent(c)'

\* How much Tiny has written, when it does nothing for x.
LEMMA TinyAtSame ==
  ASSUME NEW x, NEW k, NEW line, KeepsTiny(x), "far" \in conn[x].closed => "far" \in conn'[x].closed,
         TinyAt(x, k, line)
  PROVE  TinyAt(x, k, line)'
<1>1. CASE ~ TinyAlive'
  BY <1>1 DEF TinyAt, KeepsTiny, InTiny
<1>2. CASE TinyAlive' /\ tiny.fd # x
  BY <1>2 DEF TinyAt, KeepsTiny
<1>3. CASE TinyAlive' /\ tiny.fd = x
  <2>1. tiny' = tiny /\ TinyAlive
    BY <1>3 DEF KeepsTiny
  <2>2. TinyHas(k, line) => TinyHas(k, line)'
    BY <2>1 DEF TinyHas
  <2> QED BY <1>3, <2>1, <2>2 DEF TinyAt, KeepsTiny
<1> QED BY <1>1, <1>2, <1>3

\* The answer that flows through x, when nothing is done there.
LEMMA FlowSame ==
  ASSUME NEW x, NEW m, NEW line, KeepsTiny(x), "far" \in conn[x].closed => "far" \in conn'[x].closed,
         conn'[x].down = conn[x].down, Flow(x, m, line)
  PROVE  Flow(x, m, line)'
<1>1. PICK k : k = m + Len(conn[x].down)
  OBVIOUS
<1>2. TinyAt(x, k, line)'
  BY <1>1, TinyAtSame DEF Flow
<1> QED BY <1>1, <1>2 DEF Flow

\* What c has got, when nothing is done there.
LEMMA ConnKeepsSent ==
  ASSUME NEW c, client'[c].got = client[c].got, conn'[c].down = conn[c].down, Open(c)' => Open(c)
  PROVE  KeepsSent(c)
BY DEF KeepsSent, Sent, Given, Silent

CliOK(c) == ClientOK(c) /\ AskedOK(c) /\ AnswerOK(c) /\ DirectOK(c)

\* A client's part of the invariant, when nothing is done to the client.
LEMMA ClientSame ==
  ASSUME NEW c \in Clients, request' = request, client'[c] = client[c], KeepsConn(c), KeepsTiny(c),
         dead \subseteq dead', client[c].state \in {"new", "refused"} => conn'[c] = conn[c],
         WaitsForProxy(c)' => WaitsForProxy(c), WaitsForTiny(c)' => WaitsForTiny(c), CliOK(c)
  PROVE  CliOK(c)'
<1>0. Asked(c)' = Asked(c) /\ RightAnswers(c)' = RightAnswers(c)
  BY SameRequest
<1>1. ClientOK(c)'
  BY DEF ClientOK, CliOK, KeepsConn, Open
<1>2. AskedOK(c)'
  BY <1>0 DEF AskedOK, CliOK, KeepsConn, Silent, Unread
<1>3. AnswerOK(c)'
  <2>1. PICK a \in RightAnswers(c) :
          /\ Sent(c, a)
          /\ "far" \in conn[c].closed /\ client[c].state # "left" /\ dead = {} => Given(c) = Len(a)
    BY DEF CliOK, AnswerOK
  <2>2. Sent(c, a)' /\ Given(c)' = Given(c)
    BY <2>1, ConnKeepsSent DEF KeepsConn, KeepsSent
  <2>3. "far" \in conn'[c].closed /\ dead' = {} => "far" \in conn[c].closed /\ dead = {}
    BY DEF KeepsConn, TinyAlive, crashed
  <2> QED BY <1>0, <2>1, <2>2, <2>3 DEF AnswerOK
<1>4. DirectOK(c)'
  <2> SUFFICES ASSUME request[c].to = "tiny", client[c].state \notin {"new", "refused"}
               PROVE  Sent(c, AnswerTo(Asked(c)))' /\ (Open(c)' => TinyAt(c, Given(c), Asked(c))')
    BY DEF DirectOK
  <2>1. PICK k, line, a : k = Given(c) /\ line = Asked(c) /\ a = AnswerTo(Asked(c))
    OBVIOUS
  <2>2. Sent(c, a) /\ (Open(c) => TinyAt(c, k, line))
    BY <2>1 DEF DirectOK, CliOK
  <2>3. Sent(c, a)' /\ k = Given(c)' /\ a = AnswerTo(Asked(c))' /\ line = Asked(c)'
    BY <1>0, <2>1, <2>2, ConnKeepsSent DEF KeepsConn, KeepsSent, AnswerTo
  <2>4. Open(c)' => TinyAt(c, k, line)'
    BY <2>2, TinyAtSame DEF KeepsConn
  <2> QED BY <2>3, <2>4 DEF Sent, TinyAt, TinyHas
<1> QED BY <1>1, <1>2, <1>3, <1>4 DEF CliOK

\* What a worker has in hand, when another process moves.
LEMMA RequestSame ==
  ASSUME NEW w \in Workers, request' = request, worker'[w] = worker[w], Open(w)' <=> Open(w),
         worker[w].pc \notin {"take", "request"}, KeepsSent(worker[w].fd),
         RequestOK(w) /\ ReplyOK(w), TinyAlive' => TinyAlive
  PROVE  RequestOK(w)' /\ ReplyOK(w)'
<1>1. PICK c : c = worker[w].fd
  OBVIOUS
<1>2. /\ Asked(c)' = Asked(c) /\ Url(c)' = Url(c) /\ Server(c)' = Server(c) /\ Uri(c)' = Uri(c)
      /\ RightAnswers(c)' = RightAnswers(c)
  BY SameRequest
<1>3. KeepsSent(c)
  BY <1>1
<1>4. RequestOK(w)'
  <2>1. Silent(c) => Silent(c)'
    BY <1>3 DEF KeepsSent
  <2> QED BY <1>1, <1>2, <2>1 DEF RequestOK
<1>5. ReplyOK(w)'
  <2>1. ASSUME worker[w].pc = "reply"
        PROVE  \E a \in RightAnswers(c) :
                 /\ Sent(c, a)'
                 /\ Open(c)' => /\ Piece(worker'[w].todo, Given(c)', a)
                                /\ TinyAlive' => Given(c)' + Len(worker'[w].todo) = Len(a)
    <3>1. PICK a \in RightAnswers(c) :
                 /\ Sent(c, a)
                 /\ Open(c) => /\ Piece(worker[w].todo, Given(c), a)
                               /\ TinyAlive => Given(c) + Len(worker[w].todo) = Len(a)
      BY <1>1, <2>1 DEF ReplyOK
    <3> QED BY <1>3, <3>1 DEF KeepsSent
  <2>2. ASSUME worker[w].pc = "close", Open(c)'
        PROVE  \E a \in RightAnswers(c) : Sent(c, a)' /\ (TinyAlive' => Given(c)' = Len(a))
    <3>1. PICK a \in RightAnswers(c) : Sent(c, a) /\ (TinyAlive => Given(c) = Len(a))
      BY <1>1, <1>3, <2>2 DEF ReplyOK, KeepsSent
    <3> QED BY <1>3, <3>1 DEF KeepsSent
  <2> QED BY <1>1, <1>2, <2>1, <2>2 DEF ReplyOK
<1> QED BY <1>4, <1>5

\* However much of it has been read, the rest of the answer to line follows.
KeepsFlow(x, line) == \A m \in Nat : Flow(x, m, line) => Flow(x, m, line)'

\* What a worker has passed on, when another process moves.
LEMMA DownloadSame ==
  ASSUME NEW w \in Workers, NEW n \in Nat, NEW line, line = GetLine(Uri(worker[w].fd)),
         request' = request, worker'[w] = worker[w],
         KeepsFlow(w, line), KeepsSent(worker[w].fd), Download(w, n)
  PROVE  Download(w, n)'
<1>1. PICK c, a : c = worker[w].fd /\ a = Answer(Uri(c))
  OBVIOUS
<1>2. Uri(c)' = Uri(c) /\ c = worker'[w].fd
  BY <1>1, SameRequest
<1>3. a = Answer(Uri(c))' /\ line = GetLine(Uri(c))'
  BY <1>1, <1>2 DEF Answer, GetLine, Body
<1>4. Sent(c, a)' /\ (Open(c)' => Given(c)' = n)
  BY <1>1 DEF KeepsSent, Download
<1>5. worker[w].pc = "relay" => Flow(w, n + 1, line)'
  <2>1. PICK m \in Nat : m = n + 1
    OBVIOUS
  <2>2. worker[w].pc = "relay" => Flow(w, m, line)
    BY <1>1, <2>1 DEF Download
  <2> QED BY <2>1, <2>2 DEF KeepsFlow
<1>6. worker[w].pc = "response" => Flow(w, n, line)'
  BY <1>1 DEF Download, KeepsFlow
<1>7. (Answer(Uri(c)) = a) /\ (Answer(Uri(worker[w].fd))' = a) /\ GetLine(Uri(worker[w].fd))' = line
  BY <1>1, <1>2, <1>3
<1> QED BY <1>1, <1>2, <1>4, <1>5, <1>6, <1>7 DEF Download, Sent, Flow

\* What a worker gets from Tiny, when another process moves.
LEMMA FromTinySame ==
  ASSUME NEW w \in Workers, request' = request, worker'[w] = worker[w],
         \A line : line = GetLine(Uri(worker[w].fd)) /\ worker[w].pc \in ConnectedPCs => KeepsFlow(w, line),
         WaitsForTiny(w)' => WaitsForTiny(w) /\ conn'[w].up = conn[w].up,
         worker[w].pc \in ConnectedPCs => KeepsSent(worker[w].fd),
         FromTiny(w)
  PROVE  FromTiny(w)'
<1> SUFFICES ASSUME worker[w].pc \in ConnectedPCs, Server(worker[w].fd)' = "tiny"
             PROVE  FromTiny(w)'
  BY DEF FromTiny
<1>1. PICK c, line : c = worker[w].fd /\ line = GetLine(Uri(c))
  OBVIOUS
<1>2. Uri(c)' = Uri(c) /\ Server(c)' = Server(c) /\ c = worker'[w].fd /\ line = GetLine(Uri(c))'
  BY <1>1, SameRequest DEF GetLine
<1>3. Server(c) = "tiny" /\ KeepsFlow(w, line) /\ line = GetLine(Uri(worker[w].fd))
  BY <1>1, <1>2
<1>4. worker[w].pc \in EarlyPCs => Flow(w, 0, line)'
  BY <1>1, <1>3 DEF FromTiny, KeepsFlow
<1>5. worker[w].pc \in DownloadPCs => \E n \in Nat : Download(w, n)'
  <2>1. worker[w].pc \in DownloadPCs => \E n \in Nat : Download(w, n)
    BY <1>1, <1>3 DEF FromTiny
  <2> QED BY <1>3, <2>1, DownloadSame
<1>7. WaitsForTiny(w)' => Unread(w, worker[w].pc = "line", line)'
  BY <1>1, <1>3 DEF FromTiny, Unread
<1>8. GetLine(Uri(worker[w].fd))' = line
  BY <1>1, <1>2
<1> QED BY <1>4, <1>5, <1>7, <1>8 DEF FromTiny, Flow, Unread

\* What a worker waits for in vain, when another process moves.
LEMMA FromHungSame ==
  ASSUME NEW w \in Workers, request' = request, worker'[w] = worker[w], ~ crashed',
         KeepsConn(w), KeepsTiny(w), worker[w].pc \in ConnectedPCs => KeepsSent(worker[w].fd),
         FromHung(w)
  PROVE  FromHung(w)'
<1> SUFFICES ASSUME worker[w].pc \in ConnectedPCs, Server(worker[w].fd)' = "hung"
             PROVE  FromHung(w)'
  BY DEF FromHung
<1>1. PICK c : c = worker[w].fd
  OBVIOUS
<1>2. Server(c)' = Server(c) /\ c = worker'[w].fd
  BY <1>1, SameRequest
<1>3. Server(c) = "hung"
  BY <1>1, <1>2
<1>4. /\ worker[w].pc \in EarlyPCs \cup {"response"} /\ Silent(c)
      /\ conn[w].down = <<>> /\ "far" \notin conn[w].closed /\ (TinyAlive => ~ InTiny(w))
  BY <1>1, <1>3 DEF FromHung
<1>5. Silent(c)'
  BY <1>1, <1>4 DEF KeepsSent
<1>6. conn'[w].down = <<>> /\ "far" \notin conn'[w].closed /\ (TinyAlive' => ~ InTiny(w)')
  BY <1>4, ConnFacts DEF KeepsConn, KeepsTiny, InTiny
<1> QED BY <1>1, <1>4, <1>5, <1>6 DEF FromHung

\* Nothing happens to w and to what it has sent; to its connection, only what Tiny does.
LEMMA WorkerServed ==
  ASSUME NEW w \in Workers, request' = request, worker'[w] = worker[w], ~ crashed',
         Open(w)' <=> Open(w), TinyAlive' => TinyAlive,
         \A line : line = GetLine(Uri(worker[w].fd)) /\ worker[w].pc \in ConnectedPCs => KeepsFlow(w, line),
         WaitsForTiny(w)' => WaitsForTiny(w) /\ conn'[w].up = conn[w].up,
         worker[w].pc # "take" => KeepsSent(worker[w].fd),
         worker[w].pc \in ConnectedPCs /\ Server(worker[w].fd) = "hung" => KeepsConn(w) /\ KeepsTiny(w),
         WorkerOK(w)
  PROVE  WorkerOK(w)'
<1>2. worker[w].pc \in ConnectedPCs => KeepsSent(worker[w].fd)
  BY DEF ConnectedPCs, EarlyPCs, DownloadPCs
<1>3. worker[w].pc \notin {"take", "request"} => RequestOK(w)' /\ ReplyOK(w)'
  BY RequestSame DEF WorkerOK
<1>4. FromTiny(w)'
  BY <1>2, FromTinySame DEF WorkerOK
<1>5. FromHung(w)'
  <2>1. CASE worker[w].pc \in ConnectedPCs /\ Server(worker[w].fd) = "hung"
    BY <1>2, <2>1, FromHungSame DEF WorkerOK
  <2>2. CASE ~ (worker[w].pc \in ConnectedPCs /\ Server(worker[w].fd) = "hung")
    <3>1. PICK c : c = worker[w].fd
      OBVIOUS
    <3>2. Server(c)' = Server(c) /\ c = worker'[w].fd
      BY <3>1, SameRequest
    <3> QED BY <2>2, <3>1, <3>2 DEF FromHung
  <2> QED BY <2>1, <2>2
<1> QED BY <1>3, <1>4, <1>5 DEF WorkerOK

\* Nothing happens to w and its connections.
LEMMA WorkerSame ==
  ASSUME NEW w \in Workers, request' = request, worker'[w] = worker[w], ~ crashed',
         KeepsConn(w), KeepsTiny(w), worker[w].pc # "take" => KeepsSent(worker[w].fd),
         WorkerOK(w)
  PROVE  WorkerOK(w)'
<1>1. TinyAlive' => TinyAlive
  BY DEF KeepsTiny
<1>2. WaitsForTiny(w)' => WaitsForTiny(w) /\ conn'[w].up = conn[w].up
  BY DEF WaitsForTiny, KeepsTiny, KeepsConn
<1>3. ASSUME NEW line PROVE KeepsFlow(w, line)
  BY FlowSame DEF KeepsFlow, KeepsConn
<1> QED BY <1>1, <1>2, <1>3, WorkerServed DEF KeepsConn

\* What a worker has asked of Tiny stays asked.
LEMMA GetsFileSame ==
  ASSUME NEW w \in Workers, conn'[w].up = conn[w].up, KeepsTiny(w), GetsFile(w)
  PROVE  GetsFile(w)'
BY DEF GetsFile, WaitsForTiny, KeepsTiny

\* The cache's part of the invariant, when the cache stays.
LEMMA CacheSame ==
  ASSUME list' = list, TinyAlive' => TinyAlive, CacheOK
  PROVE  CacheOK'
BY DEF CacheOK, EntryOK

-----------------------------------------------------------------------------
(* Who is affected by a step *)

\* The connection that a worker serves.
LEMMA Served ==
  ASSUME Inv, NEW w \in Workers, ~ crashed, worker[w].pc # "take", NEW c, c = worker[w].fd
  PROVE  /\ c \in Clients /\ c \in Conns /\ c # w /\ request[c].to = "proxy"
         /\ client[c].state \notin {"new", "refused"} /\ "far" \notin conn[c].closed
         /\ c \notin Elems(backlog["proxy"]) \cup Elems(queue)
         /\ TinyAlive => ~ InTiny(c)
         /\ \A v \in Workers \ {w} : worker[v].fd # c
         /\ CliOK(c) /\ WorkerOK(w) /\ worker[w] \in WorkerTypes
         /\ Url(c) \in AllUrls /\ Uri(c) \in DOMAIN Files /\ Uri(c) = Path(Url(c))
<1>1. c \in Clients /\ worker[w] \in WorkerTypes
  BY DEF Inv, TypeOK, ProxyTypes, WorkerTypes, Places, ProxyPlaces
<1>2. c \in Conns /\ c # w /\ InProxy(c)
  BY <1>1, ConnsFacts DEF InProxy
<1>3. request[c].to = "proxy" /\ client[c].state \notin {"new", "refused"} /\ "far" \notin conn[c].closed
  BY <1>2 DEF Inv, Places, ProxyPlaces
<1>4. \A v \in Workers \ {w} : worker[v].fd # c
  BY <1>1, ConnsFacts DEF Inv, Places, ProxyPlaces
<1>5. TinyAlive => ~ InTiny(c)
  BY <1>1, <1>2, <1>3 DEF Inv, Places, TinyPlaces
<1>6. CliOK(c) /\ WorkerOK(w)
  BY <1>1 DEF Inv, ClientsOK, WorkersOK, CliOK
<1>7. Url(c) \in AllUrls /\ Uri(c) \in DOMAIN Files /\ Uri(c) = Path(Url(c))
  BY <1>1, <1>3, AskedFacts DEF Inv, TypeOK, OtherTypes
<1>8. c \notin Elems(backlog["proxy"]) \cup Elems(queue)
  BY DEF Inv, Places, ProxyPlaces
<1> QED BY <1>1, <1>2, <1>3, <1>4, <1>5, <1>6, <1>7, <1>8

\* A step of worker w after the one that reads its request line, or of the connection c.
LEMMA WorkerFrame ==
  ASSUME Inv, NEW w \in Workers, ~ crashed, worker[w].pc # "take", NEW c, c = worker[w].fd,
         request' = request, client' = client, tiny' = tiny, dead' = dead, queue' = queue,
         backlog'["proxy"] = backlog["proxy"],
         \A v \in Workers \ {w} : worker'[v] = worker[v],
         \A y \in Conns \ {w} : KeepsTiny(y),
         \A y \in Conns \ {w, c} : conn'[y] = conn[y],
         worker'[w].fd = c \/ worker'[w].fd = "none",
         (worker'[w].fd = "none") <=> (worker'[w].pc = "take"),
         worker'[w].fd = c => "far" \notin conn'[c].closed,
         worker'[w].pc # "request"
  PROVE  /\ ProxyPlaces'
         /\ \A v \in Workers \ {w} : WorkerOK(v)' /\ GetsFile(v)'
         /\ \A d \in Clients \ {c} : CliOK(d)'
         /\ ~ WaitsForProxy(c)' /\ ~ WaitsForTiny(c)' /\ KeepsTiny(c)
<1>1. /\ c \in Clients /\ c \in Conns /\ c # w /\ request[c].to = "proxy"
      /\ client[c].state \notin {"new", "refused"} /\ "far" \notin conn[c].closed
      /\ c \notin Elems(backlog["proxy"]) \cup Elems(queue)
      /\ TinyAlive => ~ InTiny(c)
      /\ \A v \in Workers \ {w} : worker[v].fd # c
  BY Served
<1>2. ProxyPlaces'
  <2>1. ProxyPlaces
    BY DEF Inv, Places
  <2>2. \A v \in Workers : /\ worker'[v].fd \in {worker[v].fd, "none"}
                           /\ (worker'[v].fd = "none") <=> (worker'[v].pc = "take")
                           /\ v # w => worker'[v].fd = worker[v].fd
    BY <2>1 DEF ProxyPlaces
  <2>3. \A v \in Workers : /\ worker'[v].fd \notin Elems(backlog["proxy"]) \cup Elems(queue)
                           /\ \A u \in Workers \ {v} : worker'[u].fd = worker'[v].fd => worker'[v].fd = "none"
    <3>1. "none" \notin Elems(backlog["proxy"]) \cup Elems(queue)
      <4>1. backlog["proxy"] \in Seq(Conns) /\ queue \in Seq(Conns)
        BY DEF Inv, TypeOK, NetTypes, ProxyTypes
      <4> QED BY <4>1, ConnsFacts DEF Elems
    <3> QED BY <2>1, <2>2, <3>1 DEF ProxyPlaces
  <2>4. \A x \in Conns : InProxy(x)' => InProxy(x) /\ (x = c => worker'[w].fd = c)
    BY <1>1, <2>2, ConnsFacts DEF InProxy
  <2>5. \A x \in Conns : InProxy(x)' => "far" \notin conn'[x].closed
    BY <1>1, <2>1, <2>4, ConnsFacts DEF ProxyPlaces
  <2> QED BY <2>1, <2>2, <2>3, <2>4, <2>5 DEF ProxyPlaces
<1>3. ASSUME NEW v \in Workers \ {w} PROVE WorkerOK(v)' /\ GetsFile(v)'
  <2>1. v \in Conns /\ v # c /\ v # w /\ conn'[v] = conn[v] /\ KeepsTiny(v) /\ KeepsConn(v)
    BY <1>1, ConnsFacts DEF KeepsConn, Open
  <2>2. WorkerOK(v) /\ GetsFile(v)
    BY DEF Inv, WorkersOK
  <2>3. worker[v].pc # "take" => KeepsSent(worker[v].fd)
    <3>1. PICK d : d = worker[v].fd
      OBVIOUS
    <3>2. worker[v].pc # "take" => d \in Conns /\ d # w /\ d # c
      BY <1>1, <3>1, Served, ConnsFacts
    <3>3. worker[v].pc # "take" => KeepsSent(d)
      BY <3>2, ConnKeepsSent DEF Open
    <3> QED BY <3>1, <3>3
  <2>4. ~ crashed'
    BY DEF crashed
  <2> QED BY <2>1, <2>2, <2>3, <2>4, WorkerSame, GetsFileSame
<1>4. ASSUME NEW d \in Clients \ {c} PROVE CliOK(d)'
  <2>1. d \in Conns /\ d # w /\ conn'[d] = conn[d] /\ KeepsTiny(d) /\ KeepsConn(d)
    BY ConnsFacts DEF KeepsConn, Open
  <2>2. WaitsForProxy(d)' => WaitsForProxy(d)
    BY ConnsFacts DEF WaitsForProxy, crashed
  <2>3. WaitsForTiny(d)' => WaitsForTiny(d)
    BY <2>1 DEF WaitsForTiny, KeepsTiny
  <2>4. CliOK(d)
    BY DEF Inv, ClientsOK, CliOK
  <2> QED BY <2>1, <2>2, <2>3, <2>4, ClientSame
<1>5. KeepsTiny(c)
  BY <1>1
<1>6. ~ WaitsForTiny(c)'
  BY <1>1, <1>5 DEF WaitsForTiny, KeepsTiny, InTiny
<1>7. ~ WaitsForProxy(c)'
  <2>1. \A v \in Workers : worker'[v].fd = c => worker'[v].pc # "request"
    BY <1>1
  <2> QED BY <1>1, <2>1 DEF WaitsForProxy
<1> QED BY <1>2, <1>3, <1>4, <1>5, <1>6, <1>7

\* A client whose request has been read.
LEMMA ClientServed ==
  ASSUME Inv, NEW c \in Clients, request' = request, client' = client, request[c].to = "proxy",
         client[c].state \notin {"new", "refused"}, Open(c)' <=> Open(c),
         conn'[c].down = conn[c].down, "far" \notin conn[c].closed \cup conn'[c].closed,
         ~ WaitsForProxy(c)', ~ WaitsForTiny(c)', CliOK(c)
  PROVE  CliOK(c)' /\ KeepsSent(c)
<1>1. ClientOK(c)'
  BY ConnFacts DEF ClientOK, CliOK, Open
<1>2. AnswerOK(c)'
  <2>1. PICK a \in RightAnswers(c) : Sent(c, a)
    BY DEF CliOK, AnswerOK
  <2> QED BY <2>1, SameRequest, ConnKeepsSent DEF AnswerOK, KeepsSent
<1>3. DirectOK(c)' /\ AskedOK(c)'
  BY DEF DirectOK, AskedOK
<1> QED BY <1>1, <1>2, <1>3, ConnKeepsSent DEF CliOK

\* A step of w, or on c, that leaves Tiny alone.
LEMMA WorkerStep ==
  ASSUME Inv, NEW w \in Workers, ~ crashed, worker[w].pc # "take", NEW c, c = worker[w].fd,
         request' = request, client' = client, tiny' = tiny, dead' = dead, queue' = queue,
         backlog' = backlog,
         \A v \in Workers \ {w} : worker'[v] = worker[v],
         \A y \in Conns \ {w, c} : conn'[y] = conn[y],
         worker'[w].fd = c \/ worker'[w].fd = "none",
         (worker'[w].fd = "none") <=> (worker'[w].pc = "take"),
         worker'[w].fd = c => "far" \notin conn'[c].closed,
         "far" \in conn'[w].closed => "far" \in conn[w].closed,
         TinyAlive /\ InTiny(w) => worker'[w].pc \in ConnectedPCs,
         worker'[w].pc # "request"
  PROVE  /\ ~ WaitsForProxy(c)' /\ ~ WaitsForTiny(c)'
         /\ \A y \in Conns : KeepsTiny(y)
         /\ TypeOK' /\ CliOK(c)' /\ WorkerOK(w)' /\ GetsFile(w)' /\ CacheOK' => Inv'
<1>1. \A y \in Conns : KeepsTiny(y)
  BY DEF KeepsTiny, TinyAlive
<1>2. /\ ProxyPlaces'
      /\ \A v \in Workers \ {w} : WorkerOK(v)' /\ GetsFile(v)'
      /\ \A d \in Clients \ {c} : CliOK(d)'
      /\ ~ WaitsForProxy(c)' /\ ~ WaitsForTiny(c)'
  BY <1>1, WorkerFrame
<1>3. TinyAlive => TinyPlaces'
  <2> SUFFICES ASSUME TinyAlive PROVE TinyPlaces'
    OBVIOUS
  <2>1. TinyPlaces /\ ~ crashed
    BY DEF Inv, Places
  <2>2. ~ InTiny(c)
    BY Served
  <2>3. ASSUME NEW x \in Conns, InTiny(x)'
        PROVE  /\ InTiny(x) /\ x # c
               /\ "far" \notin conn'[x].closed
               /\ x \in Workers /\ ~ crashed => worker'[x].pc \in ConnectedPCs
    BY <2>1, <2>2, <2>3 DEF InTiny, TinyPlaces
  <2> QED BY <2>1, <2>3 DEF TinyPlaces, crashed
<1>4. Places'
  BY <1>2, <1>3 DEF Inv, Places, TinyAlive, crashed
<1>5. c \in Clients
  BY Served
<1>6. CliOK(c)' => ClientsOK'
  BY <1>2 DEF ClientsOK, CliOK
<1>7. WorkerOK(w)' /\ GetsFile(w)' => WorkersOK'
  BY <1>2 DEF WorkersOK
<1> QED BY <1>1, <1>2, <1>4, <1>6, <1>7 DEF Inv

-----------------------------------------------------------------------------
(* The cache *)

\* A set of natural numbers has a least one.
LEMMA Least == ASSUME NEW S, S \subseteq Nat, S # {}
               PROVE  \E i \in S : \A j \in S : i =< j
<1>1. PICK i \in S : \A j \in S : ~ (<<j, i>> \in OpToRel(<, Nat))
  BY NatLessThanWellFounded, WFMin, Zenon
<1>2. \A j \in S : <<j, i>> \in OpToRel(<, Nat) <=> j < i
  BY DEF OpToRel
<1>3. \A j \in S : ~ (j < i)
  BY <1>1, <1>2, Zenon
<1>4. \A j \in S : i =< j
  BY <1>3
<1> QED BY <1>4

\* lru_find returns a position that holds the url, if there is one.
LEMMA Found ==
  ASSUME NEW S, NEW l \in Seq(S), NEW k, Cache!Hit(l, k)
  PROVE  /\ Cache!Find(l, k) \in 1 .. Len(l) /\ l[Cache!Find(l, k)].key = k
         /\ l[Cache!Find(l, k)] \in S
<1> DEFINE hits == {i \in DOMAIN l : l[i].key = k}
<1>1. DOMAIN l = 1 .. Len(l) /\ Len(l) \in Nat /\ hits \subseteq 1 .. Len(l)
  OBVIOUS
<1>2. hits # {} /\ hits \subseteq Nat
  BY <1>1 DEF Cache!Hit, Cache!Find
<1>3. \E i \in hits : \A j \in hits : i =< j
  BY <1>2, Least
<1> HIDE DEF hits
<1>4. Cache!Find(l, k) = CHOOSE i \in hits : \A j \in hits : i =< j
  BY <1>2 DEF Cache!Find, hits
<1>5. Cache!Find(l, k) \in hits
  BY <1>3, <1>4
<1> QED BY <1>1, <1>5 DEF hits

\* The list without the entry that was found.
LEMMA Removed ==
  ASSUME NEW S, NEW l \in Seq(S), NEW k, Cache!Hit(l, k)
  PROVE  Cache!RemoveAt(l, Cache!Find(l, k)) \in Seq(S)
<1>1. PICK i \in 1 .. Len(l) : i = Cache!Find(l, k)
  BY Found
<1>2. SubSeq(l, 1, i - 1) \in Seq(S)
  <2>1. 1 \in 1 .. Len(l) + 1 /\ i - 1 \in 1 - 1 .. Len(l)
    OBVIOUS
  <2> QED BY <2>1, SubSeqProperties
<1>3. SubSeq(l, i + 1, Len(l)) \in Seq(S)
  <2>1. i + 1 \in 1 .. Len(l) + 1 /\ Len(l) \in (i + 1) - 1 .. Len(l)
    OBVIOUS
  <2> QED BY <2>1, SubSeqProperties
<1>4. SubSeq(l, 1, i - 1) \o SubSeq(l, i + 1, Len(l)) \in Seq(S)
  BY <1>2, <1>3
<1> QED BY <1>1, <1>4 DEF Cache!RemoveAt

\* The calls leave in the cache what was there, and what lru_put brings.
LEMMA KeptInCache ==
  ASSUME NEW S, NEW l \in Seq(S), NEW k
  PROVE  /\ Cache!Touch(l, k) \in Seq(S)
         /\ \A d : [key |-> k, data |-> d] \in S =>
              /\ Cache!Hit(l, k) => Cache!Replace(l, k, d) \in Seq(S)
              /\ \A sz : CacheCapacity # sz \/ l # <<>> => Cache!Insert(l, sz, k, d) \in Seq(S)
<1>1. Cache!Touch(l, k) \in Seq(S)
  BY Removed, Found DEF Cache!Touch, Cache!Hit
<1>2. ASSUME NEW d, [key |-> k, data |-> d] \in S
      PROVE  /\ Cache!Hit(l, k) => Cache!Replace(l, k, d) \in Seq(S)
             /\ \A sz : CacheCapacity # sz \/ l # <<>> => Cache!Insert(l, sz, k, d) \in Seq(S)
  <2>1. Cache!Hit(l, k) => Cache!Replace(l, k, d) \in Seq(S)
    BY <1>2, Removed DEF Cache!Replace
  <2>2. ASSUME NEW sz, CacheCapacity # sz \/ l # <<>> PROVE Cache!Insert(l, sz, k, d) \in Seq(S)
    <3>1. l # <<>> => Tail(l) \in Seq(S)
      OBVIOUS
    <3> QED BY <1>2, <2>2, <3>1 DEF Cache!Insert
  <2> QED BY <2>1, <2>2
<1> QED BY <1>1, <1>2

\* They do not empty it.
LEMMA NeverEmpty ==
  ASSUME NEW S, NEW l \in Seq(S), NEW k
  PROVE  /\ Cache!Touch(l, k) = <<>> => l = <<>>
         /\ \A d, sz : [key |-> k, data |-> d] \in S =>
              /\ Cache!Hit(l, k) => Cache!Replace(l, k, d) # <<>>
              /\ CacheCapacity # sz \/ l # <<>> => Cache!Insert(l, sz, k, d) # <<>>
<1>1. Cache!Hit(l, k) => Cache!Touch(l, k) # <<>>
  <2> SUFFICES ASSUME Cache!Hit(l, k) PROVE Cache!Touch(l, k) # <<>>
    OBVIOUS
  <2>1. PICK rest \in Seq(S), e \in S : rest = Cache!RemoveAt(l, Cache!Find(l, k)) /\ e = l[Cache!Find(l, k)]
    BY Removed, Found
  <2>2. Cache!Touch(l, k) = Append(rest, e)
    BY <2>1 DEF Cache!Touch, Cache!Hit
  <2> QED BY <2>2, Appended
<1>2. ~ Cache!Hit(l, k) => Cache!Touch(l, k) = l
  BY DEF Cache!Touch, Cache!Hit
<1>3. ASSUME NEW d, NEW sz, [key |-> k, data |-> d] \in S
      PROVE  /\ Cache!Hit(l, k) => Cache!Replace(l, k, d) # <<>>
             /\ CacheCapacity # sz \/ l # <<>> => Cache!Insert(l, sz, k, d) # <<>>
  <2>1. PICK e \in S : e = [key |-> k, data |-> d]
    BY <1>3
  <2>2. ASSUME Cache!Hit(l, k) PROVE Cache!Replace(l, k, d) # <<>>
    <3>1. PICK rest \in Seq(S) : rest = Cache!RemoveAt(l, Cache!Find(l, k))
      BY <2>2, Removed
    <3>2. Cache!Replace(l, k, d) = Append(rest, e)
      BY <2>1, <3>1 DEF Cache!Replace
    <3> QED BY <3>2, Appended
  <2>3. ASSUME CacheCapacity # sz \/ l # <<>> PROVE Cache!Insert(l, sz, k, d) # <<>>
    <3>1. PICK rest \in Seq(S) : rest = IF CacheCapacity = sz THEN Tail(l) ELSE l
      BY <2>3, HeadTail
    <3>2. Cache!Insert(l, sz, k, d) = Append(rest, e)
      BY <2>1, <3>1 DEF Cache!Insert
    <3> QED BY <3>2, Appended
  <2> QED BY <2>2, <2>3
<1> QED BY <1>1, <1>2, <1>3

-----------------------------------------------------------------------------
(* The steps of a worker *)

\* Types, when one worker and the connections change.
LEMMA TypeStep ==
  ASSUME TypeOK, conn' \in [Conns -> ConnTypes], UNCHANGED <<listenVars, queue, cacheVars, tiny, clientVars>>,
         NEW w \in Workers, worker' = [worker EXCEPT ![w] = worker'[w]], worker'[w] \in WorkerTypes
  PROVE  TypeOK' /\ \A v \in Workers \ {w} : worker'[v] = worker[v]
<1>1. NetTypes'
  BY DEF TypeOK, NetTypes, listenVars
<1>2. ProxyTypes' /\ \A v \in Workers \ {w} : worker'[v] = worker[v]
  BY DEF TypeOK, ProxyTypes, cacheVars
<1>3. OtherTypes'
  BY DEF TypeOK, OtherTypes, clientVars
<1> QED BY <1>1, <1>2, <1>3 DEF TypeOK

\* doit up to the end of the request to the server.
LEMMA EarlyStep ==
  ASSUME Inv, NEW w \in Workers, ~ crashed, worker[w].pc \in EarlyPCs, NEW c, c = worker[w].fd,
         UNCHANGED <<listenVars, queue, cacheVars, tiny, clientVars>>,
         conn' \in [Conns -> ConnTypes], \A y \in Conns \ {w, c} : conn'[y] = conn[y],
         conn'[c].down = conn[c].down, conn'[c].closed = conn[c].closed,
         conn'[w].down = conn[w].down, conn'[w].closed = conn[w].closed,
         worker[w].pc = "line" /\ "far" \notin conn[w].closed => conn'[w].up = Append(conn[w].up, worker[w].buf),
         worker[w].pc # "line" => \/ conn'[w].up = conn[w].up
                                  \/ \E line \in Lines : conn'[w].up = Append(conn[w].up, line),
         worker' = [worker EXCEPT ![w] = worker'[w]], worker'[w] \in WorkerTypes,
         worker'[w].fd = c, worker'[w].url = worker[w].url,
         worker'[w].pc \in {"header", "forward", "add", "response"},
         worker'[w].pc = "response" => worker'[w].rev_data = <<>>,
         worker'[w].pc = "add" => worker'[w].todo # <<>>
  PROVE  Inv'
<1>1. /\ c \in Clients /\ c \in Conns /\ c # w /\ request[c].to = "proxy"
      /\ client[c].state \notin {"new", "refused"} /\ "far" \notin conn[c].closed
      /\ TinyAlive => ~ InTiny(c)
      /\ CliOK(c) /\ WorkerOK(w) /\ Uri(c) \in DOMAIN Files /\ worker[w] \in WorkerTypes
  BY Served DEF EarlyPCs
<1>2. /\ w \in Conns /\ c # "none" /\ worker[w].pc \notin {"take", "request", "reply", "close", "parse", "connect"}
      /\ worker[w].pc \in ConnectedPCs
  BY <1>1, ConnsFacts DEF EarlyPCs, ConnectedPCs
<1>3. worker'[w].pc \in ConnectedPCs /\ worker'[w].pc \notin {"take", "request", "line", "reply", "close", "parse", "connect"}
  BY DEF EarlyPCs, ConnectedPCs, DownloadPCs
<1>4. TypeOK' /\ \A v \in Workers \ {w} : worker'[v] = worker[v]
  BY TypeStep DEF Inv
<1>5. /\ ~ WaitsForProxy(c)' /\ ~ WaitsForTiny(c)' /\ \A y \in Conns : KeepsTiny(y)
      /\ CliOK(c)' /\ WorkerOK(w)' /\ GetsFile(w)' /\ CacheOK' => Inv'
  BY <1>1, <1>2, <1>3, <1>4, WorkerStep DEF listenVars, clientVars
<1>6. CliOK(c)' /\ KeepsSent(c)
  BY <1>1, <1>5, ClientServed DEF Open, clientVars
<1>7. CacheOK'
  BY CacheSame DEF Inv, cacheVars, listenVars, TinyAlive
<1>8. PICK line : line = GetLine(Uri(c))
  OBVIOUS
<1>9. /\ Asked(c)' = Asked(c) /\ Url(c)' = Url(c) /\ Uri(c)' = Uri(c) /\ Server(c)' = Server(c)
      /\ RightAnswers(c)' = RightAnswers(c)
  BY SameRequest DEF clientVars
<1>10. line = GetLine(Uri(c))' /\ line \in Lines
  BY <1>1, <1>8, <1>9, SomeLines DEF GetLine
<1>11. RequestOK(w) /\ ReplyOK(w) /\ FromTiny(w) /\ FromHung(w)
  BY <1>1, <1>2 DEF WorkerOK
<1>12. Silent(c) /\ Silent(c)'
  BY <1>6, <1>11 DEF RequestOK, KeepsSent
<1>13. RequestOK(w)'
  BY <1>3, <1>9, <1>11, <1>12, <1>2 DEF RequestOK, Open
<1>14. ReplyOK(w)'
  BY <1>3 DEF ReplyOK
<1>15. ASSUME Server(c) = "tiny", WaitsForTiny(w)' PROVE Unread(w, FALSE, line)'
  <2>1. WaitsForTiny(w) /\ InTiny(w) /\ TinyAlive
    BY <1>2, <1>5, <1>15 DEF WaitsForTiny, KeepsTiny, InTiny
  <2>2. Unread(w, worker[w].pc = "line", line) /\ "far" \notin conn[w].closed
    BY <1>2, <1>8, <1>11, <1>15, <2>1 DEF FromTiny, Inv, Places, TinyPlaces
  <2>3. conn[w].up \in Seq(Lines) /\ worker[w].buf \in Lines
    BY <1>1, <1>2, ConnFacts DEF Inv, TypeOK, WorkerTypes
  <2>4. CASE worker[w].pc = "line"
    <3>1. conn'[w].up = Append(conn[w].up, worker[w].buf) /\ worker[w].buf = line /\ conn[w].up = <<>>
      BY <1>8, <1>11, <2>2, <2>4 DEF RequestOK, Unread
    <3> QED BY <2>3, <3>1, Appended DEF Unread
  <2>5. CASE worker[w].pc # "line"
    BY <2>2, <2>3, <2>5, Appended DEF Unread
  <2> QED BY <2>4, <2>5
<1>16. Server(c) = "tiny" => Flow(w, 0, line) /\ Flow(w, 0, line)'
  <2>1. Server(c) = "tiny" => Flow(w, 0, line)
    BY <1>2, <1>8, <1>11 DEF FromTiny
  <2> QED BY <1>2, <1>5, <2>1, FlowSame
<1>17. ASSUME Server(c) = "tiny", worker'[w].pc = "response" PROVE Download(w, 0)'
  <2>1. PICK a : a = Answer(Uri(c))
    OBVIOUS
  <2>2. a = Answer(Uri(c))' /\ a \in Answers
    BY <1>1, <1>9, <2>1, SomeLines DEF Answer, Body
  <2>3. Piece(<<>>, 0, a) /\ Piece(<<>>, 0, Cut(a)) /\ a \in Seq(Lines)
    BY <2>2, AnswersTyped, EmptyPiece
  <2>4. Sent(c, a)' /\ Given(c)' = 0
    BY <1>12, <2>3 DEF Sent, Given, Silent
  <2>5. <<>> # NULL
    BY DEF NULL
  <2>6. (Answer(Uri(worker[w].fd))' = a) /\ GetLine(Uri(worker[w].fd))' = line /\ Cut(a)' = Cut(a)
    BY <1>9, <1>10, <2>2 DEF Cut
  <2> QED BY <1>10, <1>16, <1>17, <2>2, <2>3, <2>4, <2>5, <2>6 DEF Download, Sent, Given, Flow
<1>18. FromTiny(w)'
  <2> SUFFICES ASSUME Server(c) = "tiny" PROVE FromTiny(w)'
    BY <1>9 DEF FromTiny
  <2>1. GetLine(Uri(worker[w].fd))' = line
    BY <1>10
  <2>2. 0 \in Nat
    OBVIOUS
  <2>3. worker'[w].pc \in EarlyPCs => Flow(w, 0, line)'
    BY <1>16
  <2>4. worker'[w].pc \in DownloadPCs => Download(w, 0)'
    BY <1>17 DEF DownloadPCs
  <2>5. WaitsForTiny(w)' => Unread(w, FALSE, line)'
    BY <1>15
  <2>6. worker'[w].pc # "line"
    BY <1>3
  <2> QED BY <2>1, <2>2, <2>3, <2>4, <2>5, <2>6 DEF FromTiny, Flow, Unread
<1>19. FromHung(w)'
  <2>1. ASSUME Server(c) = "hung" PROVE conn'[w].down = <<>> /\ "far" \notin conn'[w].closed /\ (TinyAlive' => ~ InTiny(w)')
    BY <1>2, <1>11, <1>5, <2>1 DEF FromHung, KeepsTiny, InTiny
  <2> QED BY <1>9, <1>12, <2>1 DEF FromHung, EarlyPCs
<1>20. GetsFile(w)'
  <2> SUFFICES ASSUME WaitsForTiny(w)', conn'[w].up # <<>>
               PROVE  Head(conn'[w].up) = line
    BY <1>1, <1>8 DEF GetsFile
  <2>1. WaitsForTiny(w) /\ InTiny(w) /\ TinyAlive
    BY <1>2, <1>5 DEF WaitsForTiny, KeepsTiny, InTiny
  <2>2. Server(c) = "tiny"
    BY <1>2, <1>11, <2>1 DEF RequestOK, FromHung
  <2> QED BY <1>15, <2>2 DEF Unread
<1> QED BY <1>4, <1>5, <1>6, <1>7, <1>13, <1>14, <1>18, <1>19, <1>20, <1>3 DEF WorkerOK

\* One end of a connection of w, and w itself.
LEMMA WorkerIs ==
  ASSUME TypeOK, NEW w \in Workers, worker[w] \in WorkerTypes, NEW r, worker' = [worker EXCEPT ![w] = r]
  PROVE  worker'[w] = r /\ worker' = [worker EXCEPT ![w] = worker'[w]]
BY DEF TypeOK, ProxyTypes

\* The invariant, when a worker sends the request line.
LEMMA StepSendLine ==
  ASSUME Inv, NEW w \in Workers, SendLine(w), UNCHANGED <<tiny, clientVars>>
  PROVE  Inv'
<1>1. ~ crashed /\ worker[w].pc = "line" /\ worker[w].pc \in EarlyPCs /\ worker[w] \in WorkerTypes
  BY DEF SendLine, At, EarlyPCs, Inv, TypeOK, ProxyTypes
<1>2. PICK c : c = worker[w].fd
  OBVIOUS
<1>3. c \in Conns /\ c # w /\ w \in Conns /\ TypeOK /\ NetTypes
  BY <1>1, <1>2, Served, ConnsFacts DEF Inv, TypeOK
<1>4. worker[w].buf \in Lines
  BY <1>1 DEF WorkerTypes
<1>5. worker' = [worker EXCEPT ![w] = [worker[w] EXCEPT !.pc = "header"]]
  BY DEF SendLine
<1>6. worker'[w] = [worker[w] EXCEPT !.pc = "header"] /\ worker' = [worker EXCEPT ![w] = worker'[w]]
  BY <1>1, <1>3, <1>5, WorkerIs
<1>7. worker'[w] \in WorkerTypes /\ worker'[w].pc = "header" /\ worker'[w].fd = c
      /\ worker'[w].url = worker[w].url
  BY <1>1, <1>2, <1>6 DEF WorkerTypes, WorkerPCs, ConnectedPCs, EarlyPCs
<1>8. /\ conn' \in [Conns -> ConnTypes] /\ Only(w)
      /\ conn'[w].down = conn[w].down /\ conn'[w].closed = conn[w].closed
      /\ "far" \notin conn[w].closed => conn'[w].up = Append(conn[w].up, worker[w].buf)
  BY <1>3, <1>4, WriteNear DEF SendLine
<1>9. UNCHANGED <<listenVars, queue, cacheVars, tiny, clientVars>>
  BY DEF SendLine, Unchanged
<1>10. conn'[c] = conn[c] /\ \A y \in Conns \ {w, c} : conn'[y] = conn[y]
  BY <1>3, <1>8 DEF Only
<1>11. worker'[w].pc # "response" /\ worker'[w].pc # "add" /\ worker[w].pc = "line"
       /\ worker'[w].pc \in {"header", "forward", "add", "response"}
  BY <1>1, <1>7
<1> QED BY <1>1, <1>2, <1>3, <1>6, <1>7, <1>8, <1>9, <1>10, <1>11, EarlyStep

\* The invariant, when a worker reads a header of the client's.
LEMMA StepReadHeader ==
  ASSUME Inv, NEW w \in Workers, ReadHeader(w), UNCHANGED <<tiny, clientVars>>
  PROVE  Inv'
<1>1. ~ crashed /\ worker[w].pc = "header" /\ worker[w].pc \in EarlyPCs /\ worker[w] \in WorkerTypes
  BY DEF ReadHeader, At, EarlyPCs, Inv, TypeOK, ProxyTypes
<1>2. PICK c : c = worker[w].fd
  OBVIOUS
<1>3. c \in Conns /\ c # w /\ w \in Conns /\ TypeOK /\ NetTypes
  BY <1>1, <1>2, Served, ConnsFacts DEF Inv, TypeOK
<1>4. UNCHANGED <<listenVars, queue, cacheVars, tiny, clientVars>>
  BY DEF ReadHeader, Unchanged
<1>5. /\ conn' \in [Conns -> ConnTypes] /\ Only(c)
      /\ conn'[c].down = conn[c].down /\ conn'[c].closed = conn[c].closed
  BY <1>2, <1>3, ReadFar DEF ReadHeader, Only, NetTypes
<1>6. \E line \in Lines : worker' = [worker EXCEPT ![w] = [worker[w] EXCEPT !.pc = "forward", !.buf = line]]
  <2>1. CASE Rio_readlineb(c, "far") /\ worker' = [worker EXCEPT ![w].pc = "forward", ![w].buf = NextLine(c, "far")]
    <3>1. NextLine(c, "far") \in Lines
      BY <1>3, <2>1, ReadFar
    <3>2. worker' = [worker EXCEPT ![w] = [worker[w] EXCEPT !.pc = "forward", !.buf = NextLine(c, "far")]]
      BY <1>3, <2>1 DEF TypeOK, ProxyTypes
    <3> QED BY <3>1, <3>2
  <2>2. CASE worker' = [worker EXCEPT ![w].pc = "forward"]
    <3>1. worker' = [worker EXCEPT ![w] = [worker[w] EXCEPT !.pc = "forward", !.buf = worker[w].buf]]
      BY <1>1, <1>3, <2>2 DEF TypeOK, ProxyTypes, WorkerTypes
    <3> QED BY <1>1, <3>1 DEF WorkerTypes
  <2> QED BY <1>2, <2>1, <2>2 DEF ReadHeader
<1>7. PICK line \in Lines : worker' = [worker EXCEPT ![w] = [worker[w] EXCEPT !.pc = "forward", !.buf = line]]
  BY <1>6
<1>8. worker'[w] = [worker[w] EXCEPT !.pc = "forward", !.buf = line] /\ worker' = [worker EXCEPT ![w] = worker'[w]]
  BY <1>1, <1>3, <1>7, WorkerIs
<1>9. worker'[w] \in WorkerTypes /\ worker'[w].pc = "forward" /\ worker'[w].fd = c
      /\ worker'[w].url = worker[w].url
  BY <1>1, <1>2, <1>8 DEF WorkerTypes, WorkerPCs, ConnectedPCs, EarlyPCs
<1>10. conn'[w] = conn[w] /\ \A y \in Conns \ {w, c} : conn'[y] = conn[y]
  BY <1>3, <1>5 DEF Only
<1>11. worker'[w].pc # "response" /\ worker'[w].pc # "add" /\ worker[w].pc # "line"
       /\ worker'[w].pc \in {"header", "forward", "add", "response"}
  BY <1>1, <1>9
<1> QED BY <1>1, <1>2, <1>3, <1>4, <1>5, <1>8, <1>9, <1>10, <1>11, EarlyStep

\* The invariant, when a worker sends that header on.
LEMMA StepForwardHeader ==
  ASSUME Inv, NEW w \in Workers, ForwardHeader(w), UNCHANGED <<tiny, clientVars>>
  PROVE  Inv'
<1>1. ~ crashed /\ worker[w].pc = "forward" /\ worker[w].pc \in EarlyPCs /\ worker[w] \in WorkerTypes
  BY DEF ForwardHeader, At, EarlyPCs, Inv, TypeOK, ProxyTypes
<1>2. PICK c : c = worker[w].fd
  OBVIOUS
<1>3. c \in Conns /\ c # w /\ w \in Conns /\ TypeOK /\ NetTypes
  BY <1>1, <1>2, Served, ConnsFacts DEF Inv, TypeOK
<1>4. worker[w].buf \in Lines
  BY <1>1 DEF WorkerTypes
<1>5. PICK seen : seen = worker[w].seen \cup Seen(worker[w].buf)
  OBVIOUS
<1>6. worker' = [worker EXCEPT ![w] = [worker[w] EXCEPT !.pc = "header", !.seen = seen]]
  BY <1>3, <1>5 DEF ForwardHeader, TypeOK, ProxyTypes
<1>7. worker'[w] = [worker[w] EXCEPT !.pc = "header", !.seen = seen]
      /\ worker' = [worker EXCEPT ![w] = worker'[w]]
  BY <1>1, <1>3, <1>6, WorkerIs
<1>8. seen \in SUBSET Headers
  BY <1>1, <1>5 DEF Seen, Headers, WorkerTypes
<1>9. worker'[w] \in WorkerTypes /\ worker'[w].pc = "header" /\ worker'[w].fd = c
      /\ worker'[w].url = worker[w].url
  BY <1>1, <1>2, <1>7, <1>8 DEF WorkerTypes, WorkerPCs, ConnectedPCs, EarlyPCs
<1>10. /\ conn' \in [Conns -> ConnTypes] /\ Only(w)
       /\ conn'[w].down = conn[w].down /\ conn'[w].closed = conn[w].closed
       /\ conn'[w].up = conn[w].up \/ conn'[w].up = Append(conn[w].up, worker[w].buf)
  BY <1>3, <1>4, WriteNear DEF ForwardHeader
<1>11. UNCHANGED <<listenVars, queue, cacheVars, tiny, clientVars>>
  BY DEF ForwardHeader, Unchanged
<1>12. conn'[c] = conn[c] /\ \A y \in Conns \ {w, c} : conn'[y] = conn[y]
  BY <1>3, <1>10 DEF Only
<1>13. worker'[w].pc # "response" /\ worker'[w].pc # "add" /\ worker[w].pc # "line"
       /\ worker'[w].pc \in {"header", "forward", "add", "response"}
       /\ \/ conn'[w].up = conn[w].up
          \/ \E line \in Lines : conn'[w].up = Append(conn[w].up, line)
  BY <1>1, <1>4, <1>9, <1>10
<1> QED BY <1>1, <1>2, <1>3, <1>7, <1>9, <1>10, <1>11, <1>12, <1>13, EarlyStep

\* What a worker adds to the headers is not empty.
LEMMA AddedIs == ASSUME NEW seen \in SUBSET Headers
                 PROVE  Added(seen) \in Seq(Lines) /\ Added(seen) # <<>>
<1>1. \A h \in Headers : Unless(seen, h) \in Seq(Lines) /\ Len(Unless(seen, h)) \in Nat
  <2> SUFFICES ASSUME NEW h \in Headers PROVE Unless(seen, h) \in Seq(Lines)
    OBVIOUS
  <2>1. <<h>> \in Lines
    BY SomeLines
  <2>2. <<>> \in Seq(Lines) /\ <<<<h>>>> \in Seq(Lines)
    BY <2>1
  <2> QED BY <2>2 DEF Unless
<1>2. <<<<"Proxy-Connection:">>, CRLF>> \in Seq(Lines) /\ Len(<<<<"Proxy-Connection:">>, CRLF>>) = 2
  BY SomeLines
<1>3. /\ Unless(seen, "Host:") \in Seq(Lines) /\ Unless(seen, "User-Agent:") \in Seq(Lines)
      /\ Unless(seen, "Connection:") \in Seq(Lines)
  BY <1>1 DEF Headers
<1>4. Unless(seen, "Host:") \o Unless(seen, "User-Agent:") \o Unless(seen, "Connection:") \in Seq(Lines)
  BY <1>3
<1>5. PICK s \in Seq(Lines) :
        s = Unless(seen, "Host:") \o Unless(seen, "User-Agent:") \o Unless(seen, "Connection:")
  BY <1>4
<1>6. PICK t \in Seq(Lines) : t = <<<<"Proxy-Connection:">>, CRLF>> /\ Len(t) = 2
  BY <1>2
<1>7. Added(seen) = s \o t
  BY <1>5, <1>6 DEF Added
<1>8. s \o t \in Seq(Lines) /\ Len(s \o t) = Len(s) + 2 /\ Len(s) \in Nat
  BY <1>6, ConcatProperties
<1> QED BY <1>7, <1>8

\* The invariant, when a worker has read the empty line.
LEMMA StepEndHeaders ==
  ASSUME Inv, NEW w \in Workers, EndHeaders(w), UNCHANGED <<tiny, clientVars>>
  PROVE  Inv'
<1>1. ~ crashed /\ worker[w].pc = "forward" /\ worker[w].pc \in EarlyPCs /\ worker[w] \in WorkerTypes
  BY DEF EndHeaders, At, EarlyPCs, Inv, TypeOK, ProxyTypes
<1>2. PICK c : c = worker[w].fd
  OBVIOUS
<1>3. c \in Conns /\ c # w /\ w \in Conns /\ TypeOK /\ NetTypes
  BY <1>1, <1>2, Served, ConnsFacts DEF Inv, TypeOK
<1>4. PICK todo : todo = Added(worker[w].seen)
  OBVIOUS
<1>5. worker' = [worker EXCEPT ![w] = [worker[w] EXCEPT !.pc = "add", !.todo = todo]]
  BY <1>3, <1>4 DEF EndHeaders, TypeOK, ProxyTypes
<1>6. worker'[w] = [worker[w] EXCEPT !.pc = "add", !.todo = todo]
      /\ worker' = [worker EXCEPT ![w] = worker'[w]]
  BY <1>1, <1>3, <1>5, WorkerIs
<1>7. todo \in Seq(Lines) /\ todo # <<>>
  BY <1>1, <1>4, AddedIs DEF WorkerTypes
<1>8. worker'[w] \in WorkerTypes /\ worker'[w].pc = "add" /\ worker'[w].fd = c
      /\ worker'[w].url = worker[w].url /\ worker'[w].todo # <<>>
  BY <1>1, <1>2, <1>6, <1>7 DEF WorkerTypes, WorkerPCs, ConnectedPCs, EarlyPCs
<1>9. conn' = conn /\ UNCHANGED <<listenVars, queue, cacheVars, tiny, clientVars>>
  BY DEF EndHeaders, Unchanged
<1>10. conn' \in [Conns -> ConnTypes]
  BY <1>3, <1>9 DEF NetTypes
<1> QED BY <1>1, <1>2, <1>3, <1>6, <1>8, <1>9, <1>10, EarlyStep

\* The invariant, when a worker sends a header of its own.
LEMMA StepAddHeader ==
  ASSUME Inv, NEW w \in Workers, AddHeader(w), ~ garbled', UNCHANGED <<tiny, clientVars>>
  PROVE  Inv'
<1>1. ~ crashed /\ worker[w].pc = "add" /\ worker[w].pc \in EarlyPCs /\ worker[w] \in WorkerTypes
  BY DEF AddHeader, At, EarlyPCs, Inv, TypeOK, ProxyTypes
<1>2. PICK c : c = worker[w].fd
  OBVIOUS
<1>3. c \in Conns /\ c # w /\ w \in Conns /\ TypeOK /\ NetTypes /\ WorkerOK(w)
  BY <1>1, <1>2, Served, ConnsFacts DEF Inv, TypeOK
<1>4. worker[w].todo # <<>> /\ worker[w].todo \in Seq(Lines)
  BY <1>1, <1>3 DEF WorkerOK, RequestOK, WorkerTypes
<1>5. PICK line, rest : line = Head(worker[w].todo) /\ rest = Tail(worker[w].todo)
  OBVIOUS
<1>6. line \in Lines /\ rest \in Seq(Lines)
  BY <1>4, <1>5, HeadTail
<1>7. PICK d \in IF rest = <<>> THEN NewData ELSE {NULL} :
        /\ worker' = [worker EXCEPT ![w].pc = IF rest = <<>> THEN "response" ELSE "add",
                                    ![w].todo = rest, ![w].rev_data = d]
        /\ garbled' = (garbled \/ d \notin {NULL, <<>>})
  BY <1>5 DEF AddHeader
<1>8. PICK pc : pc = IF rest = <<>> THEN "response" ELSE "add"
  OBVIOUS
<1>9. worker' = [worker EXCEPT ![w] = [worker[w] EXCEPT !.pc = pc, !.todo = rest, !.rev_data = d]]
  BY <1>3, <1>7, <1>8 DEF TypeOK, ProxyTypes
<1>10. worker'[w] = [worker[w] EXCEPT !.pc = pc, !.todo = rest, !.rev_data = d]
       /\ worker' = [worker EXCEPT ![w] = worker'[w]]
  BY <1>1, <1>3, <1>9, WorkerIs
<1>11. IF rest = <<>> THEN d = <<>> ELSE d = NULL
  BY <1>7, ProxyAssumption
<1>12. d \in Seq(Lines)
  <2>1. <<>> \in Seq(Lines) /\ NULL \in Seq(Lines)
    BY SomeLines
  <2> QED BY <1>11, <2>1
<1>13. worker'[w] \in WorkerTypes
  BY <1>1, <1>6, <1>8, <1>10, <1>12 DEF WorkerTypes, WorkerPCs, ConnectedPCs, EarlyPCs, DownloadPCs
<1>14. worker'[w].pc = pc /\ worker'[w].fd = c /\ worker'[w].url = worker[w].url /\ worker'[w].todo = rest
       /\ worker'[w].rev_data = d
  BY <1>1, <1>2, <1>10 DEF WorkerTypes
<1>15. /\ conn' \in [Conns -> ConnTypes] /\ Only(w)
       /\ conn'[w].down = conn[w].down /\ conn'[w].closed = conn[w].closed
       /\ conn'[w].up = conn[w].up \/ conn'[w].up = Append(conn[w].up, line)
  BY <1>3, <1>5, <1>6, WriteNear DEF AddHeader
<1>16. UNCHANGED <<listenVars, queue, cacheVars, tiny, clientVars>>
  BY DEF AddHeader
<1>17. conn'[c] = conn[c] /\ \A y \in Conns \ {w, c} : conn'[y] = conn[y]
  BY <1>3, <1>15 DEF Only
<1>18. /\ worker'[w].pc = "response" => worker'[w].rev_data = <<>>
       /\ worker'[w].pc = "add" => worker'[w].todo # <<>>
       /\ worker'[w].pc \in {"header", "forward", "add", "response"} /\ worker[w].pc # "line"
       /\ \/ conn'[w].up = conn[w].up
          \/ \E l \in Lines : conn'[w].up = Append(conn[w].up, l)
  BY <1>1, <1>6, <1>8, <1>11, <1>14, <1>15
<1> QED BY <1>1, <1>2, <1>3, <1>10, <1>13, <1>14, <1>15, <1>16, <1>17, <1>18, EarlyStep

\* No answer begins with what stands for a NULL object.
LEMMA FirstLine ==
  ASSUME NEW u \in DOMAIN Files
  PROVE  Copied(Answer(u)[1]) # <<"NULL">> /\ Answer(u) # <<>>
<1>1. Answer(u)[1] \in {<<"200">>, <<"404">>, <<"403">>}
  <2>1. CASE Files[u].stat = "ok"
    BY <2>1, GoodAnswer
  <2>2. CASE Files[u].stat # "ok"
    <3>1. Answer(u) \in {clienterror("404"), clienterror("403")}
      BY <2>2, Lengths DEF Answer
    <3> QED BY <3>1 DEF clienterror
  <2> QED BY <2>1, <2>2
<1>2. \A x \in STRING : Len(Append(<<x>>, "cut")) = 2 /\ Len(<<"NULL">>) = 1
  OBVIOUS
<1>3. \A x \in {"200", "404", "403"} : Copied(<<x>>) # <<"NULL">>
  <2> SUFFICES ASSUME NEW x \in {"200", "404", "403"} PROVE Copied(<<x>>) # <<"NULL">>
    OBVIOUS
  <2>1. Append(<<x>>, "cut") # <<"NULL">> /\ <<x>> # <<"NULL">>
    BY <1>2
  <2> QED BY <2>1 DEF Copied
<1>4. Answer(u) # <<>>
  BY LongEnough
<1> QED BY <1>1, <1>3, <1>4

\* A client that has been sent a line of an answer, or the end of it.
LEMMA ClientGiven ==
  ASSUME Inv, NEW c \in Clients, request' = request, client' = client, request[c].to = "proxy",
         client[c].state \notin {"new", "refused"}, Open(c)' <=> Open(c),
         "far" \notin conn[c].closed,
         ~ WaitsForProxy(c)', ~ WaitsForTiny(c)', CliOK(c),
         \E a \in RightAnswers(c) :
           /\ Sent(c, a)'
           /\ "far" \in conn'[c].closed /\ client[c].state # "left" /\ dead' = {} => Given(c)' = Len(a)
  PROVE  CliOK(c)'
<1>1. ClientOK(c)'
  BY ConnFacts DEF ClientOK, CliOK, Open
<1>2. AnswerOK(c)'
  BY SameRequest DEF AnswerOK
<1>3. DirectOK(c)' /\ AskedOK(c)'
  BY DEF DirectOK, AskedOK
<1> QED BY <1>1, <1>2, <1>3 DEF CliOK

\* One more line of a is sent to c, if c reads it.
LEMMA OneMore ==
  ASSUME TypeOK, NEW c \in Clients, NEW a \in Seq(Lines), Sent(c, a), NEW line \in Lines, client' = client,
         Rio_writen(c, "far", line), Open(c) => Given(c) < Len(a) /\ line = a[Given(c) + 1]
  PROVE  /\ Sent(c, a)' /\ Given(c)' = IF Open(c) THEN Given(c) + 1 ELSE Given(c)
         /\ Given(c) \in Nat
<1>1. /\ c \in Conns /\ NetTypes /\ conn[c].down \in Seq(Lines) /\ Len(conn[c].down) \in Nat
      /\ client[c].got \in Seq(Lines) /\ Len(client[c].got) \in Nat
  BY ConnsFacts, ConnFacts DEF TypeOK, OtherTypes, ClientTypes
<1>2. CASE Open(c)
  <2>1. conn'[c].down = Append(conn[c].down, line)
    BY <1>1, <1>2, WriteFar
  <2>2. PICK k \in Nat, s \in Seq(Lines) : k = Len(client[c].got) /\ s = conn[c].down
    BY <1>1
  <2>3. Piece(s, k, a) /\ k + Len(s) < Len(a) /\ line = a[k + Len(s) + 1]
    BY <1>2, <2>2 DEF Sent, Given
  <2>4. Piece(Append(s, line), k, a) /\ Len(Append(s, line)) = Len(s) + 1
    BY <2>3, PieceAppend
  <2>5. Sent(c, a)'
    BY <2>1, <2>2, <2>4 DEF Sent
  <2>6. Len(conn'[c].down) = Len(conn[c].down) + 1
    BY <2>1, <2>2, <2>4
  <2>7. Given(c)' = Given(c) + 1 /\ Given(c) \in Nat
    <3>1. PICK g, d : g = Len(client[c].got) /\ d = Len(conn[c].down)
      OBVIOUS
    <3>2. g \in Nat /\ d \in Nat
      BY <1>1, <3>1
    <3>3. Given(c) = g + d
      BY <3>1 DEF Given
    <3>4. Given(c)' = g + (d + 1)
      BY <2>6, <3>1 DEF Given
    <3> QED BY <3>2, <3>3, <3>4
  <2> QED BY <1>2, <2>5, <2>7
<1>3. CASE ~ Open(c)
  <2>1. conn' = conn
    BY <1>1, <1>3, WriteFar
  <2>2. Sent(c, a)'
    BY <2>1 DEF Sent
  <2>3. Given(c)' = Given(c)
    BY <2>1 DEF Given
  <2>4. Given(c) \in Nat
    <3>1. PICK g, d : g = Len(client[c].got) /\ d = Len(conn[c].down)
      OBVIOUS
    <3>2. g \in Nat /\ d \in Nat
      BY <1>1, <3>1
    <3>3. Given(c) = g + d
      BY <3>1 DEF Given
    <3> QED BY <3>2, <3>3
  <2> QED BY <1>3, <2>2, <2>3, <2>4
<1> QED BY <1>2, <1>3

\* The answer passes from the server to the client.
LEMMA DownloadStep ==
  ASSUME Inv, NEW w \in Workers, ~ crashed, worker[w].pc \in DownloadPCs, NEW c, c = worker[w].fd,
         UNCHANGED <<listenVars, queue, cacheVars, tiny, clientVars>>,
         conn' \in [Conns -> ConnTypes], \A y \in Conns \ {w, c} : conn'[y] = conn[y],
         conn'[c].up = conn[c].up, conn'[c].closed = conn[c].closed,
         conn'[w].up = conn[w].up, conn'[w].closed = conn[w].closed,
         worker' = [worker EXCEPT ![w] = worker'[w]], worker'[w] \in WorkerTypes,
         worker'[w].fd = c, worker'[w].url = worker[w].url, worker'[w].pc \in DownloadPCs,
         Server(c) = "tiny", NEW n \in Nat, Download(w, n)'
  PROVE  Inv'
<1>1. /\ c \in Clients /\ c \in Conns /\ c # w /\ request[c].to = "proxy"
      /\ client[c].state \notin {"new", "refused"} /\ "far" \notin conn[c].closed
      /\ TinyAlive => ~ InTiny(c)
      /\ CliOK(c) /\ WorkerOK(w) /\ Uri(c) \in DOMAIN Files /\ worker[w] \in WorkerTypes
  BY Served DEF DownloadPCs
<1>2. /\ w \in Conns /\ c # "none" /\ worker[w].pc \notin {"take", "request"}
      /\ worker[w].pc \in ConnectedPCs /\ worker[w].pc # "line"
  BY <1>1, ConnsFacts DEF DownloadPCs, ConnectedPCs
<1>3. worker'[w].pc \in ConnectedPCs
      /\ worker'[w].pc \notin {"take", "request", "reply", "close", "parse", "connect"} \cup EarlyPCs
  BY DEF EarlyPCs, ConnectedPCs, DownloadPCs
<1>4. TypeOK' /\ \A v \in Workers \ {w} : worker'[v] = worker[v]
  BY TypeStep DEF Inv
<1>5. /\ ~ WaitsForProxy(c)' /\ ~ WaitsForTiny(c)' /\ \A y \in Conns : KeepsTiny(y)
      /\ CliOK(c)' /\ WorkerOK(w)' /\ GetsFile(w)' /\ CacheOK' => Inv'
  BY <1>1, <1>2, <1>3, <1>4, WorkerStep DEF listenVars, clientVars
<1>6. /\ Asked(c)' = Asked(c) /\ Url(c)' = Url(c) /\ Uri(c)' = Uri(c) /\ Server(c)' = Server(c)
      /\ RightAnswers(c)' = RightAnswers(c)
  BY SameRequest DEF clientVars
<1>7. CliOK(c)'
  <2>1. PICK a : a = Answer(Uri(c))
    OBVIOUS
  <2>2. a \in RightAnswers(c)
    BY <1>1, <2>1, RightOnes DEF Inv, TypeOK, OtherTypes
  <2>3. (a = Answer(Uri(c))') /\ (a = Answer(Uri(worker[w].fd))')
    BY <1>6, <2>1 DEF Answer, Body
  <2>4. Sent(c, a)'
    BY <2>3 DEF Download, Sent
  <2> QED BY <1>1, <1>5, <2>2, <2>4, ClientGiven DEF Open, clientVars
<1>8. CacheOK'
  BY CacheSame DEF Inv, cacheVars, listenVars, TinyAlive
<1>9. RequestOK(w) /\ FromTiny(w)
  BY <1>1, <1>2 DEF WorkerOK
<1>10. RequestOK(w)' /\ ReplyOK(w)'
  BY <1>2, <1>3, <1>6, <1>9 DEF RequestOK, ReplyOK, Open, EarlyPCs
<1>11. WaitsForTiny(w)' => WaitsForTiny(w)
  BY <1>2, <1>5 DEF WaitsForTiny, KeepsTiny
<1>12. FromTiny(w)'
  <2>1. PICK line : line = GetLine(Uri(c))
    OBVIOUS
  <2>2. GetLine(Uri(worker[w].fd))' = line
    BY <1>6, <2>1 DEF GetLine
  <2>3. WaitsForTiny(w)' => Unread(w, FALSE, line)'
    BY <1>2, <1>9, <1>11, <2>1 DEF FromTiny, Unread
  <2>4. worker'[w].pc # "line"
    BY <1>3 DEF EarlyPCs
  <2> QED BY <1>3, <2>2, <2>3, <2>4 DEF FromTiny, Unread
<1>13. FromHung(w)'
  BY <1>6 DEF FromHung
<1>14. GetsFile(w)'
  BY <1>2, <1>5, GetsFileSame DEF Inv, WorkersOK
<1> QED BY <1>4, <1>5, <1>7, <1>8, <1>10, <1>12, <1>13, <1>14 DEF WorkerOK

\* The invariant, when a worker reads a line of the answer.
LEMMA StepReadResponse ==
  ASSUME Inv, NEW w \in Workers, ReadResponse(w), UNCHANGED <<tiny, clientVars>>
  PROVE  Inv'
<1>1. ~ crashed /\ worker[w].pc = "response" /\ worker[w].pc \in DownloadPCs /\ worker[w] \in WorkerTypes
  BY DEF ReadResponse, At, DownloadPCs, Inv, TypeOK, ProxyTypes
<1>2. PICK c : c = worker[w].fd
  OBVIOUS
<1>3. c \in Conns /\ c \in Clients /\ c # w /\ w \in Conns /\ TypeOK /\ NetTypes /\ WorkerOK(w)
      /\ Uri(c) \in DOMAIN Files
  BY <1>1, <1>2, Served, ConnsFacts DEF Inv, TypeOK
<1>4. /\ conn' \in [Conns -> ConnTypes] /\ Only(w) /\ conn[w].down # <<>>
      /\ conn'[w].up = conn[w].up /\ conn'[w].closed = conn[w].closed
      /\ conn'[w].down = Tail(conn[w].down)
      /\ NextLine(w, "near") = Head(conn[w].down) /\ NextLine(w, "near") \in Lines
  BY <1>3, ReadNear DEF ReadResponse
<1>5. PICK buf \in Lines : buf = Head(conn[w].down)
  BY <1>4
<1>6. worker' = [worker EXCEPT ![w] = [worker[w] EXCEPT !.pc = "relay", !.buf = buf]]
  BY <1>3, <1>4, <1>5 DEF ReadResponse, TypeOK, ProxyTypes
<1>7. worker'[w] = [worker[w] EXCEPT !.pc = "relay", !.buf = buf] /\ worker' = [worker EXCEPT ![w] = worker'[w]]
  BY <1>1, <1>3, <1>6, WorkerIs
<1>8. worker'[w] \in WorkerTypes /\ worker'[w].pc = "relay" /\ worker'[w].fd = c
      /\ worker'[w].url = worker[w].url /\ worker'[w].rev_data = worker[w].rev_data /\ worker'[w].buf = buf
  BY <1>1, <1>2, <1>7 DEF WorkerTypes, WorkerPCs, ConnectedPCs, DownloadPCs
<1>9. UNCHANGED <<listenVars, queue, cacheVars, tiny, clientVars>>
  BY DEF ReadResponse, Unchanged
<1>10. Server(c) = "tiny" /\ FromTiny(w) /\ worker[w].pc \in ConnectedPCs
  <2>1. worker[w].pc \in ConnectedPCs /\ worker[w].pc \notin {"take", "request"}
    BY <1>1 DEF ConnectedPCs, DownloadPCs
  <2> QED BY <1>2, <1>3, <1>4, <2>1 DEF WorkerOK, RequestOK, FromHung
<1>11. PICK n \in Nat : Download(w, n)
  BY <1>1, <1>2, <1>10 DEF FromTiny
<1>12. PICK a, line : a = Answer(Uri(c)) /\ line = GetLine(Uri(c))
  OBVIOUS
<1>13. /\ Asked(c)' = Asked(c) /\ Url(c)' = Url(c) /\ Uri(c)' = Uri(c)
  BY <1>9, SameRequest DEF clientVars
<1>14. (Answer(Uri(worker[w].fd))' = a) /\ (GetLine(Uri(worker[w].fd))' = line)
       /\ AnswerTo(line) = a /\ a \in Seq(Lines) /\ (AnswerTo(line)' = a)
  <2>1. a \in Seq(Lines)
    BY <1>3, <1>12, SomeLines, AnswersTyped
  <2>2. AnswerTo(line) = a
    BY <1>12, GetAnswer
  <2>3. (Answer(Uri(c))' = a) /\ (GetLine(Uri(c))' = line)
    BY <1>12, <1>13 DEF Answer, Body, GetLine
  <2>4. AnswerTo(line)' = AnswerTo(line)
    BY DEF AnswerTo, Answer, Body, clienterror
  <2>5. (Answer(Uri(worker[w].fd))' = a) /\ (GetLine(Uri(worker[w].fd))' = line)
    BY <1>8, <2>3
  <2>6. AnswerTo(line)' = a
    BY <2>2, <2>4
  <2> QED BY <2>1, <2>2, <2>5, <2>6
<1>15. PICK s \in Seq(Lines) : s = conn[w].down
  BY <1>3, ConnFacts
<1>16. Piece(s, n, a) /\ TinyAt(w, n + Len(s), line)
  BY <1>1, <1>2, <1>11, <1>12, <1>14, <1>15 DEF Download, Flow
<1>17. /\ buf = a[n + 1] /\ n + 1 \in 1 .. Len(a)
       /\ Piece(Tail(s), n + 1, a) /\ Len(Tail(s)) = Len(s) - 1 /\ Len(s) \in Nat
  BY <1>4, <1>5, <1>14, <1>15, <1>16, PieceHead
<1>18. Flow(w, n + 1, line)'
  <2>1. PICK k : k = n + Len(s)
    OBVIOUS
  <2>2. KeepsTiny(w)
    BY <1>9 DEF KeepsTiny, listenVars, TinyAlive
  <2>3. TinyAt(w, k, line)'
    BY <1>3, <1>4, <1>16, <2>1, <2>2, TinyAtSame
  <2>4. k = n + 1 + Len(conn'[w].down)
    <3>1. conn'[w].down = Tail(s)
      BY <1>4, <1>15
    <3>2. Len(conn'[w].down) = Len(s) - 1
      BY <1>17, <3>1, Zenon
    <3> QED BY <1>17, <2>1, <3>2
  <2>5. Piece(conn'[w].down, n + 1, a)
    BY <1>4, <1>15, <1>17
  <2> QED BY <1>14, <2>3, <2>4, <2>5 DEF Flow, TinyAt, TinyHas
<1>19. /\ Sent(c, a) /\ (Open(c) => Given(c) = n)
       /\ worker[w].rev_data # NULL => Len(worker[w].rev_data) = n /\ Piece(worker[w].rev_data, 0, Cut(a))
       /\ worker[w].rev_data = NULL => n > MAX_OBJECT_SIZE
  BY <1>2, <1>11, <1>12 DEF Download
<1>20. conn'[c] = conn[c] /\ \A y \in Conns \ {w, c} : conn'[y] = conn[y]
  BY <1>3, <1>4 DEF Only
<1>21. Sent(c, a)' /\ (Open(c)' => Given(c)' = n) /\ Cut(a)' = Cut(a)
  BY <1>9, <1>14, <1>19, <1>20 DEF clientVars, Sent, Given, Open, Cut
<1>22. n < Len(a)
  BY <1>14, <1>17
<1>23. Download(w, n)'
  BY <1>2, <1>8, <1>14, <1>17, <1>18, <1>19, <1>21, <1>22 DEF Download, Sent, Given, Flow
<1>24. worker'[w].pc \in DownloadPCs
  BY <1>8 DEF DownloadPCs
<1> QED BY <1>1, <1>2, <1>3, <1>4, <1>7, <1>8, <1>9, <1>10, <1>20, <1>23, <1>24, DownloadStep

\* The invariant, when a worker sends that line on and puts it into the object.
LEMMA StepRelay ==
  ASSUME Inv, NEW w \in Workers, Relay(w), UNCHANGED <<tiny, clientVars>>
  PROVE  Inv'
<1>1. ~ crashed /\ worker[w].pc = "relay" /\ worker[w].pc \in DownloadPCs /\ worker[w] \in WorkerTypes
  BY DEF Relay, At, DownloadPCs, Inv, TypeOK, ProxyTypes
<1>2. PICK c : c = worker[w].fd
  OBVIOUS
<1>3. c \in Conns /\ c \in Clients /\ c # w /\ w \in Conns /\ TypeOK /\ NetTypes /\ WorkerOK(w)
      /\ Uri(c) \in DOMAIN Files
  BY <1>1, <1>2, Served, ConnsFacts DEF Inv, TypeOK
<1>4. PICK buf \in Lines, rev \in Seq(Lines) : buf = worker[w].buf /\ rev = worker[w].rev_data
  BY <1>1 DEF WorkerTypes
<1>5. PICK pc, new : /\ pc = IF rev = NULL THEN "null" ELSE "response"
                    /\ new = IF rev = NULL THEN NULL ELSE CacheLine(rev, buf)
  OBVIOUS
<1>6. worker' = [worker EXCEPT ![w] = [worker[w] EXCEPT !.pc = pc, !.rev_data = new]]
  BY <1>1, <1>3, <1>4, <1>5 DEF Relay, TypeOK, ProxyTypes, WorkerTypes
<1>7. worker'[w] = [worker[w] EXCEPT !.pc = pc, !.rev_data = new] /\ worker' = [worker EXCEPT ![w] = worker'[w]]
  BY <1>1, <1>3, <1>6, WorkerIs
<1>8. UNCHANGED <<listenVars, queue, cacheVars, tiny, clientVars>> /\ Rio_writen(c, "far", buf)
  BY <1>2, <1>4 DEF Relay, Unchanged
<1>9. /\ conn' \in [Conns -> ConnTypes] /\ Only(c)
      /\ conn'[c].up = conn[c].up /\ conn'[c].closed = conn[c].closed
  BY <1>3, <1>8, WriteFar
<1>10. Server(c) = "tiny" /\ FromTiny(w)
  <2>1. worker[w].pc \in ConnectedPCs /\ worker[w].pc \notin {"take", "request"} /\ worker[w].pc # "response"
        /\ worker[w].pc \notin EarlyPCs
    BY <1>1 DEF ConnectedPCs, DownloadPCs, EarlyPCs
  <2> QED BY <1>2, <1>3, <2>1 DEF WorkerOK, RequestOK, FromHung
<1>11. PICK n \in Nat : Download(w, n)
  <2>1. worker[w].pc \in ConnectedPCs
    BY <1>1 DEF ConnectedPCs
  <2> QED BY <1>1, <1>2, <1>10, <2>1 DEF FromTiny
<1>12. PICK a, line : a = Answer(Uri(c)) /\ line = GetLine(Uri(c))
  OBVIOUS
<1>13. a \in Seq(Lines) /\ Cut(a) \in Seq(Lines) /\ Len(Cut(a)) = Len(a) /\ Len(a) \in Nat
       /\ \A i \in 1 .. Len(a) : Cut(a)[i] = Copied(a[i]) /\ Copied(a[i]) \in Lines
       /\ Copied(a[1]) # <<"NULL">> /\ AnswerTo(line) = a
  BY <1>3, <1>12, SomeLines, AnswersTyped, FirstLine, GetAnswer
<1>14. /\ Sent(c, a) /\ (Open(c) => Given(c) = n)
       /\ rev # NULL => Len(rev) = n /\ Piece(rev, 0, Cut(a))
       /\ rev = NULL => n > MAX_OBJECT_SIZE
       /\ n < Len(a) /\ buf = a[n + 1] /\ Flow(w, n + 1, line)
  BY <1>1, <1>2, <1>4, <1>11, <1>12 DEF Download
<1>15. Sent(c, a)' /\ (Open(c)' => Given(c)' = n + 1)
  <2>1. Open(c)' <=> Open(c)
    BY <1>9 DEF Open
  <2>2. client' = client
    BY <1>8 DEF clientVars
  <2> QED BY <1>3, <1>8, <1>13, <1>14, <2>1, <2>2, OneMore
<1>16. /\ new # NULL => Len(new) = n + 1 /\ Piece(new, 0, Cut(a))
       /\ new = NULL => n + 1 > MAX_OBJECT_SIZE
       /\ new \in Seq(Lines)
  <2>1. CASE rev = NULL
    <3>1. MAX_OBJECT_SIZE \in Nat /\ NULL \in Seq(Lines)
      BY ProxyAssumption, SomeLines
    <3> QED BY <1>5, <1>14, <2>1, <3>1
  <2>2. CASE rev # NULL /\ n + 1 > MAX_OBJECT_SIZE
    <3>1. Len(rev) = n /\ new = NULL /\ NULL \in Seq(Lines)
      BY <1>5, <1>14, <2>2, SomeLines DEF CacheLine
    <3> QED BY <2>2, <3>1
  <2>3. CASE rev # NULL /\ ~ (n + 1 > MAX_OBJECT_SIZE)
    <3>1. Len(rev) = n /\ new = Append(rev, Copied(buf)) /\ Piece(rev, 0, Cut(a))
      BY <1>5, <1>14, <2>3 DEF CacheLine
    <3>2. n + 1 \in 1 .. Len(a) /\ Copied(buf) = Cut(a)[n + 1] /\ Copied(buf) \in Lines
      BY <1>13, <1>14
    <3>3. Piece(new, 0, Cut(a)) /\ Len(new) = n + 1
      <4>1. 0 + Len(rev) < Len(Cut(a)) /\ Copied(buf) = Cut(a)[0 + Len(rev) + 1] /\ 0 \in Nat
        BY <1>13, <1>14, <3>1, <3>2
      <4>2. Piece(Append(rev, Copied(buf)), 0, Cut(a)) /\ Len(Append(rev, Copied(buf))) = Len(rev) + 1
        BY <1>13, <3>1, <3>2, <4>1, PieceAppend
      <4> QED BY <3>1, <4>2
    <3>4. new # NULL
      <4>1. CASE n = 0
        <5>1. new[1] = Copied(a[1])
          BY <1>14, <3>1, <4>1, <3>2, Appended
        <5>2. NULL[1] = <<"NULL">>
          BY DEF NULL
        <5>3. Copied(a[1]) # <<"NULL">>
          BY <1>3, <1>12, FirstLine
        <5>4. new[1] # NULL[1]
          BY <5>1, <5>2, <5>3, Zenon
        <5> QED BY <5>4, Zenon
      <4>2. CASE n # 0
        <5>1. Len(NULL) = 1
          BY DEF NULL
        <5>2. Len(new) # Len(NULL)
          BY <3>3, <4>2, <5>1
        <5> QED BY <5>2, Zenon
      <4> QED BY <4>1, <4>2
    <3>5. new \in Seq(Lines)
      BY <3>1, <3>2
    <3> QED BY <3>3, <3>4, <3>5
  <2> QED BY <2>1, <2>2, <2>3
<1>17. worker'[w] \in WorkerTypes
  BY <1>1, <1>5, <1>7, <1>16 DEF WorkerTypes, WorkerPCs, ConnectedPCs, DownloadPCs
<1>18. worker'[w].pc = pc /\ worker'[w].fd = c /\ worker'[w].url = worker[w].url /\ worker'[w].rev_data = new
       /\ pc \in DownloadPCs /\ pc # "relay"
  BY <1>1, <1>2, <1>5, <1>7 DEF WorkerTypes, DownloadPCs
<1>19. Uri(c)' = Uri(c)
  BY <1>8, SameRequest DEF clientVars
<1>20. (Answer(Uri(worker[w].fd))' = a) /\ (GetLine(Uri(worker[w].fd))' = line) /\ Cut(a)' = Cut(a)
  BY <1>12, <1>18, <1>19 DEF Answer, Body, GetLine, Cut
<1>21. conn'[w] = conn[w] /\ \A y \in Conns \ {w, c} : conn'[y] = conn[y]
  BY <1>3, <1>9 DEF Only
<1>22. Flow(w, n + 1, line)'
  <2>1. PICK m : m = n + 1
    OBVIOUS
  <2>2. KeepsTiny(w)
    BY <1>8 DEF KeepsTiny, listenVars, TinyAlive
  <2>3. Flow(w, m, line)
    BY <1>14, <2>1
  <2>4. Flow(w, m, line)'
    BY <1>21, <2>2, <2>3, FlowSame
  <2> QED BY <2>1, <2>4
<1>23. PICK m \in Nat : m = n + 1
  OBVIOUS
<1>24. Download(w, m)'
  BY <1>15, <1>16, <1>18, <1>20, <1>22, <1>23 DEF Download, Sent, Given, Flow
<1> QED BY <1>1, <1>2, <1>3, <1>7, <1>8, <1>9, <1>10, <1>17, <1>18, <1>21, <1>24, DownloadStep

-----------------------------------------------------------------------------
(* The cache is used, and the connection closed *)

\* A step after which w is about to answer, or has answered.
LEMMA AnswerStep ==
  ASSUME Inv, NEW w \in Workers, ~ crashed, worker[w].pc # "take", NEW c, c = worker[w].fd,
         UNCHANGED <<listenVars, queue, tiny, clientVars>>,
         conn' \in [Conns -> ConnTypes], \A y \in Conns \ {w, c} : conn'[y] = conn[y],
         conn'[w].up = conn[w].up, "far" \in conn'[w].closed => "far" \in conn[w].closed,
         worker' = [worker EXCEPT ![w] = worker'[w]], worker'[w] \in WorkerTypes,
         worker'[w].pc \in {"take", "parse", "connect", "reply", "close"},
         TinyAlive => ~ InTiny(w),
         worker'[w].fd = IF worker'[w].pc = "take" THEN "none" ELSE c,
         worker'[w].pc # "take" => "far" \notin conn'[c].closed,
         worker'[w].pc # "take" => RequestOK(w)' /\ ReplyOK(w)',
         list' \in Seq([key : AllUrls, data : Seq(Lines)]), size' \in Int, CacheOK'
  PROVE  /\ ~ WaitsForProxy(c)' /\ ~ WaitsForTiny(c)'
         /\ CliOK(c)' => Inv'
<1>1. /\ c \in Clients /\ c \in Conns /\ c # w /\ c # "none"
  BY Served, ConnsFacts
<1>2. /\ w \in Conns /\ worker'[w].pc \notin {"request"} \cup ConnectedPCs
  BY ConnsFacts DEF EarlyPCs, ConnectedPCs, DownloadPCs
<1>3. TypeOK' /\ \A v \in Workers \ {w} : worker'[v] = worker[v]
  BY DEF Inv, TypeOK, NetTypes, ProxyTypes, OtherTypes, listenVars, clientVars
<1>4. /\ ~ WaitsForProxy(c)' /\ ~ WaitsForTiny(c)' /\ \A y \in Conns : KeepsTiny(y)
      /\ CliOK(c)' /\ WorkerOK(w)' /\ GetsFile(w)' /\ CacheOK' => Inv'
  BY <1>1, <1>2, <1>3, WorkerStep DEF listenVars, clientVars
<1>5. GetsFile(w)'
  BY <1>2, <1>4, GetsFileSame DEF Inv, WorkersOK
<1>6. WorkerOK(w)'
  BY <1>2 DEF WorkerOK, FromTiny, FromHung
<1> QED BY <1>4, <1>5, <1>6

\* A worker that is not connected has no connection that Tiny knows of.
LEMMA NotConnected ==
  ASSUME Inv, NEW w \in Workers, ~ crashed,
         worker[w].pc \notin ConnectedPCs \/ "far" \in conn[w].closed
  PROVE  TinyAlive => ~ InTiny(w)
BY ConnsFacts DEF Inv, Places, TinyPlaces

\* The invariant, when a worker sends a line of a page or of a cached object.
LEMMA StepReply ==
  ASSUME Inv, NEW w \in Workers, Reply(w), UNCHANGED <<tiny, clientVars>>
  PROVE  Inv'
<1>1. ~ crashed /\ worker[w].pc = "reply" /\ worker[w].pc \notin ConnectedPCs /\ worker[w] \in WorkerTypes
      /\ worker[w].todo # <<>> /\ worker[w].todo \in Seq(Lines)
  BY DEF Reply, At, EarlyPCs, DownloadPCs, ConnectedPCs, Inv, TypeOK, ProxyTypes, WorkerTypes
<1>2. PICK c : c = worker[w].fd
  OBVIOUS
<1>3. /\ c \in Conns /\ c \in Clients /\ c # w /\ w \in Conns /\ TypeOK /\ NetTypes /\ WorkerOK(w) /\ CliOK(c)
      /\ request[c].to = "proxy" /\ client[c].state \notin {"new", "refused"} /\ "far" \notin conn[c].closed
  BY <1>1, <1>2, Served, ConnsFacts DEF Inv, TypeOK
<1>4. PICK todo \in Seq(Lines) : todo = worker[w].todo /\ todo # <<>>
  BY <1>1
<1>5. Head(todo) \in Lines /\ Tail(todo) \in Seq(Lines)
  BY <1>4, HeadTail
<1>6. UNCHANGED <<listenVars, queue, cacheVars, tiny, clientVars>> /\ Rio_writen(c, "far", Head(todo))
  BY <1>2, <1>4 DEF Reply, Unchanged
<1>7. /\ conn' \in [Conns -> ConnTypes] /\ Only(c)
      /\ conn'[c].up = conn[c].up /\ conn'[c].closed = conn[c].closed
  BY <1>3, <1>5, <1>6, WriteFar
<1>8. worker' = [worker EXCEPT ![w] = [worker[w] EXCEPT !.todo = Tail(todo)]]
  BY <1>1, <1>3, <1>4 DEF Reply, TypeOK, ProxyTypes, WorkerTypes
<1>9. worker'[w] = [worker[w] EXCEPT !.todo = Tail(todo)] /\ worker' = [worker EXCEPT ![w] = worker'[w]]
  BY <1>1, <1>3, <1>8, WorkerIs
<1>10. worker'[w] \in WorkerTypes /\ worker'[w].pc = "reply" /\ worker'[w].fd = c /\ worker'[w].todo = Tail(todo)
  BY <1>1, <1>2, <1>5, <1>9 DEF WorkerTypes
<1>11. /\ Asked(c)' = Asked(c) /\ Url(c)' = Url(c) /\ RightAnswers(c)' = RightAnswers(c)
  BY <1>6, SameRequest DEF clientVars
<1>12. PICK a \in RightAnswers(c) :
         /\ Sent(c, a)
         /\ Open(c) => /\ Piece(todo, Given(c), a)
                       /\ TinyAlive => Given(c) + Len(todo) = Len(a)
  BY <1>1, <1>2, <1>3, <1>4 DEF WorkerOK, ReplyOK
<1>13. a \in Seq(Lines) /\ Len(a) \in Nat
  BY <1>3, RightOnes DEF TypeOK, OtherTypes
<1>14. /\ Sent(c, a)'
       /\ Open(c)' => /\ Piece(Tail(todo), Given(c)', a)
                      /\ TinyAlive' => Given(c)' + Len(Tail(todo)) = Len(a)
  <2>1. (Open(c)' <=> Open(c)) /\ client' = client /\ (TinyAlive' => TinyAlive)
    BY <1>6, <1>7 DEF Open, clientVars, listenVars, TinyAlive
  <2>2. PICK g : g = Given(c)
    OBVIOUS
  <2>3. g \in Nat
    <3>1. conn[c].down \in Seq(Lines) /\ client[c].got \in Seq(Lines)
      BY <1>3, ConnFacts DEF TypeOK, OtherTypes, ClientTypes
    <3>2. PICK x, y : x = Len(client[c].got) /\ y = Len(conn[c].down)
      OBVIOUS
    <3>3. x \in Nat /\ y \in Nat
      BY <3>1, <3>2
    <3>4. g = x + y
      BY <2>2, <3>2 DEF Given
    <3> QED BY <3>3, <3>4
  <2>4. Open(c) => /\ Head(todo) = a[g + 1] /\ g + 1 \in 1 .. Len(a)
                   /\ Piece(Tail(todo), g + 1, a) /\ Len(Tail(todo)) = Len(todo) - 1 /\ Len(todo) > 0
    BY <1>4, <1>12, <1>13, <2>2, <2>3, PieceHead
  <2>5. Open(c) => g < Len(a)
    BY <1>13, <2>3, <2>4
  <2>6. Sent(c, a)' /\ Given(c)' = IF Open(c) THEN g + 1 ELSE g
    BY <1>3, <1>5, <1>6, <1>12, <1>13, <2>1, <2>2, <2>4, <2>5, OneMore
  <2>7. Open(c) /\ TinyAlive => g + 1 + Len(Tail(todo)) = Len(a)
    <3>1. Open(c) /\ TinyAlive => g + Len(todo) = Len(a)
      BY <1>12, <2>2
    <3> QED BY <1>4, <1>13, <2>3, <2>4, <3>1
  <2> QED BY <2>1, <2>4, <2>6, <2>7
<1>15. RequestOK(w)' /\ ReplyOK(w)'
  <2>1. RequestOK(w)'
    BY <1>10 DEF RequestOK, ConnectedPCs, EarlyPCs, DownloadPCs
  <2>2. ReplyOK(w)'
    BY <1>10, <1>11, <1>14 DEF ReplyOK, Sent, Given
  <2> QED BY <2>1, <2>2
<1>16. conn'[w] = conn[w] /\ \A y \in Conns \ {w, c} : conn'[y] = conn[y]
  BY <1>3, <1>7 DEF Only
<1>17. CacheOK' /\ list' \in Seq([key : AllUrls, data : Seq(Lines)]) /\ size' \in Int
  BY <1>3, <1>6, CacheSame DEF Inv, cacheVars, listenVars, TinyAlive, TypeOK, ProxyTypes
<1>18. ~ WaitsForProxy(c)' /\ ~ WaitsForTiny(c)' /\ (CliOK(c)' => Inv')
  BY <1>1, <1>2, <1>3, <1>6, <1>7, <1>9, <1>10, <1>15, <1>16, <1>17, NotConnected, AnswerStep
<1>19. CliOK(c)'
  BY <1>3, <1>6, <1>7, <1>12, <1>14, <1>18, ClientGiven DEF Open, clientVars
<1> QED BY <1>18, <1>19

\* The invariant, when a worker closes the client's connection.
LEMMA StepCloseFd ==
  ASSUME Inv, NEW w \in Workers, CloseFd(w), UNCHANGED <<tiny, clientVars>>
  PROVE  Inv'
<1>1. ~ crashed /\ worker[w].pc # "take" /\ worker[w].pc \notin ConnectedPCs /\ worker[w] \in WorkerTypes
      /\ worker[w].pc \notin {"take", "request"} /\ (worker[w].pc = "close" \/ (worker[w].pc = "reply" /\ worker[w].todo = <<>>))
  BY DEF CloseFd, At, EarlyPCs, DownloadPCs, ConnectedPCs, Inv, TypeOK, ProxyTypes
<1>2. PICK c : c = worker[w].fd
  OBVIOUS
<1>3. /\ c \in Conns /\ c \in Clients /\ c # w /\ w \in Conns /\ TypeOK /\ NetTypes /\ WorkerOK(w) /\ CliOK(c)
      /\ request[c].to = "proxy" /\ client[c].state \notin {"new", "refused"} /\ "far" \notin conn[c].closed
  BY <1>1, <1>2, Served, ConnsFacts DEF Inv, TypeOK
<1>4. worker' = [worker EXCEPT ![w] = [worker[w] EXCEPT !.pc = "take", !.fd = "none"]]
  BY <1>3 DEF CloseFd, TypeOK, ProxyTypes
<1>5. worker'[w] = [worker[w] EXCEPT !.pc = "take", !.fd = "none"] /\ worker' = [worker EXCEPT ![w] = worker'[w]]
  BY <1>1, <1>3, <1>4, WorkerIs
<1>6. worker'[w] \in WorkerTypes /\ worker'[w].pc = "take" /\ worker'[w].fd = "none"
  BY <1>1, <1>5 DEF WorkerTypes, WorkerPCs
<1>7. UNCHANGED <<listenVars, queue, cacheVars, tiny, clientVars>> /\ Close(c, "far")
  BY <1>2 DEF CloseFd, Unchanged
<1>8. /\ conn' \in [Conns -> ConnTypes] /\ Only(c)
      /\ conn'[c].up = conn[c].up /\ conn'[c].down = conn[c].down
      /\ conn'[c].closed = conn[c].closed \cup {"far"}
  BY <1>3, <1>7, Closes
<1>9. conn'[w] = conn[w] /\ \A y \in Conns \ {w, c} : conn'[y] = conn[y]
  BY <1>3, <1>8 DEF Only
<1>10. CacheOK' /\ list' \in Seq([key : AllUrls, data : Seq(Lines)]) /\ size' \in Int
  BY <1>3, <1>7, CacheSame DEF Inv, cacheVars, listenVars, TinyAlive, TypeOK, ProxyTypes
<1>11. ~ WaitsForProxy(c)' /\ ~ WaitsForTiny(c)' /\ (CliOK(c)' => Inv')
  BY <1>1, <1>2, <1>3, <1>5, <1>6, <1>7, <1>8, <1>9, <1>10, NotConnected, AnswerStep
<1>12. Open(c) => \E a \in RightAnswers(c) : Sent(c, a) /\ (TinyAlive => Given(c) = Len(a))
  <2>1. CASE worker[w].pc = "close"
    BY <1>1, <1>2, <1>3, <2>1 DEF WorkerOK, ReplyOK
  <2>2. CASE worker[w].pc = "reply" /\ worker[w].todo = <<>>
    <3>1. ASSUME Open(c) PROVE \E a \in RightAnswers(c) : Sent(c, a) /\ (TinyAlive => Given(c) + Len(<<>>) = Len(a))
      BY <1>1, <1>2, <1>3, <2>2, <3>1 DEF WorkerOK, ReplyOK
    <3>2. Given(c) \in Int
      <4>1. conn[c].down \in Seq(Lines) /\ client[c].got \in Seq(Lines)
        BY <1>3, ConnFacts DEF TypeOK, OtherTypes, ClientTypes
      <4>2. PICK x, y : x = Len(client[c].got) /\ y = Len(conn[c].down)
        OBVIOUS
      <4>3. x \in Nat /\ y \in Nat
        BY <4>1, <4>2
      <4>4. Given(c) = x + y
        BY <4>2 DEF Given
      <4> QED BY <4>3, <4>4
    <3>3. Len(<<>>) = 0
      OBVIOUS
    <3>4. Given(c) + Len(<<>>) = Given(c)
      BY <3>2, <3>3
    <3> QED BY <3>1, <3>4
  <2> QED BY <1>1, <2>1, <2>2
<1>13. (Open(c)' <=> Open(c)) /\ client' = client /\ dead' = dead
  BY <1>7, <1>8 DEF Open, clientVars, listenVars
<1>14. \E a \in RightAnswers(c) :
         /\ Sent(c, a)'
         /\ "far" \in conn'[c].closed /\ client[c].state # "left" /\ dead' = {} => Given(c)' = Len(a)
  <2>1. \A a : Sent(c, a) => Sent(c, a)'
    BY <1>8, <1>13 DEF Sent
  <2>2. Given(c)' = Given(c)
    BY <1>8, <1>13 DEF Given
  <2>3. CASE Open(c)
    BY <1>12, <1>13, <2>1, <2>2, <2>3 DEF TinyAlive
  <2>4. CASE ~ Open(c)
    <3>1. client[c].state = "left"
      BY <1>3, <2>4 DEF CliOK, ClientOK
    <3>2. \E a \in RightAnswers(c) : Sent(c, a)
      BY <1>3 DEF CliOK, AnswerOK
    <3> QED BY <2>1, <3>1, <3>2
  <2> QED BY <2>3, <2>4
<1>15. CliOK(c)'
  BY <1>3, <1>7, <1>11, <1>13, <1>14, ClientGiven DEF clientVars
<1> QED BY <1>11, <1>15

\* The type of what a client was given.
LEMMA GivenNat ==
  ASSUME TypeOK, NEW c \in Clients
  PROVE  Given(c) \in Nat
<1>1. c \in Conns /\ conn[c].down \in Seq(Lines) /\ client[c].got \in Seq(Lines)
  BY ConnsFacts, ConnFacts DEF TypeOK, OtherTypes, ClientTypes
<1>2. PICK x, y : x = Len(client[c].got) /\ y = Len(conn[c].down)
  OBVIOUS
<1>3. x \in Nat /\ y \in Nat
  BY <1>1, <1>2
<1>4. Given(c) = x + y
  BY <1>2 DEF Given
<1> QED BY <1>3, <1>4

\* A path that was empty and one that is not are the same to a server.
LEMMA SamePath ==
  ASSUME NEW url \in AllUrls
  PROVE  /\ Full(url) \in AllUrls /\ Full(url).host = url.host /\ Full(url).port = url.port
         /\ url.scheme = "http" => Full(url).path = Path(url) /\ Path(Full(url)) = Path(url)
<1>1. CASE url.scheme = "http" /\ url.path = ""
  <2>1. Full(url) = [url EXCEPT !.path = "/"]
    BY <1>1 DEF Full
  <2>2. Full(url) \in AllUrls /\ Full(url).host = url.host /\ Full(url).port = url.port /\ Full(url).path = "/"
    <3>1. PICK T : T = Seq(STRING)
      OBVIOUS
    <3>2. url \in [scheme : STRING, host : T, port : T, path : STRING, colon : BOOLEAN]
      BY <3>1 DEF AllUrls
    <3>3. PICK r : r = [url EXCEPT !.path = "/"]
      OBVIOUS
    <3>4. r \in [scheme : STRING, host : T, port : T, path : STRING, colon : BOOLEAN]
          /\ r.host = url.host /\ r.port = url.port /\ r.path = "/"
      BY <3>2, <3>3, ProxyAssumption
    <3> QED BY <2>1, <3>1, <3>3, <3>4 DEF AllUrls
  <2> QED BY <1>1, <2>2 DEF Path
<1>2. CASE ~ (url.scheme = "http" /\ url.path = "")
  <2>1. Full(url) = url
    BY <1>2 DEF Full
  <2> QED BY <1>2, <2>1 DEF Path
<1> QED BY <1>1, <1>2

\* The cache is a sequence of entries that are right.
LEMMA GoodList ==
  ASSUME TypeOK, CacheOK, NEW S, S = {e \in [key : AllUrls, data : Seq(Lines)] : EntryOK(e)}
  PROVE  list \in Seq(S)
<1>1. list \in Seq([key : AllUrls, data : Seq(Lines)])
  BY DEF TypeOK, ProxyTypes
<1>2. PICK R, l : R = [key : AllUrls, data : Seq(Lines)] /\ l = list
  OBVIOUS
<1>3. l \in Seq(R) /\ \A i \in DOMAIN l : EntryOK(l[i])
  BY <1>1, <1>2 DEF CacheOK
<1>4. \A e \in R : EntryOK(e) => e \in S
  BY <1>2, Zenon
<1>5. \A i \in 1 .. Len(l) : l[i] \in R /\ EntryOK(l[i])
  BY <1>3
<1>6. \A i \in 1 .. Len(l) : l[i] \in S
  BY <1>4, <1>5, Zenon
<1>7. l \in Seq(S)
  BY <1>3, <1>6
<1> QED BY <1>2, <1>7

\* And a sequence of such entries is a cache that is right.
LEMMA CacheGoesOn ==
  ASSUME TinyAlive' => TinyAlive, NEW S, S = {e \in [key : AllUrls, data : Seq(Lines)] : EntryOK(e)},
         list' \in Seq(S)
  PROVE  CacheOK' /\ list' \in Seq([key : AllUrls, data : Seq(Lines)])
<1>1. \A i \in DOMAIN list' : list'[i] \in S
  OBVIOUS
<1>2. \A e \in S : EntryOK(e) /\ e \in [key : AllUrls, data : Seq(Lines)]
  OBVIOUS
<1>3. ASSUME NEW i \in DOMAIN list' PROVE EntryOK(list[i])'
  <2>1. EntryOK(list'[i])
    BY <1>1, <1>2
  <2> QED BY <2>1 DEF EntryOK
<1>4. PICK R : R = [key : AllUrls, data : Seq(Lines)]
  OBVIOUS
<1>5. S \subseteq R
  BY <1>2, <1>4
<1>6. list' \in Seq(R)
  BY <1>5
<1>7. list' \in Seq([key : AllUrls, data : Seq(Lines)])
  BY <1>4, <1>6
<1> QED BY <1>3, <1>7 DEF CacheOK

\* The invariant, when the answer has ended and is put into the cache.
LEMMA StepEndResponse ==
  ASSUME Inv, NEW w \in Workers, EndResponse(w), UNCHANGED <<tiny, clientVars>>
  PROVE  Inv'
<1>1. ~ crashed /\ worker[w].pc = "response" /\ worker[w].pc \in ConnectedPCs /\ worker[w] \in WorkerTypes
      /\ worker[w].pc \notin {"take", "request"}
  BY DEF EndResponse, At, EarlyPCs, DownloadPCs, ConnectedPCs, Inv, TypeOK, ProxyTypes
<1>2. PICK c : c = worker[w].fd
  OBVIOUS
<1>3. /\ c \in Conns /\ c \in Clients /\ c # w /\ w \in Conns /\ TypeOK /\ NetTypes /\ WorkerOK(w) /\ CliOK(c)
      /\ request[c].to = "proxy" /\ client[c].state \notin {"new", "refused"} /\ "far" \notin conn[c].closed
      /\ Url(c) \in AllUrls /\ Uri(c) \in DOMAIN Files /\ Uri(c) = Path(Url(c))
  BY <1>1, <1>2, Served, ConnsFacts DEF Inv, TypeOK
<1>4. worker' = [worker EXCEPT ![w] = [worker[w] EXCEPT !.pc = "close"]]
  BY <1>3 DEF EndResponse, TypeOK, ProxyTypes
<1>5. worker'[w] = [worker[w] EXCEPT !.pc = "close"] /\ worker' = [worker EXCEPT ![w] = worker'[w]]
  BY <1>1, <1>3, <1>4, WorkerIs
<1>6. worker'[w] \in WorkerTypes /\ worker'[w].pc = "close" /\ worker'[w].fd = c
  BY <1>1, <1>2, <1>5 DEF WorkerTypes, WorkerPCs
<1>7. UNCHANGED <<listenVars, queue, tiny, clientVars>> /\ Close(w, "near")
      /\ conn[w].down = <<>> /\ "far" \in conn[w].closed
  BY DEF EndResponse, AtEOF, Available, PeerGone, Peer, In
<1>8. /\ conn' \in [Conns -> ConnTypes] /\ Only(w)
      /\ conn'[w].up = conn[w].up /\ conn'[w].closed = conn[w].closed \cup {"near"}
  BY <1>3, <1>7, Closes
<1>9. conn'[c] = conn[c] /\ \A y \in Conns \ {w, c} : conn'[y] = conn[y]
  BY <1>3, <1>8 DEF Only
<1>10. TinyAlive => ~ InTiny(w)
  BY <1>1, <1>7, NotConnected
<1>11. Server(c) = "tiny" /\ FromTiny(w) /\ RequestOK(w)
  BY <1>1, <1>2, <1>3, <1>7 DEF WorkerOK, RequestOK, FromHung
<1>12. PICK n \in Nat : Download(w, n)
  BY <1>1, <1>2, <1>11 DEF FromTiny, DownloadPCs
<1>13. PICK a, line, rev : a = Answer(Uri(c)) /\ line = GetLine(Uri(c)) /\ rev = worker[w].rev_data
  OBVIOUS
<1>14. /\ Sent(c, a) /\ (Open(c) => Given(c) = n)
       /\ rev # NULL => Len(rev) = n /\ Piece(rev, 0, Cut(a))
       /\ Flow(w, n, line)
  BY <1>1, <1>2, <1>12, <1>13 DEF Download
<1>15. a \in Answers /\ AnswerTo(line) = a /\ a \in RightAnswers(c)
  BY <1>3, <1>11, <1>13, SomeLines, GetAnswer, RightOnes DEF TypeOK, OtherTypes
<1>16. TinyAlive => n = Len(a)
  <2>1. TinyAt(w, n + Len(<<>>), line)
    BY <1>7, <1>14 DEF Flow
  <2>2. Len(<<>>) = 0
    OBVIOUS
  <2>3. TinyAlive => n + Len(<<>>) = Len(a)
    BY <1>10, <1>15, <2>1 DEF TinyAt, InTiny
  <2> QED BY <2>2, <2>3
<1>17. PICK S : S = {e \in [key : AllUrls, data : Seq(Lines)] : EntryOK(e)}
  OBVIOUS
<1>18. PICK l \in Seq(S) : l = list
  BY <1>3, <1>17, GoodList DEF Inv
<1>19. list' \in Seq(S) /\ size' \in Int
  <2>1. size \in Int
    BY <1>3 DEF TypeOK, ProxyTypes
  <2>2. CASE rev = NULL
    BY <1>13, <1>18, <2>1, <2>2 DEF EndResponse, cacheVars
  <2>3. CASE rev # NULL
    <3>1. PICK url : url = Full(Url(c))
      OBVIOUS
    <3>2. worker[w].url = url /\ Url(c).scheme = "http"
      BY <1>1, <1>2, <1>11, <3>1 DEF RequestOK
    <3>3. Cache!lru_put(url, rev) /\ ~ PutCrashes(w)
      BY <1>13, <2>3, <3>2 DEF EndResponse
    <3>4. [key |-> url, data |-> rev] \in S
      <4>1. url \in AllUrls /\ url.host = Url(c).host /\ url.port = Url(c).port /\ Path(url) = Uri(c)
        BY <1>3, <3>1, <3>2, SamePath
      <4>2. rev \in Seq(Lines)
        BY <1>1, <1>13 DEF WorkerTypes
      <4>3. <<url.host, url.port>> \in DOMAIN Servers /\ Servers[<<url.host, url.port>>] = "tiny"
        BY <1>3, <1>11, <4>1 DEF Server
      <4>4. TinyAlive => Len(rev) = Len(a)
        BY <1>14, <1>16, <2>3
      <4>5. Piece(rev, 0, Cut(a)) /\ a = Answer(Path(url)) /\ Path(url) \in DOMAIN Files
        BY <1>3, <1>13, <1>14, <2>3, <4>1
      <4>6. PICK e : e = [key |-> url, data |-> rev]
        OBVIOUS
      <4>7. EntryOK(e)
        BY <4>3, <4>4, <4>5, <4>6 DEF EntryOK
      <4>8. e \in [key : AllUrls, data : Seq(Lines)]
        BY <4>1, <4>2, <4>6
      <4> QED BY <1>17, <4>6, <4>7, <4>8
    <3>5. \/ /\ Cache!Hit(l, url) /\ list' = Cache!Replace(l, url, rev) /\ size' = size
          \/ /\ CacheCapacity # size \/ l # <<>>
             /\ list' = Cache!Insert(l, size, url, rev) /\ size' = size + 1
      <4>1. ~ (~ Cache!Hit(l, url) /\ CacheCapacity = size /\ l = <<>>)
        BY <1>13, <1>18, <2>3, <3>2, <3>3 DEF PutCrashes
      <4> QED BY <1>18, <3>3, <4>1 DEF Cache!lru_put, Cache!PutFound, Cache!PutNew, Cache!PutCrash
    <3>6. PICK sz \in Int : sz = size
      BY <2>1
    <3>7. CASE Cache!Hit(l, url) /\ list' = Cache!Replace(l, url, rev) /\ size' = size
      BY <2>1, <3>4, <3>7, KeptInCache
    <3>8. CASE (CacheCapacity # size \/ l # <<>>) /\ list' = Cache!Insert(l, size, url, rev) /\ size' = size + 1
      <4>1. Cache!Insert(l, sz, url, rev) \in Seq(S)
        BY <3>4, <3>6, <3>8, KeptInCache
      <4> QED BY <3>6, <3>8, <4>1
    <3> QED BY <3>5, <3>7, <3>8
  <2> QED BY <2>2, <2>3
<1>20. CacheOK' /\ list' \in Seq([key : AllUrls, data : Seq(Lines)])
  <2>1. TinyAlive' => TinyAlive
    BY <1>7 DEF listenVars, TinyAlive
  <2> QED BY <1>17, <1>19, <2>1, CacheGoesOn
<1>21. (Open(c)' <=> Open(c)) /\ client' = client /\ (TinyAlive' => TinyAlive)
  BY <1>7, <1>9 DEF Open, clientVars, listenVars, TinyAlive
<1>22. Sent(c, a)' /\ Given(c)' = Given(c)
  BY <1>9, <1>14, <1>21 DEF Sent, Given
<1>23. RightAnswers(c)' = RightAnswers(c)
  BY <1>7, SameRequest DEF clientVars
<1>24. RequestOK(w)' /\ ReplyOK(w)'
  <2>1. RequestOK(w)'
    BY <1>6 DEF RequestOK, ConnectedPCs, EarlyPCs, DownloadPCs
  <2>2. Open(c)' => Sent(c, a)' /\ (TinyAlive' => Given(c)' = Len(a))
    BY <1>14, <1>16, <1>21, <1>22
  <2>3. ReplyOK(w)'
    BY <1>6, <1>15, <1>23, <2>2 DEF ReplyOK, Sent, Given
  <2> QED BY <2>1, <2>3
<1>25. ~ WaitsForProxy(c)' /\ ~ WaitsForTiny(c)' /\ (CliOK(c)' => Inv')
  BY <1>1, <1>2, <1>3, <1>5, <1>6, <1>7, <1>8, <1>9, <1>10, <1>19, <1>20, <1>24, AnswerStep
<1>26. CliOK(c)'
  BY <1>3, <1>7, <1>9, <1>15, <1>21, <1>22, <1>25, ClientGiven DEF clientVars
<1> QED BY <1>25, <1>26

\* What strncpy leaves in the array begins as its argument does.
LEMMA Strncpy ==
  ASSUME NEW S, NEW array \in Seq(S), NEW chars \in Seq(S)
  PROVE  /\ strncpy(array, chars) \in Seq(S)
         /\ chars # <<>> => strncpy(array, chars) # <<>> /\ strncpy(array, chars)[1] = chars[1]
<1>1. PICK rest : rest = SubSeq(array, Len(chars) + 1, Len(array))
  OBVIOUS
<1>2. rest \in Seq(S)
  <2>1. PICK m \in Nat : m = Len(chars) + 1
    OBVIOUS
  <2>2. CASE m > Len(array)
    BY <1>1, <2>1, <2>2
  <2>3. CASE m =< Len(array)
    <3>1. m \in 1 .. Len(array) + 1 /\ Len(array) \in m - 1 .. Len(array)
      BY <2>1, <2>3
    <3> QED BY <1>1, <2>1, <3>1, SubSeqProperties
  <2> QED BY <2>1, <2>2, <2>3
<1>3. /\ chars \o rest \in Seq(S) /\ Len(chars \o rest) = Len(chars) + Len(rest)
      /\ \A i \in 1 .. Len(chars) + Len(rest) : (chars \o rest)[i] =
            IF i =< Len(chars) THEN chars[i] ELSE rest[i - Len(chars)]
  BY <1>2, ConcatProperties
<1>4. ASSUME chars # <<>> PROVE chars \o rest # <<>> /\ (chars \o rest)[1] = chars[1]
  <2>1. Len(chars) \in Nat \ {0} /\ Len(rest) \in Nat
    BY <1>2, <1>4
  <2>2. Len(chars \o rest) # 0 /\ 1 \in 1 .. Len(chars) + Len(rest) /\ 1 =< Len(chars)
    BY <1>3, <2>1
  <2> QED BY <1>3, <2>2
<1> QED BY <1>1, <1>3, <1>4 DEF strncpy

\* Before a page is sent: none of it has been.
LEMMA WholeAnswer ==
  ASSUME TypeOK, NEW c \in Clients, Silent(c), client' = client, conn'[c].down = conn[c].down,
         NEW a \in Seq(Lines)
  PROVE  Sent(c, a)' /\ Given(c)' = 0 /\ 0 + Len(a) = Len(a)
<1>1. client'[c].got = <<>> /\ conn'[c].down = <<>> /\ Len(<<>>) = 0
  BY DEF Silent
<1>2. Piece(<<>>, 0, a) /\ Len(a) \in Nat
  BY EmptyPiece
<1>3. Sent(c, a)'
  <2>1. Piece(client'[c].got, 0, a) /\ Piece(conn'[c].down, Len(client'[c].got), a)
    BY <1>1, <1>2
  <2> QED BY <2>1 DEF Sent
<1>4. Given(c)' = 0
  <2>1. Len(client'[c].got) = 0 /\ Len(conn'[c].down) = 0
    BY <1>1
  <2> QED BY <2>1 DEF Given
<1> QED BY <1>2, <1>3, <1>4

\* What parseUrl does, its definitions spelt out.
Parses(w, root, full, host, port) ==
  /\ full = IF worker[w].url.scheme = "http" /\ worker[w].url.path = ""
            THEN [worker[w].url EXCEPT !.path = root] ELSE worker[w].url
  /\ host = CASE worker[w].url.scheme = "http" -> strncpy(worker[w].hostname, worker[w].url.host)
              [] worker[w].url.scheme = "none" -> strncpy(worker[w].hostname, <<"NUL">>)
              [] OTHER               -> worker[w].hostname
  /\ port = CASE worker[w].url.scheme = "http" -> strncpy(worker[w].port, worker[w].url.port)
              [] worker[w].url.scheme = "none" -> strncpy(worker[w].port, <<"NUL">>)
              [] OTHER               -> worker[w].port
  /\ worker' = [worker EXCEPT
                   ![w].url = full, ![w].uri = full.path, ![w].hostname = host, ![w].port = port,
                   ![w].pc = IF Refused(worker[w].buf) THEN "reply" ELSE "connect",
                   ![w].todo = IF Refused(worker[w].buf) THEN Page ELSE <<>>]
  /\ garbled' = \/ garbled
                \/ /\ worker[w].url.scheme = "http" /\ ~ Refused(worker[w].buf)
                   /\ \/ host # worker[w].url.host \/ port # worker[w].url.port
                      \/ worker[w].url.path = "" /\ root # "/"

\* parseUrl, without its LET.
LEMMA Parsed ==
  ASSUME NEW w, parseUrl(w)
  PROVE  \E root \in RootPaths : \E full, host, port : Parses(w, root, full, host, port)
<1>1. PICK root \in RootPaths :
        LET full == IF worker[w].url.scheme = "http" /\ worker[w].url.path = ""
                  THEN [worker[w].url EXCEPT !.path = root] ELSE worker[w].url
            host == CASE worker[w].url.scheme = "http" -> strncpy(worker[w].hostname, worker[w].url.host)
                    [] worker[w].url.scheme = "none" -> strncpy(worker[w].hostname, <<"NUL">>)
                    [] OTHER               -> worker[w].hostname
            port == CASE worker[w].url.scheme = "http" -> strncpy(worker[w].port, worker[w].url.port)
                    [] worker[w].url.scheme = "none" -> strncpy(worker[w].port, <<"NUL">>)
                    [] OTHER               -> worker[w].port
        IN
        /\ worker' = [worker EXCEPT
                       ![w].url = full, ![w].uri = full.path, ![w].hostname = host, ![w].port = port,
                       ![w].pc = IF Refused(worker[w].buf) THEN "reply" ELSE "connect",
                       ![w].todo = IF Refused(worker[w].buf) THEN Page ELSE <<>>]
        /\ garbled' = \/ garbled
                      \/ /\ worker[w].url.scheme = "http" /\ ~ Refused(worker[w].buf)
                         /\ \/ host # worker[w].url.host \/ port # worker[w].url.port
                            \/ worker[w].url.path = "" /\ root # "/"
  BY Zenon DEF parseUrl
<1>2. PICK full, host, port :
        /\ full = IF worker[w].url.scheme = "http" /\ worker[w].url.path = ""
                  THEN [worker[w].url EXCEPT !.path = root] ELSE worker[w].url
        /\ host = CASE worker[w].url.scheme = "http" -> strncpy(worker[w].hostname, worker[w].url.host)
                    [] worker[w].url.scheme = "none" -> strncpy(worker[w].hostname, <<"NUL">>)
                    [] OTHER               -> worker[w].hostname
        /\ port = CASE worker[w].url.scheme = "http" -> strncpy(worker[w].port, worker[w].url.port)
                    [] worker[w].url.scheme = "none" -> strncpy(worker[w].port, <<"NUL">>)
                    [] OTHER               -> worker[w].port
  OBVIOUS
<1>3. Parses(w, root, full, host, port)
  BY <1>1, <1>2, Zenon DEF Parses
<1> QED BY <1>3

\* What parseUrl does with the workers.
LEMMA ParsedWorker ==
  ASSUME NEW w \in Workers, worker \in [Workers -> WorkerTypes], parseUrl(w)
  PROVE  worker'[w].pc \in {"reply", "connect"} /\ \A v \in Workers \ {w} : worker'[v] = worker[v]
<1>1. PICK root, full, host, port : Parses(w, root, full, host, port)
  BY Parsed
<1>2. PICK pc, todo : /\ pc = IF Refused(worker[w].buf) THEN "reply" ELSE "connect"
                      /\ todo = IF Refused(worker[w].buf) THEN Page ELSE <<>>
  OBVIOUS
<1>3. worker' = [worker EXCEPT ![w].url = full, ![w].uri = full.path, ![w].hostname = host,
                               ![w].port = port, ![w].pc = pc, ![w].todo = todo]
  BY <1>1, <1>2, Zenon DEF Parses
<1>4. pc \in {"reply", "connect"}
  BY <1>2
<1> QED BY <1>3, <1>4 DEF WorkerTypes

\* The invariant, when parseUrl returns.
LEMMA StepParseUrl ==
  ASSUME Inv, NEW w \in Workers, parseUrl(w), ~ garbled', UNCHANGED <<tiny, clientVars>>
  PROVE  Inv'
<1>1. ~ crashed /\ worker[w].pc = "parse" /\ worker[w].pc \notin ConnectedPCs /\ worker[w] \in WorkerTypes
      /\ worker[w].pc \notin {"take", "request"}
  BY DEF parseUrl, At, EarlyPCs, DownloadPCs, ConnectedPCs, Inv, TypeOK, ProxyTypes
<1>2. PICK c : c = worker[w].fd
  OBVIOUS
<1>3. /\ c \in Conns /\ c \in Clients /\ c # w /\ w \in Conns /\ TypeOK /\ NetTypes /\ WorkerOK(w) /\ CliOK(c)
      /\ request[c].to = "proxy" /\ client[c].state \notin {"new", "refused"} /\ "far" \notin conn[c].closed
      /\ Url(c) \in AllUrls /\ Uri(c) \in DOMAIN Files /\ Uri(c) = Path(Url(c)) /\ request \in Requests
  BY <1>1, <1>2, Served, ConnsFacts DEF Inv, TypeOK, OtherTypes
<1>4. PICK me, url : me = worker[w] /\ url = Url(c)
  OBVIOUS
<1>5. me.buf = Asked(c) /\ me.url = url /\ me.buf[2] = url /\ Silent(c)
  BY <1>1, <1>2, <1>3, <1>4 DEF WorkerOK, RequestOK, Url
<1>5a. PICK root \in RootPaths : \E full, host, port : Parses(w, root, full, host, port)
  BY Parsed
<1>6. PICK full, host, port : Parses(w, root, full, host, port)
  BY <1>5a
<1>7. PICK pc, todo :
        /\ pc = IF Refused(me.buf) THEN "reply" ELSE "connect"
        /\ todo = IF Refused(me.buf) THEN Page ELSE <<>>
  OBVIOUS
<1>8. /\ worker' = [worker EXCEPT ![w].url = full, ![w].uri = full.path, ![w].hostname = host,
                                  ![w].port = port, ![w].pc = pc, ![w].todo = todo]
      /\ url.scheme = "http" /\ ~ Refused(me.buf) =>
           host = url.host /\ port = url.port /\ (url.path = "" => root = "/")
      /\ full = IF url.scheme = "http" /\ url.path = "" THEN [url EXCEPT !.path = root] ELSE url
      /\ url.scheme = "http" => /\ host = strncpy(me.hostname, url.host)
                                /\ port = strncpy(me.port, url.port)
      /\ url.scheme = "none" => /\ host = strncpy(me.hostname, <<"NUL">>)
                                /\ port = strncpy(me.port, <<"NUL">>)
      /\ url.scheme \notin {"http", "none"} => host = me.hostname /\ port = me.port
  <2>1. me = worker[w] /\ url = worker[w].url
    BY <1>4, <1>5
  <2>2. /\ worker' = [worker EXCEPT ![w].url = full, ![w].uri = full.path, ![w].hostname = host,
                                    ![w].port = port, ![w].pc = pc, ![w].todo = todo]
    BY <1>6, <1>7, <2>1, Zenon DEF Parses
  <2> QED BY <1>6, <1>7, <2>1, <2>2 DEF Parses
<1>9. worker' = [worker EXCEPT ![w] = [me EXCEPT !.url = full, !.uri = full.path, !.hostname = host,
                                                 !.port = port, !.pc = pc, !.todo = todo]]
  <2>1. \A S : worker \in [Workers -> S] =>
          [worker EXCEPT ![w].url = full, ![w].uri = full.path, ![w].hostname = host,
                         ![w].port = port, ![w].pc = pc, ![w].todo = todo]
            = [worker EXCEPT ![w] = [worker[w] EXCEPT !.url = full, !.uri = full.path, !.hostname = host,
                                                      !.port = port, !.pc = pc, !.todo = todo]]
    OBVIOUS
  <2>2. worker \in [Workers -> WorkerTypes]
    BY <1>3 DEF TypeOK, ProxyTypes
  <2> QED BY <1>4, <1>8, <2>1, <2>2, Zenon
<1>10. worker'[w] = [me EXCEPT !.url = full, !.uri = full.path, !.hostname = host,
                               !.port = port, !.pc = pc, !.todo = todo]
       /\ worker' = [worker EXCEPT ![w] = worker'[w]]
  BY <1>1, <1>3, <1>9, WorkerIs
<1>11. full \in AllUrls /\ full.path \in STRING
  <2>1. CASE url.scheme = "http" /\ url.path = ""
    <3>1. root \in STRING /\ full = [url EXCEPT !.path = root]
      BY <1>8, <2>1, ProxyAssumption
    <3>2. PICK T : T = Seq(STRING)
      OBVIOUS
    <3>3. url \in [scheme : STRING, host : T, port : T, path : STRING, colon : BOOLEAN]
      BY <1>3, <1>4, <3>2 DEF AllUrls
    <3>4. full \in [scheme : STRING, host : T, port : T, path : STRING, colon : BOOLEAN]
      BY <3>1, <3>3
    <3> QED BY <3>2, <3>4 DEF AllUrls
  <2>2. CASE ~ (url.scheme = "http" /\ url.path = "")
    BY <1>3, <1>4, <1>8, <2>2 DEF AllUrls
  <2> QED BY <2>1, <2>2
<1>12. host \in Seq(Chars) /\ port \in Seq(Chars) /\ (url.scheme = "none" => host # <<>> /\ host[1] = "NUL")
  <2>1. "NUL" \in Chars /\ STRING \subseteq Chars
    BY DEF Chars
  <2>2. <<"NUL">> \in Seq(Chars) /\ <<"NUL">> # <<>> /\ <<"NUL">>[1] = "NUL"
    BY <2>1
  <2>3. url.host \in Seq(STRING) /\ url.port \in Seq(STRING)
    BY <1>3, <1>4 DEF AllUrls
  <2>4. url.host \in Seq(Chars) /\ url.port \in Seq(Chars)
    <3>1. PICK T, h, p : T = STRING /\ h = url.host /\ p = url.port
      OBVIOUS
    <3>2. h \in Seq(T) /\ p \in Seq(T) /\ T \subseteq Chars
      BY <2>1, <2>3, <3>1
    <3>3. h \in Seq(Chars) /\ p \in Seq(Chars)
      BY <3>2
    <3> QED BY <3>1, <3>3
  <2>5. me.hostname \in Seq(Chars) /\ me.port \in Seq(Chars)
    BY <1>1, <1>4 DEF WorkerTypes
  <2>6. CASE url.scheme = "http"
    BY <1>8, <2>4, <2>5, <2>6, Strncpy
  <2>7. CASE url.scheme = "none"
    <3>1. PICK nul : nul = <<"NUL">>
      OBVIOUS
    <3>2. nul \in Seq(Chars) /\ nul # <<>> /\ nul[1] = "NUL"
      BY <2>2, <3>1
    <3>3. host = strncpy(me.hostname, nul) /\ port = strncpy(me.port, nul)
      BY <1>8, <2>7, <3>1
    <3> QED BY <2>5, <3>2, <3>3, Strncpy
  <2>8. CASE url.scheme \notin {"http", "none"}
    BY <1>8, <2>5, <2>8
  <2> QED BY <2>6, <2>7, <2>8
<1>13. todo \in Seq(Lines) /\ Page \in Seq(Lines) /\ Len(Page) \in Nat
  <2>1. Page \in Seq(Lines) /\ Len(Page) \in Nat
    BY SomeLines, AnswersTyped
  <2>2. todo = Page \/ todo = <<>>
    BY <1>7
  <2>3. <<>> \in Seq(Lines)
    OBVIOUS
  <2> QED BY <2>1, <2>2, <2>3
<1>14. worker'[w] \in WorkerTypes
  BY <1>1, <1>4, <1>7, <1>10, <1>11, <1>12, <1>13 DEF WorkerTypes, WorkerPCs
<1>15. /\ worker'[w].pc = pc /\ worker'[w].fd = c /\ worker'[w].url = full /\ worker'[w].todo = todo
       /\ worker'[w].hostname = host /\ worker'[w].port = port /\ worker'[w].uri = full.path
  BY <1>1, <1>2, <1>4, <1>10 DEF WorkerTypes
<1>16. UNCHANGED <<listenVars, queue, cacheVars, tiny, clientVars>> /\ conn' = conn
  BY DEF parseUrl, netVars
<1>17. /\ Asked(c)' = Asked(c) /\ Url(c)' = Url(c) /\ Uri(c)' = Uri(c) /\ RightAnswers(c)' = RightAnswers(c)
  BY <1>16, SameRequest DEF clientVars
<1>18. client' = client /\ conn'[c] = conn[c] /\ Silent(c)'
  BY <1>5, <1>16 DEF clientVars, Silent
<1>19. RequestOK(w)' /\ ReplyOK(w)'
  <2>1. CASE Refused(me.buf)
    <3>1. pc = "reply" /\ todo = Page /\ Page \in RightAnswers(c)
      BY <1>3, <1>5, <1>7, <2>1, RightOnes DEF MayRefuse
    <3>2. RequestOK(w)'
      BY <1>15, <3>1 DEF RequestOK, ConnectedPCs, EarlyPCs, DownloadPCs
    <3>3. Sent(c, Page)' /\ Given(c)' = 0 /\ 0 + Len(Page) = Len(Page) /\ Piece(Page, 0, Page)
      BY <1>3, <1>5, <1>13, <1>18, WholeAnswer, WholePiece
    <3>4. PICK a : a = Page
      OBVIOUS
    <3>5. Sent(c, a)' /\ Piece(todo, Given(c)', a) /\ Given(c)' + Len(todo) = Len(a)
      BY <3>1, <3>3, <3>4 DEF Page, Sent
    <3>6. ReplyOK(w)'
      BY <1>15, <1>17, <3>1, <3>4, <3>5 DEF ReplyOK, Sent, Given
    <3> QED BY <3>2, <3>6
  <2>2. CASE ~ Refused(me.buf)
    <3>1. pc = "connect" /\ url.scheme \in {"http", "none"}
      BY <1>5, <1>7, <2>2 DEF Refused
    <3>2. url.scheme = "http" => /\ host = url.host /\ port = url.port /\ full = Full(url)
                                 /\ full.path = Path(url)
      <4> SUFFICES ASSUME url.scheme = "http" PROVE full = Full(url)
        BY <1>3, <1>4, <1>8, <2>2, SamePath
      <4> QED BY <1>8, <2>2 DEF Full
    <3>3. RequestOK(w)'
      <4>1. (Url(c)' = url) /\ (Full(Url(c))' = Full(url)) /\ (Path(Url(c))' = Path(url))
        BY <1>4, <1>17 DEF Full, Path
      <4> QED BY <1>12, <1>15, <1>18, <3>1, <3>2, <4>1 DEF RequestOK, ConnectedPCs, EarlyPCs, DownloadPCs
    <3>4. ReplyOK(w)'
      BY <1>15, <3>1 DEF ReplyOK
    <3> QED BY <3>3, <3>4
  <2> QED BY <2>1, <2>2
<1>20. CacheOK' /\ list' \in Seq([key : AllUrls, data : Seq(Lines)]) /\ size' \in Int
  BY <1>3, <1>16, CacheSame DEF Inv, cacheVars, listenVars, TinyAlive, TypeOK, ProxyTypes
<1>21. conn' \in [Conns -> ConnTypes]
  BY <1>3, <1>16 DEF NetTypes
<1>22. ~ WaitsForProxy(c)' /\ ~ WaitsForTiny(c)' /\ (CliOK(c)' => Inv')
  BY <1>1, <1>2, <1>3, <1>7, <1>10, <1>14, <1>15, <1>16, <1>19, <1>20, <1>21, NotConnected, AnswerStep
<1>23. CliOK(c)'
  BY <1>3, <1>16, <1>18, <1>22, ClientServed DEF Open, clientVars
<1> QED BY <1>22, <1>23

\* The invariant, when a worker reads the request line and asks the cache.
LEMMA StepReadRequest ==
  ASSUME Inv, NEW w \in Workers, ReadRequest(w), UNCHANGED <<tiny, clientVars>>
  PROVE  Inv'
<1>1. ~ crashed /\ worker[w].pc = "request" /\ worker[w].pc \notin ConnectedPCs /\ worker[w] \in WorkerTypes
      /\ worker[w].pc # "take"
  BY DEF ReadRequest, At, EarlyPCs, DownloadPCs, ConnectedPCs, Inv, TypeOK, ProxyTypes
<1>2. PICK c : c = worker[w].fd
  OBVIOUS
<1>3. /\ c \in Conns /\ c \in Clients /\ c # w /\ w \in Conns /\ TypeOK /\ NetTypes /\ CliOK(c)
      /\ request[c].to = "proxy" /\ client[c].state \notin {"new", "refused"} /\ "far" \notin conn[c].closed
      /\ Url(c) \in AllUrls /\ Uri(c) \in DOMAIN Files /\ Uri(c) = Path(Url(c)) /\ request \in Requests
  BY <1>1, <1>2, Served, ConnsFacts DEF Inv, TypeOK, OtherTypes
<1>4. UNCHANGED <<listenVars, queue, tiny, clientVars>>
  BY DEF ReadRequest
<1>5. CASE AtEOF(c, "far") /\ UNCHANGED <<conn, cacheVars>> /\ worker' = [worker EXCEPT ![w].pc = "close"]
  <2>1. ~ Open(c)
    BY <1>5 DEF AtEOF, PeerGone, Peer, Open
  <2>2. worker' = [worker EXCEPT ![w] = [worker[w] EXCEPT !.pc = "close"]]
    BY <1>3, <1>5 DEF TypeOK, ProxyTypes
  <2>3. worker'[w] = [worker[w] EXCEPT !.pc = "close"] /\ worker' = [worker EXCEPT ![w] = worker'[w]]
    BY <1>1, <1>3, <2>2, WorkerIs
  <2>4. worker'[w] \in WorkerTypes /\ worker'[w].pc = "close" /\ worker'[w].fd = c
    BY <1>1, <1>2, <2>3 DEF WorkerTypes, WorkerPCs
  <2>5. RequestOK(w)' /\ ReplyOK(w)'
    <3>1. RequestOK(w)'
      BY <2>4 DEF RequestOK, ConnectedPCs, EarlyPCs, DownloadPCs
    <3>2. ~ Open(c)'
      BY <1>5, <2>1 DEF Open
    <3>3. ReplyOK(w)'
      BY <2>4, <3>2 DEF ReplyOK
    <3> QED BY <3>1, <3>3
  <2>6. CacheOK' /\ list' \in Seq([key : AllUrls, data : Seq(Lines)]) /\ size' \in Int
    BY <1>3, <1>4, <1>5, CacheSame DEF Inv, cacheVars, listenVars, TinyAlive, TypeOK, ProxyTypes
  <2>7. conn' \in [Conns -> ConnTypes]
    BY <1>3, <1>5 DEF NetTypes
  <2>8. ~ WaitsForProxy(c)' /\ ~ WaitsForTiny(c)' /\ (CliOK(c)' => Inv')
    BY <1>1, <1>2, <1>3, <1>4, <1>5, <2>3, <2>4, <2>5, <2>6, <2>7, NotConnected, AnswerStep
  <2>9. CliOK(c)'
    BY <1>3, <1>4, <1>5, <2>8, ClientServed DEF Open, clientVars
  <2> QED BY <2>8, <2>9
<1>6. CASE ~ (AtEOF(c, "far") /\ UNCHANGED <<conn, cacheVars>> /\ worker' = [worker EXCEPT ![w].pc = "close"])
  <2>1. PICK line, url, l, hit, found : /\ line = NextLine(c, "far") /\ url = line[2] /\ l = list
                                       /\ hit = Cache!Hit(list, url) /\ found = list[Cache!Find(list, url)].data
    OBVIOUS
  <2>2. PICK pc, todo : /\ pc = IF hit \/ line[1] # "GET" THEN "reply" ELSE "parse"
                        /\ todo = IF hit THEN found ELSE IF line[1] # "GET" THEN Page ELSE <<>>
    OBVIOUS
  <2>3. /\ Rio_readlineb(c, "far") /\ Cache!lru_get(url)
        /\ worker' = [worker EXCEPT ![w].pc = pc, ![w].todo = todo, ![w].buf = line, ![w].url = url]
    BY <1>2, <1>6, <2>1, <2>2 DEF ReadRequest
  <2>4. /\ conn' \in [Conns -> ConnTypes] /\ Only(c) /\ conn[c].up # <<>>
        /\ conn'[c].down = conn[c].down /\ conn'[c].closed = conn[c].closed
        /\ line = Head(conn[c].up) /\ line \in Lines
    BY <1>3, <2>1, <2>3, ReadFar
  <2>5. conn'[w] = conn[w] /\ \A y \in Conns \ {w, c} : conn'[y] = conn[y]
    BY <1>3, <2>4 DEF Only
  <2>6. Silent(c) /\ line = Asked(c) /\ url = Url(c)
    <3>1. WaitsForProxy(c)
      BY <1>1, <1>2 DEF WaitsForProxy
    <3>2. Silent(c) /\ line = Asked(c)
      BY <1>3, <2>4, <3>1 DEF CliOK, AskedOK, Unread
    <3> QED BY <2>1, <3>2 DEF Url
  <2>7. /\ Asked(c)' = Asked(c) /\ Url(c)' = Url(c) /\ Uri(c)' = Uri(c) /\ RightAnswers(c)' = RightAnswers(c)
    BY <1>4, SameRequest DEF clientVars
  <2>8. client' = client /\ Silent(c)' /\ (TinyAlive' <=> TinyAlive)
    BY <1>4, <2>4, <2>6 DEF clientVars, Silent, listenVars, TinyAlive
  <2>9. worker' = [worker EXCEPT ![w] = [worker[w] EXCEPT !.pc = pc, !.todo = todo, !.buf = line, !.url = url]]
    <3>1. \A S : worker \in [Workers -> S] =>
            [worker EXCEPT ![w].pc = pc, ![w].todo = todo, ![w].buf = line, ![w].url = url]
              = [worker EXCEPT ![w] = [worker[w] EXCEPT !.pc = pc, !.todo = todo, !.buf = line, !.url = url]]
      OBVIOUS
    <3>2. worker \in [Workers -> WorkerTypes]
      BY <1>3 DEF TypeOK, ProxyTypes
    <3> QED BY <2>3, <3>1, <3>2, Zenon
  <2>10. worker'[w] = [worker[w] EXCEPT !.pc = pc, !.todo = todo, !.buf = line, !.url = url]
         /\ worker' = [worker EXCEPT ![w] = worker'[w]]
    BY <1>1, <1>3, <2>9, WorkerIs
  <2>11. PICK S : S = {e \in [key : AllUrls, data : Seq(Lines)] : EntryOK(e)}
    OBVIOUS
  <2>12. l \in Seq(S)
    BY <1>3, <2>1, <2>11, GoodList DEF Inv
  <2>13. ASSUME hit
         PROVE  \E a \in RightAnswers(c) : /\ found \in Seq(Lines) /\ a \in Seq(Lines) /\ Piece(found, 0, a)
                                           /\ TinyAlive => Len(found) = Len(a)
    <3>1. Cache!Hit(l, url) /\ found = l[Cache!Find(l, url)].data
      BY <2>1, <2>13
    <3>2. PICK e : e = l[Cache!Find(l, url)]
      OBVIOUS
    <3>3. e.key = url /\ e \in S /\ found = e.data
      BY <2>12, <3>1, <3>2, Found
    <3>4. EntryOK(e) /\ found \in Seq(Lines)
      BY <2>11, <3>3
    <3>5. PICK a : a = Cut(Answer(Path(url)))
      OBVIOUS
    <3>6. /\ <<url.host, url.port>> \in DOMAIN Servers /\ Servers[<<url.host, url.port>>] = "tiny"
          /\ Piece(found, 0, a) /\ (TinyAlive => Len(found) = Len(Answer(Path(url))))
      BY <3>3, <3>4, <3>5 DEF EntryOK
    <3>7. Server(c) = "tiny" /\ a = Cut(Answer(Uri(c)))
      BY <1>3, <2>6, <3>5, <3>6 DEF Server
    <3>8. a \in RightAnswers(c) /\ a \in Seq(Lines) /\ Len(a) = Len(Answer(Path(url)))
      BY <1>3, <2>6, <3>7, RightOnes, SomeLines, AnswersTyped
    <3> QED BY <3>4, <3>6, <3>8
  <2>14. Page \in Seq(Lines) /\ Piece(Page, 0, Page) /\ <<>> \in Seq(Lines)
    <3>1. Page \in Seq(Lines)
      BY SomeLines, AnswersTyped
    <3> QED BY <3>1, WholePiece
  <2>15. pc = "reply" => \E a \in RightAnswers(c) : /\ todo \in Seq(Lines) /\ a \in Seq(Lines)
                                                   /\ Piece(todo, 0, a) /\ (TinyAlive => Len(todo) = Len(a))
    <3>1. CASE hit
      BY <2>2, <2>13, <3>1
    <3>2. CASE ~ hit /\ line[1] # "GET"
      <4>1. todo = Page /\ Page \in RightAnswers(c)
        BY <1>3, <2>2, <2>6, <3>2, RightOnes DEF MayRefuse
      <4> QED BY <2>14, <4>1
    <3> QED BY <2>2, <3>1, <3>2
  <2>16. todo \in Seq(Lines) /\ pc \in {"reply", "parse"} /\ (pc = "parse" => line[1] = "GET")
    BY <2>2, <2>14, <2>15
  <2>17. worker'[w] \in WorkerTypes
    <3>1. url \in AllUrls /\ pc \in WorkerPCs
      BY <1>3, <2>6, <2>16 DEF WorkerPCs
    <3> QED BY <1>1, <2>4, <2>10, <2>16, <3>1 DEF WorkerTypes
  <2>18. worker'[w].pc = pc /\ worker'[w].fd = c /\ worker'[w].todo = todo /\ worker'[w].buf = line
         /\ worker'[w].url = url
    BY <1>1, <1>2, <2>10 DEF WorkerTypes
  <2>19. RequestOK(w)'
    BY <2>6, <2>7, <2>8, <2>16, <2>18 DEF RequestOK, ConnectedPCs, EarlyPCs, DownloadPCs
  <2>20. ReplyOK(w)'
    <3>1. CASE pc = "reply"
      <4>1. PICK a \in RightAnswers(c) : /\ todo \in Seq(Lines) /\ a \in Seq(Lines)
                                        /\ Piece(todo, 0, a) /\ (TinyAlive => Len(todo) = Len(a))
        BY <2>15, <3>1
      <4>2. Sent(c, a)' /\ Given(c)' = 0
        BY <1>3, <2>4, <2>6, <2>8, <4>1, WholeAnswer
      <4>3. Piece(todo, Given(c)', a)
        BY <4>1, <4>2
      <4>4. TinyAlive' => Given(c)' + Len(todo) = Len(a)
        <5>1. Len(todo) \in Nat
          BY <4>1
        <5> QED BY <2>8, <4>1, <4>2, <5>1
      <4> QED BY <2>7, <2>18, <3>1, <4>2, <4>3, <4>4 DEF ReplyOK, Sent, Given
    <3>2. CASE pc = "parse"
      BY <2>18, <3>2 DEF ReplyOK
    <3> QED BY <2>16, <3>1, <3>2
  <2>21. list' \in Seq(S) /\ size' \in Int
    <3>1. list' = Cache!Touch(l, url) /\ size' = size /\ size \in Int
      BY <1>3, <2>1, <2>3 DEF Cache!lru_get, TypeOK, ProxyTypes
    <3> QED BY <2>12, <3>1, KeptInCache
  <2>22. CacheOK' /\ list' \in Seq([key : AllUrls, data : Seq(Lines)])
    BY <2>8, <2>11, <2>21, CacheGoesOn
  <2>23. ~ WaitsForProxy(c)' /\ ~ WaitsForTiny(c)' /\ (CliOK(c)' => Inv')
    BY <1>1, <1>2, <1>3, <1>4, <2>4, <2>5, <2>10, <2>16, <2>17, <2>18, <2>19, <2>20, <2>21, <2>22,
       NotConnected, AnswerStep
  <2>24. CliOK(c)'
    BY <1>3, <1>4, <2>4, <2>8, <2>23, ClientServed DEF Open, clientVars
  <2> QED BY <2>23, <2>24
<1> QED BY <1>5, <1>6

-----------------------------------------------------------------------------
(* The buffer of connections *)

\* Connections go from one place of the proxy to another, and nothing else happens.
LEMMA HandedOn ==
  ASSUME Inv, ~ crashed, UNCHANGED <<conn, dead, tiny, clientVars, list, size>>,
         backlog'["tiny"] = backlog["tiny"], TypeOK', ProxyPlaces',
         \A w \in Workers : \/ worker'[w] = worker[w]
                            \/ worker[w].pc = "take" /\ worker'[w].pc = "request",
         \A c \in Clients : WaitsForProxy(c)' => WaitsForProxy(c)
  PROVE  Inv'
<1>1. /\ \A y \in Conns : KeepsTiny(y) /\ KeepsConn(y)
      /\ (TinyAlive' <=> TinyAlive) /\ ~ crashed' /\ request' = request /\ client' = client
  BY DEF KeepsTiny, TinyAlive, KeepsConn, Open, crashed, clientVars
<1>2. TinyAlive => TinyPlaces'
  <2> SUFFICES ASSUME TinyAlive PROVE TinyPlaces'
    OBVIOUS
  <2>1. TinyPlaces
    BY DEF Inv, Places
  <2>2. \A x \in Conns : InTiny(x)' <=> InTiny(x)
    BY DEF InTiny
  <2>3. \A w \in Workers : worker[w].pc \in ConnectedPCs => worker'[w].pc \in ConnectedPCs
    BY DEF ConnectedPCs, EarlyPCs, DownloadPCs
  <2> QED BY <1>1, <2>1, <2>2, <2>3 DEF TinyPlaces
<1>3. Places'
  BY <1>1, <1>2 DEF Inv, Places
<1>4. ASSUME NEW c \in Clients PROVE CliOK(c)'
  <2>1. c \in Conns /\ CliOK(c)
    BY ConnsFacts DEF Inv, ClientsOK, CliOK
  <2>2. WaitsForTiny(c)' => WaitsForTiny(c)
    BY <1>1, <2>1 DEF WaitsForTiny, KeepsTiny
  <2> QED BY <1>1, <2>1, <2>2, ClientSame
<1>5. ASSUME NEW w \in Workers PROVE WorkerOK(w)' /\ GetsFile(w)'
  <2>1. w \in Conns /\ WorkerOK(w) /\ GetsFile(w)
    BY ConnsFacts DEF Inv, WorkersOK
  <2>2. GetsFile(w)'
    BY <1>1, <2>1, GetsFileSame
  <2>3. CASE worker'[w] = worker[w]
    <3>1. KeepsSent(worker[w].fd)
      <4>1. PICK c : c = worker[w].fd
        OBVIOUS
      <4>2. KeepsSent(c)
        BY <1>1, ConnKeepsSent DEF Open
      <4> QED BY <4>1, <4>2
    <3> QED BY <1>1, <2>1, <2>2, <2>3, <3>1, WorkerSame
  <2>4. CASE worker'[w].pc = "request"
    BY <2>2, <2>4 DEF WorkerOK, FromTiny, FromHung, ConnectedPCs, EarlyPCs, DownloadPCs
  <2> QED BY <2>3, <2>4
<1>6. CacheOK'
  BY <1>1, CacheSame DEF Inv
<1> QED BY <1>1, <1>3, <1>4, <1>5, <1>6 DEF Inv, ClientsOK, WorkersOK, CliOK

\* The invariant, when main puts a connection into the buffer.
LEMMA StepProxyAccept ==
  ASSUME Inv, ProxyAccept, UNCHANGED <<tiny, clientVars>>
  PROVE  Inv'
<1>1. /\ ~ crashed /\ Accept("proxy") /\ NetTypes /\ TypeOK /\ ProxyPlaces
      /\ UNCHANGED <<conn, dead, worker, list, size, tiny, clientVars, request, client>>
  BY DEF ProxyAccept, Inv, TypeOK, Places, cacheVars, clientVars
<1>2. PICK x : x = Head(backlog["proxy"])
  OBVIOUS
<1>3. /\ backlog' \in [{"proxy", "tiny"} -> Seq(Conns)] /\ x \in Elems(backlog["proxy"]) /\ x \in Conns
      /\ Elems(backlog'["proxy"]) = Elems(backlog["proxy"]) \ {x} /\ OnceEach(backlog'["proxy"])
      /\ backlog'["tiny"] = backlog["tiny"]
  BY <1>1, <1>2, Accepts DEF ProxyPlaces
<1>4. queue' = Append(queue, x) /\ queue \in Seq(Conns) /\ x \notin Elems(queue) /\ OnceEach(queue)
  BY <1>1, <1>2, <1>3 DEF ProxyAccept, ProxyPlaces, TypeOK, ProxyTypes
<1>5. Elems(queue') = Elems(queue) \cup {x} /\ queue' \in Seq(Conns) /\ OnceEach(queue')
  BY <1>3, <1>4, AddLast
<1>6. TypeOK'
  BY <1>1, <1>3, <1>5 DEF TypeOK, NetTypes, ProxyTypes, OtherTypes
<1>7. Elems(backlog'["proxy"]) \cup Elems(queue') = Elems(backlog["proxy"]) \cup Elems(queue)
  BY <1>3, <1>5
<1>8. \A y : InProxy(y)' <=> InProxy(y)
  BY <1>1, <1>3, <1>5 DEF InProxy
<1>9. ProxyPlaces'
  <2>1. Elems(backlog'["proxy"]) \cap Elems(queue') = {}
    BY <1>1, <1>3, <1>5 DEF ProxyPlaces
  <2> QED BY <1>1, <1>3, <1>5, <1>7, <1>8, <2>1 DEF ProxyPlaces
<1>10. \A c \in Clients : WaitsForProxy(c)' => WaitsForProxy(c)
  BY <1>1, <1>7 DEF WaitsForProxy
<1> QED BY <1>1, <1>3, <1>6, <1>9, <1>10, HandedOn

\* The invariant, when a worker takes a connection out of the buffer.
LEMMA StepSbufRemove ==
  ASSUME Inv, NEW w \in Workers, sbuf_remove(w), UNCHANGED <<tiny, clientVars>>
  PROVE  Inv'
<1>1. /\ ~ crashed /\ worker[w].pc = "take" /\ NetTypes /\ TypeOK /\ ProxyPlaces /\ worker[w] \in WorkerTypes
      /\ UNCHANGED <<conn, dead, backlog, list, size, tiny, clientVars, request, client>>
      /\ queue # <<>> /\ queue' = Tail(queue) /\ queue \in Seq(Conns) /\ OnceEach(queue)
  BY DEF sbuf_remove, At, Inv, TypeOK, ProxyTypes, Places, ProxyPlaces, cacheVars, clientVars, netVars, listenVars
<1>2. PICK x : x = Head(queue)
  OBVIOUS
<1>3. x \in Conns /\ x \in Elems(queue) /\ Elems(queue') = Elems(queue) \ {x} /\ OnceEach(queue')
      /\ queue' \in Seq(Conns)
  BY <1>1, <1>2, TakeHead, HeadTail
<1>4. worker' = [worker EXCEPT ![w] = [worker[w] EXCEPT !.pc = "request", !.fd = x]]
  BY <1>1, <1>2 DEF sbuf_remove, TypeOK, ProxyTypes
<1>5. worker'[w] = [worker[w] EXCEPT !.pc = "request", !.fd = x] /\ worker' = [worker EXCEPT ![w] = worker'[w]]
  BY <1>1, <1>4, WorkerIs
<1>6. x \in Clients /\ x # "none" /\ worker[w].fd = "none" /\ x \notin Elems(backlog["proxy"])
      /\ \A v \in Workers : worker[v].fd # x
  BY <1>1, <1>3, ConnsFacts DEF ProxyPlaces, InProxy
<1>7. worker'[w] \in WorkerTypes /\ worker'[w].pc = "request" /\ worker'[w].fd = x
  BY <1>1, <1>5, <1>6 DEF WorkerTypes, WorkerPCs
<1>8. TypeOK' /\ \A v \in Workers \ {w} : worker'[v] = worker[v]
  BY <1>1, <1>3, <1>5, <1>7 DEF TypeOK, NetTypes, ProxyTypes, OtherTypes
<1>9. \A y \in Conns : InProxy(y)' <=> InProxy(y)
  BY <1>1, <1>3, <1>6, <1>7, <1>8, ConnsFacts DEF InProxy
<1>10. ProxyPlaces'
  <2>1. \A v \in Workers : /\ worker'[v].fd \notin Elems(backlog'["proxy"]) \cup Elems(queue')
                           /\ (worker'[v].fd = "none") <=> (worker'[v].pc = "take")
                           /\ \A u \in Workers \ {v} : worker'[u].fd = worker'[v].fd => worker'[v].fd = "none"
    BY <1>1, <1>3, <1>6, <1>7, <1>8 DEF ProxyPlaces
  <2> QED BY <1>1, <1>3, <1>9, <2>1 DEF ProxyPlaces
<1>11. ASSUME NEW c \in Clients, WaitsForProxy(c)' PROVE WaitsForProxy(c)
  <2>1. c \in Elems(backlog["proxy"]) \cup Elems(queue) \/ \E v \in Workers : worker'[v].fd = c /\ worker'[v].pc = "request"
    BY <1>1, <1>3, <1>11 DEF WaitsForProxy
  <2>2. ASSUME NEW v \in Workers, worker'[v].fd = c, worker'[v].pc = "request" PROVE WaitsForProxy(c)
    BY <1>1, <1>3, <1>7, <1>8, <2>2 DEF WaitsForProxy
  <2> QED BY <1>1, <2>1, <2>2 DEF WaitsForProxy
<1>12. \A v \in Workers : \/ worker'[v] = worker[v]
                          \/ worker[v].pc = "take" /\ worker'[v].pc = "request"
  BY <1>1, <1>7, <1>8
<1> QED BY <1>1, <1>8, <1>10, <1>11, <1>12, HandedOn

-----------------------------------------------------------------------------
(* The connection to a server *)

\* The invariant, when a worker connects to a server.
LEMMA StepOpenClientfd ==
  ASSUME Inv, NEW w \in Workers, Open_clientfd(w), UNCHANGED <<tiny, clientVars>>
  PROVE  Inv'
<1>1. /\ ~ crashed /\ worker[w].pc = "connect" /\ worker[w].pc \notin ConnectedPCs /\ worker[w] \in WorkerTypes
      /\ worker[w].pc \notin {"take", "request"} /\ TypeOK /\ NetTypes /\ w \in Conns
  BY ConnsFacts DEF Open_clientfd, At, Inv, TypeOK, ProxyTypes, EarlyPCs, DownloadPCs, ConnectedPCs
<1>2. PICK c : c = worker[w].fd
  OBVIOUS
<1>3. /\ c \in Clients /\ c \in Conns /\ c # w /\ request[c].to = "proxy" /\ "far" \notin conn[c].closed
      /\ client[c].state \notin {"new", "refused"} /\ WorkerOK(w) /\ CliOK(c)
      /\ Uri(c) \in DOMAIN Files /\ Uri(c) = Path(Url(c))
  BY <1>1, <1>2, Served
<1>4. UNCHANGED <<queue, list, size, tiny, request, client, garbled>>
  BY DEF Open_clientfd, cacheVars, clientVars
<1>5. PICK s : s = Servers[Address(w)]
  OBVIOUS
<1>6. /\ Address(w) \in DOMAIN Servers /\ s \notin dead /\ Connect(w, s) /\ s \in {"tiny", "hung"}
      /\ (worker[w].hostname # <<>> => worker[w].hostname[1] # "NUL")
  BY <1>5, ProxyAssumption DEF Open_clientfd, Reachable, Address
<1>7. /\ Url(c).scheme = "http" /\ Server(c) = s /\ worker[w].url = Full(Url(c)) /\ worker[w].uri = Uri(c)
      /\ Silent(c)
  <2>1. RequestOK(w)
    BY <1>1, <1>3 DEF WorkerOK
  <2>2. /\ Url(c).scheme = "http" /\ worker[w].hostname = Url(c).host /\ worker[w].port = Url(c).port
        /\ worker[w].url = Full(Url(c)) /\ worker[w].uri = Path(Url(c)) /\ Silent(c)
    BY <1>1, <1>2, <1>6, <2>1 DEF RequestOK
  <2> QED BY <1>3, <1>5, <1>6, <2>2 DEF Server, Address
<1>8. /\ conn' \in [Conns -> ConnTypes] /\ Only(w) /\ conn'[w] = Fresh /\ dead' = dead
      /\ backlog' \in [{"proxy", "tiny"} -> Seq(Conns)]
      /\ backlog'["proxy"] = backlog["proxy"]
      /\ backlog'["tiny"] = IF s = "tiny" THEN Append(backlog["tiny"], w) ELSE backlog["tiny"]
  BY <1>1, <1>6, Connects
<1>9. PICK line : line = GetLine(Uri(c))
  OBVIOUS
<1>10. worker' = [worker EXCEPT ![w] = [worker[w] EXCEPT !.pc = "line", !.seen = {}, !.buf = line]]
  <2>1. worker' = [worker EXCEPT ![w].pc = "line", ![w].seen = {}, ![w].buf = line]
    BY <1>7, <1>9 DEF Open_clientfd, GetLine
  <2>2. \A S : worker \in [Workers -> S] =>
          [worker EXCEPT ![w].pc = "line", ![w].seen = {}, ![w].buf = line]
            = [worker EXCEPT ![w] = [worker[w] EXCEPT !.pc = "line", !.seen = {}, !.buf = line]]
    OBVIOUS
  <2>3. worker \in [Workers -> WorkerTypes]
    BY <1>1 DEF TypeOK, ProxyTypes
  <2> QED BY <2>1, <2>2, <2>3, Zenon
<1>11. worker'[w] = [worker[w] EXCEPT !.pc = "line", !.seen = {}, !.buf = line]
       /\ worker' = [worker EXCEPT ![w] = worker'[w]]
  BY <1>1, <1>10, WorkerIs
<1>12. line \in Lines
  BY <1>3, <1>9, SomeLines
<1>13. /\ worker'[w] \in WorkerTypes /\ worker'[w].pc = "line" /\ worker'[w].fd = c /\ worker'[w].buf = line
       /\ worker'[w].url = worker[w].url /\ worker'[w].pc \in ConnectedPCs /\ worker'[w].pc \in EarlyPCs
  BY <1>1, <1>2, <1>11, <1>12 DEF WorkerTypes, WorkerPCs, ConnectedPCs, EarlyPCs
<1>14. TypeOK' /\ \A v \in Workers \ {w} : worker'[v] = worker[v]
  BY <1>1, <1>4, <1>8, <1>11, <1>13 DEF TypeOK, NetTypes, ProxyTypes, OtherTypes
<1>15. TinyAlive => ~ InTiny(w)
  BY <1>1, NotConnected
<1>16. (TinyAlive' <=> TinyAlive) /\ (~ crashed') /\ (s = "tiny" => TinyAlive)
  BY <1>1, <1>6, <1>8 DEF TinyAlive, crashed
<1>17. backlog["tiny"] \in Seq(Conns)
  BY <1>1 DEF NetTypes
<1>18. /\ s = "tiny" => Elems(backlog'["tiny"]) = Elems(backlog["tiny"]) \cup {w}
       /\ s # "tiny" => Elems(backlog'["tiny"]) = Elems(backlog["tiny"])
       /\ (OnceEach(backlog["tiny"]) /\ w \notin Elems(backlog["tiny"])) => OnceEach(backlog'["tiny"])
  BY <1>1, <1>8, <1>17, AddLast
<1>19. \A y \in Conns \ {w} : KeepsTiny(y)
  BY <1>4, <1>16, <1>18, <1>8 DEF KeepsTiny, TinyAlive
<1>20. \A y \in Conns \ {w} : conn'[y] = conn[y]
  BY <1>8 DEF Only
<1>21. /\ ProxyPlaces'
       /\ \A v \in Workers \ {w} : WorkerOK(v)' /\ GetsFile(v)'
       /\ \A d \in Clients \ {c} : CliOK(d)'
       /\ ~ WaitsForProxy(c)' /\ ~ WaitsForTiny(c)'
  <2>1. worker'[w].fd # "none" /\ worker'[w].pc # "take" /\ worker'[w].pc # "request" /\ "far" \notin conn'[c].closed
    BY <1>3, <1>13, <1>20, ConnsFacts
  <2> QED BY <1>1, <1>2, <1>3, <1>4, <1>8, <1>13, <1>14, <1>19, <1>20, <2>1, WorkerFrame
<1>22. TinyAlive => TinyPlaces'
  <2> SUFFICES ASSUME TinyAlive PROVE TinyPlaces'
    OBVIOUS
  <2>1. TinyPlaces /\ ~ InTiny(w) /\ ~ InTiny(c)
    BY <1>1, <1>2, <1>15, Served DEF Inv, Places
  <2>2. OnceEach(backlog'["tiny"]) /\ tiny'.fd \notin Elems(backlog'["tiny"])
    BY <1>4, <1>18, <2>1 DEF TinyPlaces, InTiny
  <2>3. \A x \in Conns : InTiny(x)' => InTiny(x) \/ x = w
    BY <1>4, <1>18 DEF InTiny
  <2>4. ASSUME NEW x \in Conns, InTiny(x)'
        PROVE  /\ "far" \notin conn'[x].closed
               /\ x \in Clients => request'[x].to = "tiny" /\ client'[x].state \notin {"new", "refused"}
               /\ x \in Workers /\ ~ crashed' => worker'[x].pc \in ConnectedPCs
    <3>1. CASE x = w
      BY <1>8, <1>13, <3>1, ConnsFacts, FreshFacts
    <3>2. CASE x # w
      BY <1>1, <1>4, <1>14, <1>20, <2>1, <2>3, <2>4, <3>2 DEF TinyPlaces
    <3> QED BY <3>1, <3>2
  <2> QED BY <1>4, <2>1, <2>2, <2>4 DEF TinyPlaces
<1>23. Places'
  BY <1>4, <1>16, <1>21, <1>22 DEF Inv, Places
<1>24. CliOK(c)' /\ KeepsSent(c)
  BY <1>3, <1>4, <1>20, <1>21, ClientServed DEF Open
<1>25. Silent(c)'
  BY <1>7, <1>24 DEF KeepsSent
<1>26. /\ Asked(c)' = Asked(c) /\ Url(c)' = Url(c) /\ Uri(c)' = Uri(c) /\ Server(c)' = Server(c)
  BY <1>4, SameRequest
<1>27. line = GetLine(Uri(c))'
  BY <1>9, <1>26 DEF GetLine
<1>28. RequestOK(w)' /\ ReplyOK(w)'
  <2>1. RequestOK(w)'
    BY <1>6, <1>7, <1>8, <1>9, <1>13, <1>25, <1>26, <1>27, FreshFacts DEF RequestOK, Open
  <2>2. ReplyOK(w)'
    BY <1>13 DEF ReplyOK
  <2> QED BY <2>1, <2>2
<1>29. FromTiny(w)'
  <2> SUFFICES ASSUME Server(c) = "tiny" PROVE FromTiny(w)'
    BY <1>13, <1>26 DEF FromTiny
  <2>1. PICK a \in Seq(Lines) : a = AnswerTo(line)
    BY <1>3, <1>9, GetAnswer, SomeLines, AnswersTyped
  <2>2. Piece(<<>>, 0, a)
    BY EmptyPiece, AnswersTyped
  <2>3. /\ w \in Elems(backlog'["tiny"]) /\ TinyAlive' /\ conn'[w].down = <<>> /\ conn'[w].up = <<>>
    BY <1>7, <1>8, <1>16, <1>18, FreshFacts
  <2>4. 0 + Len(conn'[w].down) = 0
    BY <2>3
  <2>5. Flow(w, 0, line)'
    BY <2>1, <2>2, <2>3, <2>4 DEF Flow, TinyAt, AnswerTo
  <2>6. GetLine(Uri(worker[w].fd))' = line
    BY <1>13, <1>27
  <2>7. worker'[w].pc \notin DownloadPCs
    BY <1>13 DEF DownloadPCs
  <2> QED BY <1>13, <2>3, <2>5, <2>6, <2>7 DEF FromTiny, Unread, Flow
<1>30. FromHung(w)'
  <2> SUFFICES ASSUME Server(c) = "hung" PROVE FromHung(w)'
    BY <1>13, <1>26 DEF FromHung
  <2>1. TinyAlive => ~ InTiny(w)'
    BY <1>4, <1>7, <1>15, <1>18 DEF InTiny
  <2> QED BY <1>8, <1>13, <1>16, <1>25, <2>1, FreshFacts DEF FromHung
<1>31. GetsFile(w)'
  BY <1>8, FreshFacts DEF GetsFile
<1>32. CacheOK'
  BY <1>4, <1>16, CacheSame DEF Inv
<1>33. ClientsOK' /\ WorkersOK'
  BY <1>21, <1>24, <1>28, <1>29, <1>30, <1>31 DEF ClientsOK, CliOK, WorkersOK, WorkerOK
<1> QED BY <1>14, <1>23, <1>32, <1>33 DEF Inv

\* The invariant, when the proxy dies and the kernel closes what it had open.
LEMMA StepProxyDies ==
  ASSUME Inv, NEW w \in Workers, ProxyDies(w), UNCHANGED <<tiny, clientVars>>
  PROVE  Inv'
<1>1. /\ ~ crashed /\ dead' = dead \cup {"proxy"} /\ TypeOK /\ NetTypes /\ ProxyPlaces
      /\ UNCHANGED <<backlog, queue, worker, list, size, garbled, tiny, request, client>>
  BY DEF ProxyDies, Inv, TypeOK, Places, proxyVars, cacheVars, clientVars
<1>2. PICK far : far = {x \in Clients : InProxy(x)}
  OBVIOUS
<1>3. CloseAll(Workers, far)
  <2>1. {x \in Clients : \/ \E v \in Workers : worker[v].fd = x
                         \/ \E i \in DOMAIN queue : queue[i] = x
                         \/ \E i \in DOMAIN backlog["proxy"] : backlog["proxy"][i] = x} = far
    BY <1>2 DEF InProxy, Elems
  <2> QED BY <2>1 DEF ProxyDies
<1>4. /\ conn' \in [Conns -> ConnTypes]
      /\ \A x \in Conns : /\ conn'[x].up = conn[x].up /\ conn'[x].down = conn[x].down
                          /\ ("near" \in conn'[x].closed) <=> ("near" \in conn[x].closed \/ x \in Workers)
                          /\ ("far" \in conn'[x].closed) <=> ("far" \in conn[x].closed \/ x \in far)
  BY <1>1, <1>3, ClosesAll
<1>5. crashed' /\ (TinyAlive' <=> TinyAlive) /\ dead \subseteq dead'
  BY <1>1 DEF crashed, TinyAlive
<1>6. TypeOK'
  BY <1>1, <1>4 DEF TypeOK, NetTypes, ProxyTypes, OtherTypes
<1>7. \A y \in Conns : KeepsTiny(y)
  BY <1>1, <1>5 DEF KeepsTiny, TinyAlive
<1>8. TinyAlive => TinyPlaces'
  <2> SUFFICES ASSUME TinyAlive PROVE TinyPlaces'
    OBVIOUS
  <2>1. TinyPlaces
    BY DEF Inv, Places
  <2>2. \A x \in Conns : InTiny(x)' <=> InTiny(x)
    BY <1>1 DEF InTiny
  <2>3. ASSUME NEW x \in Conns, InTiny(x) PROVE x \notin far /\ "far" \notin conn'[x].closed
    <3>1. x \notin far
      BY <1>1, <1>2, <2>1, <2>3 DEF TinyPlaces, ProxyPlaces
    <3> QED BY <1>4, <2>1, <2>3, <3>1 DEF TinyPlaces
  <2> QED BY <1>1, <1>5, <2>1, <2>2, <2>3 DEF TinyPlaces
<1>9. Places'
  BY <1>1, <1>5, <1>8 DEF Inv, Places
<1>10. ASSUME NEW c \in Clients PROVE CliOK(c)'
  <2>1. c \in Conns /\ c \notin Workers /\ CliOK(c)
    BY ConnsFacts DEF Inv, ClientsOK, CliOK
  <2>2. KeepsConn(c)
    BY <1>1, <1>2, <1>4, <1>5, <2>1 DEF KeepsConn, Open
  <2>3. ASSUME client[c].state \in {"new", "refused"} PROVE conn'[c] = conn[c]
    <3>1. c \notin far
      BY <1>1, <1>2, <2>1, <2>3 DEF ProxyPlaces
    <3>2. conn[c] \in ConnTypes /\ conn'[c] \in ConnTypes
      BY <1>1, <1>4, <2>1 DEF NetTypes
    <3>3. conn[c].closed = conn'[c].closed
      <4>1. /\ ("near" \in conn'[c].closed) <=> ("near" \in conn[c].closed)
            /\ ("far" \in conn'[c].closed) <=> ("far" \in conn[c].closed)
        BY <1>4, <2>1, <3>1
      <4>2. conn[c].closed \in SUBSET {"near", "far"} /\ conn'[c].closed \in SUBSET {"near", "far"}
        BY <3>2 DEF ConnTypes
      <4> QED BY <4>1, <4>2
    <3> QED BY <1>4, <2>1, <3>2, <3>3 DEF ConnTypes
  <2>4. ~ WaitsForProxy(c)'
    BY <1>5 DEF WaitsForProxy
  <2>5. WaitsForTiny(c)' => WaitsForTiny(c)
    BY <1>7, <2>1 DEF WaitsForTiny, KeepsTiny
  <2> QED BY <1>1, <1>5, <1>7, <2>1, <2>2, <2>3, <2>4, <2>5, ClientSame
<1>11. ASSUME NEW v \in Workers PROVE GetsFile(v)'
  BY <1>4, <1>7, ConnsFacts, GetsFileSame DEF Inv, WorkersOK
<1>12. CacheOK'
  BY <1>1, <1>5, CacheSame DEF Inv
<1> QED BY <1>5, <1>6, <1>9, <1>10, <1>11, <1>12 DEF Inv, ClientsOK, CliOK, WorkersOK

-----------------------------------------------------------------------------
(* The steps of a client *)

\* What a client does at its own connection.
LEMMA ClientFrame ==
  ASSUME Inv, NEW c \in Clients, client[c].state \in {"new", "open"},
         UNCHANGED <<request, tiny, queue, worker, list, size, dead>>,
         \A d \in Clients \ {c} : client'[d] = client[d], Only(c), TypeOK',
         \A y \in Conns \ {c} : \A s \in {"proxy", "tiny"} :
           y \in Elems(backlog'[s]) <=> y \in Elems(backlog[s]),
         KeepsSent(c), ProxyPlaces' \/ crashed, TinyPlaces' \/ ~ TinyAlive, CliOK(c)'
  PROVE  Inv'
<1>1. (TinyAlive' <=> TinyAlive) /\ (crashed' <=> crashed)
  BY DEF TinyAlive, crashed
<1>2. \A y \in Conns \ {c} : KeepsTiny(y) /\ KeepsConn(y) /\ conn'[y] = conn[y]
  BY <1>1 DEF KeepsTiny, KeepsConn, Only, Open
<1>3. Places'
  BY <1>1 DEF Inv, Places
<1>4. ASSUME NEW d \in Clients \ {c} PROVE CliOK(d)'
  <2>1. d \in Conns \ {c} /\ CliOK(d)
    BY ConnsFacts DEF Inv, ClientsOK, CliOK
  <2>2. WaitsForProxy(d)' => WaitsForProxy(d)
    BY <1>1, <2>1 DEF WaitsForProxy
  <2>3. WaitsForTiny(d)' => WaitsForTiny(d)
    BY <1>1, <2>1 DEF WaitsForTiny
  <2> QED BY <1>2, <2>1, <2>2, <2>3, ClientSame
<1>5. ASSUME NEW w \in Workers PROVE (~ crashed => WorkerOK(w)') /\ GetsFile(w)'
  <2>1. w \in Conns \ {c} /\ GetsFile(w) /\ (~ crashed => WorkerOK(w))
    BY ConnsFacts DEF Inv, WorkersOK
  <2>2. GetsFile(w)'
    BY <1>2, <2>1, GetsFileSame
  <2>3. ASSUME ~ crashed, worker[w].pc # "take" PROVE KeepsSent(worker[w].fd)
    <3>1. PICK d : d = worker[w].fd
      OBVIOUS
    <3>2. d \in Clients /\ d \in Conns
      BY <2>3, <3>1, Served
    <3>3. KeepsSent(d)
      BY <1>2, <3>2, ConnKeepsSent DEF Open
    <3> QED BY <3>1, <3>3
  <2>4. ~ crashed => WorkerOK(w)'
    BY <1>1, <1>2, <2>1, <2>3, WorkerSame
  <2> QED BY <2>2, <2>4
<1>6. CacheOK'
  BY <1>1, CacheSame DEF Inv
<1> QED BY <1>1, <1>3, <1>4, <1>5, <1>6 DEF Inv, ClientsOK, CliOK, WorkersOK

\* An open client goes on, or closes its connection.
LEMMA ClientStep ==
  ASSUME Inv, NEW c \in Clients, client[c].state = "open",
         UNCHANGED <<request, tiny, proxyVars, listenVars>>,
         NEW r \in ClientTypes, client' = [client EXCEPT ![c] = r], r.state \notin {"new", "refused"},
         conn' \in [Conns -> ConnTypes], Only(c),
         ("far" \in conn'[c].closed) <=> ("far" \in conn[c].closed),
         Open(c)' <=> r.state \notin {"done", "left"},
         r.state = "left" => request[c].leaves,
         r.state = "done" => "far" \in conn'[c].closed /\ conn'[c].down = <<>>,
         KeepsSent(c), AskedOK(c)'
  PROVE  Inv'
<1>1. c \in Conns /\ CliOK(c) /\ TypeOK /\ request' = request
  BY ConnsFacts DEF Inv, ClientsOK, CliOK
<1>2. client'[c] = r /\ \A d \in Clients \ {c} : client'[d] = client[d]
  BY <1>1 DEF TypeOK, OtherTypes
<1>3. /\ UNCHANGED <<request, tiny, queue, worker, list, size, dead, backlog>>
      /\ (TinyAlive' <=> TinyAlive)
  BY DEF proxyVars, listenVars, cacheVars, TinyAlive
<1>4. TypeOK'
  BY <1>1, <1>2, <1>3 DEF TypeOK, NetTypes, ProxyTypes, OtherTypes
<1>5. \A x \in Conns : /\ ("far" \in conn'[x].closed) <=> ("far" \in conn[x].closed)
                       /\ x \in Clients /\ client[x].state \notin {"new", "refused"}
                            => client'[x].state \notin {"new", "refused"}
                       /\ (InProxy(x)' <=> InProxy(x)) /\ (InTiny(x)' <=> InTiny(x))
  BY <1>2, <1>3 DEF Only, InProxy, InTiny
<1>6. ProxyPlaces' \/ crashed
  BY <1>3, <1>5 DEF Inv, Places, ProxyPlaces
<1>7. TinyPlaces' \/ ~ TinyAlive
  BY <1>3, <1>5 DEF Inv, Places, TinyPlaces, crashed
<1>8. ClientOK(c)'
  BY <1>2, <1>3 DEF ClientOK
<1>9. AnswerOK(c)'
  <2>1. PICK a \in RightAnswers(c) :
          /\ Sent(c, a)
          /\ "far" \in conn[c].closed /\ client[c].state # "left" /\ dead = {} => Given(c) = Len(a)
    BY <1>1 DEF CliOK, AnswerOK
  <2>2. Sent(c, a)' /\ Given(c)' = Given(c) /\ RightAnswers(c)' = RightAnswers(c)
    BY <1>1, <2>1, SameRequest DEF KeepsSent
  <2> QED BY <1>3, <2>1, <2>2 DEF AnswerOK
<1>10. DirectOK(c)'
  <2> SUFFICES ASSUME request[c].to = "tiny"
               PROVE  Sent(c, AnswerTo(Asked(c)))' /\ (Open(c)' => TinyAt(c, Given(c), Asked(c))')
    BY <1>1 DEF DirectOK
  <2>1. PICK k, line, a : k = Given(c) /\ line = Asked(c) /\ a = AnswerTo(Asked(c))
    OBVIOUS
  <2>2. Sent(c, a) /\ (Open(c) => TinyAt(c, k, line))
    BY <1>1, <2>1 DEF DirectOK, CliOK
  <2>3. line = Asked(c)'
    BY <1>1, <2>1, SameRequest
  <2>4. Sent(c, a)' /\ k = Given(c)' /\ a = AnswerTo(Asked(c))'
    BY <2>1, <2>2, <2>3 DEF KeepsSent, AnswerTo, Answer, Body
  <2>5. KeepsTiny(c)
    BY <1>3 DEF KeepsTiny
  <2>6. Open(c)' => TinyAt(c, k, line)'
    BY <2>2, <2>5, TinyAtSame DEF KeepsSent
  <2> QED BY <2>3, <2>4, <2>6 DEF Sent, TinyAt, TinyHas
<1> QED BY <1>2, <1>3, <1>4, <1>6, <1>7, <1>8, <1>9, <1>10, ClientFrame DEF CliOK

\* Who waits for a request has not closed the connection it waits for.
LEMMA WaitingHasOpen ==
  ASSUME Inv, NEW c \in Clients, WaitsForProxy(c) \/ WaitsForTiny(c)
  PROVE  "far" \notin conn[c].closed
BY ConnsFacts DEF Inv, Places, ProxyPlaces, TinyPlaces, WaitsForProxy, WaitsForTiny, InProxy, InTiny

\* Who waits for a process waits on, as long as proxy and Tiny do nothing.
LEMMA WaitsSame ==
  ASSUME UNCHANGED <<tiny, proxyVars, listenVars>>, NEW c
  PROVE  (WaitsForProxy(c) \/ WaitsForTiny(c))' => WaitsForProxy(c) \/ WaitsForTiny(c)
BY DEF WaitsForProxy, WaitsForTiny, proxyVars, listenVars, crashed, TinyAlive

\* The invariant, when a client sends a line of its request.
LEMMA StepClientSends ==
  ASSUME Inv, NEW c \in Clients, ClientSends(c), UNCHANGED <<request, tiny, proxyVars>>
  PROVE  Inv'
<1>1. /\ c \in Conns /\ TypeOK /\ NetTypes /\ client[c].state = "open" /\ client[c] \in ClientTypes
      /\ client[c].sent \in Nat /\ CliOK(c) /\ UNCHANGED listenVars /\ request \in Requests /\ request' = request
  BY ConnsFacts DEF ClientSends, Inv, TypeOK, OtherTypes, ClientTypes, ClientsOK, CliOK
<1>2. PICK n \in Nat : n = client[c].sent
  BY <1>1
<1>3. PICK line : line = request[c].lines[n + 1]
  OBVIOUS
<1>4. n < Len(request[c].lines) /\ Rio_writen(c, "near", line)
  BY <1>2, <1>3 DEF ClientSends
<1>5. line \in Lines /\ (n = 0 => line = Asked(c))
  <2>1. request[c].lines \in Seq(Lines) /\ Len(request[c].lines) \in Nat
    BY <1>1, AskedFacts
  <2>2. n + 1 \in 1 .. Len(request[c].lines)
    BY <1>4, <2>1
  <2> QED BY <1>3, <2>1, <2>2 DEF Asked
<1>6. PICK r : r = [client[c] EXCEPT !.sent = n + 1]
  OBVIOUS
<1>7. /\ r \in ClientTypes /\ r.state = "open" /\ r.got = client[c].got /\ r.sent = n + 1 /\ n + 1 # 0
      /\ client' = [client EXCEPT ![c] = r]
  <2>1. client' = [client EXCEPT ![c] = r]
    BY <1>1, <1>2, <1>6 DEF ClientSends, TypeOK, OtherTypes
  <2> QED BY <1>1, <1>6, <2>1 DEF ClientTypes
<1>8. client'[c] = r
  BY <1>1, <1>7 DEF TypeOK, OtherTypes
<1>9. /\ conn' \in [Conns -> ConnTypes] /\ Only(c)
      /\ conn'[c].down = conn[c].down /\ conn'[c].closed = conn[c].closed
      /\ "far" \notin conn[c].closed => conn'[c].up = Append(conn[c].up, line)
  BY <1>1, <1>4, <1>5, WriteNear
<1>10. Open(c)' <=> Open(c)
  BY <1>9 DEF Open
<1>11. KeepsSent(c)
  BY <1>7, <1>8, <1>9, <1>10, ConnKeepsSent
<1>12. AskedOK(c)'
  <2> SUFFICES ASSUME (WaitsForProxy(c) \/ WaitsForTiny(c))' PROVE Silent(c)' /\ Unread(c, client[c].sent = 0, Asked(c))'
    BY DEF AskedOK
  <2>1. WaitsForProxy(c) \/ WaitsForTiny(c)
    BY <1>1, WaitsSame
  <2>2. Silent(c) /\ Unread(c, n = 0, Asked(c)) /\ "far" \notin conn[c].closed
    BY <1>1, <1>2, <2>1, WaitingHasOpen DEF CliOK, AskedOK
  <2>3. conn[c].up \in Seq(Lines)
    BY <1>1, ConnFacts
  <2>4. /\ Append(conn[c].up, line) # <<>>
        /\ Head(Append(conn[c].up, line)) = IF conn[c].up = <<>> THEN line ELSE Head(conn[c].up)
    BY <1>5, <2>3, Appended
  <2>5. Silent(c)'
    BY <1>11, <2>2 DEF KeepsSent
  <2>6. conn'[c].up # <<>> /\ Head(conn'[c].up) = Asked(c) /\ client'[c].sent # 0 /\ Asked(c)' = Asked(c)
    BY <1>1, <1>5, <1>7, <1>8, <1>9, <2>2, <2>4, SameRequest DEF Unread
  <2> QED BY <2>5, <2>6 DEF Unread
<1>13. /\ r.state \notin {"new", "refused"} /\ (Open(c)' <=> r.state \notin {"done", "left"})
       /\ r.state # "left" /\ r.state # "done"
  BY <1>1, <1>7, <1>10 DEF CliOK, ClientOK
<1> QED BY <1>1, <1>7, <1>9, <1>11, <1>12, <1>13, ClientStep

\* The invariant, when a client reads a line.
LEMMA StepClientReads ==
  ASSUME Inv, NEW c \in Clients, ClientReads(c), UNCHANGED <<request, tiny, proxyVars>>
  PROVE  Inv'
<1>1. /\ c \in Conns /\ TypeOK /\ NetTypes /\ client[c].state = "open" /\ client[c] \in ClientTypes
      /\ client[c].got \in Seq(Lines) /\ CliOK(c) /\ UNCHANGED listenVars
  BY ConnsFacts DEF ClientReads, Inv, TypeOK, OtherTypes, ClientTypes, ClientsOK, CliOK
<1>2. PICK line, got, down : line = NextLine(c, "near") /\ got = client[c].got /\ down = conn[c].down
  OBVIOUS
<1>3. /\ conn' \in [Conns -> ConnTypes] /\ Only(c) /\ down # <<>>
      /\ conn'[c].up = conn[c].up /\ conn'[c].closed = conn[c].closed
      /\ conn'[c].down = Tail(down) /\ line = Head(down) /\ line \in Lines
  BY <1>1, <1>2, ReadNear DEF ClientReads
<1>4. PICK r : r = [client[c] EXCEPT !.got = Append(got, line)]
  OBVIOUS
<1>5. got \in Seq(Lines) /\ Append(got, line) \in Seq(Lines) /\ Len(Append(got, line)) = Len(got) + 1
      /\ Len(got) \in Nat /\ down \in Seq(Lines)
  BY <1>1, <1>2, <1>3, Appended, ConnFacts
<1>6. /\ r \in ClientTypes /\ r.state = "open" /\ r.got = Append(got, line)
      /\ client' = [client EXCEPT ![c] = r]
  <2>1. client' = [client EXCEPT ![c] = r]
    BY <1>1, <1>2, <1>4 DEF ClientReads, TypeOK, OtherTypes
  <2> QED BY <1>1, <1>4, <1>5, <2>1 DEF ClientTypes
<1>7. client'[c] = r
  BY <1>1, <1>6 DEF TypeOK, OtherTypes
<1>8. Open(c)' <=> Open(c)
  BY <1>3 DEF Open
<1>9. Len(down) > 0 /\ Len(Tail(down)) = Len(down) - 1 /\ Len(down) \in Nat
  BY <1>3, <1>5, HeadTail
<1>10. Given(c)' = Given(c)
  <2>1. Given(c) = Len(got) + Len(down)
    BY <1>2 DEF Given
  <2>2. Given(c)' = Len(Append(got, line)) + Len(Tail(down))
    BY <1>3, <1>6, <1>7 DEF Given
  <2>3. \A m, n \in Nat : m > 0 => (n + 1) + (m - 1) = n + m
    OBVIOUS
  <2>4. (Len(got) + 1) + (Len(down) - 1) = Len(got) + Len(down)
    BY <1>5, <1>9, <2>3, Zenon
  <2> QED BY <1>5, <1>9, <2>1, <2>2, <2>4, Zenon
<1>11. ASSUME NEW a, Sent(c, a) PROVE Sent(c, a)'
  <2>1. Piece(got, 0, a) /\ Piece(down, Len(got), a)
    BY <1>2, <1>11 DEF Sent
  <2>2. PICK k \in Nat : k = Len(got)
    BY <1>5
  <2>3. /\ Head(down) = down[1] /\ \A i \in 1 .. Len(down) - 1 : Tail(down)[i] = down[i + 1]
    BY <1>3, <1>5, HeadTail
  <2>4. Piece(Tail(down), k + 1, a)
    <3>1. k + Len(down) =< Len(a) /\ \A i \in 1 .. Len(down) : down[i] = a[k + i]
      BY <2>1, <2>2 DEF Piece
    <3>2. PICK m \in Nat : m = Len(down) /\ m > 0 /\ Len(Tail(down)) = m - 1
      BY <1>9
    <3>3. (k + 1) + (m - 1) = k + m
      OBVIOUS
    <3>4. ASSUME NEW i \in 1 .. m - 1 PROVE Tail(down)[i] = a[(k + 1) + i]
      <4>1. i + 1 \in 1 .. m /\ (k + 1) + i = k + (i + 1)
        BY <3>2
      <4> QED BY <2>3, <3>1, <3>2, <4>1
    <3> QED BY <3>1, <3>2, <3>3, <3>4 DEF Piece
  <2>5. /\ Append(got, line)[k + 1] = line /\ \A i \in 1 .. k : Append(got, line)[i] = got[i]
    BY <1>3, <1>5, <2>2, Appended
  <2>6. Piece(Append(got, line), 0, a)
    <3>1. line = a[k + 1] /\ k + 1 =< Len(a)
      BY <1>3, <1>9, <2>1, <2>2, <2>3 DEF Piece
    <3>2. ASSUME NEW i \in 1 .. k PROVE got[i] = a[i]
      <4>1. 0 + i = i
        OBVIOUS
      <4> QED BY <2>1, <2>2, <4>1 DEF Piece
    <3>3. ASSUME NEW i \in 1 .. k + 1 PROVE Append(got, line)[i] = a[0 + i]
      <4>1. 0 + i = i /\ (i = k + 1 \/ i \in 1 .. k)
        OBVIOUS
      <4> QED BY <2>5, <3>1, <3>2, <4>1
    <3>4. Len(Append(got, line)) = k + 1 /\ 0 + (k + 1) = k + 1
      BY <1>5, <2>2
    <3> QED BY <3>1, <3>3, <3>4 DEF Piece
  <2> QED BY <1>3, <1>5, <1>6, <1>7, <2>2, <2>4, <2>6 DEF Sent
<1>12. KeepsSent(c)
  BY <1>2, <1>3, <1>8, <1>10, <1>11 DEF KeepsSent, Silent
<1>13. AskedOK(c)'
  <2>1. ~ (WaitsForProxy(c) \/ WaitsForTiny(c))
    BY <1>1, <1>2, <1>3 DEF CliOK, AskedOK, Silent
  <2> QED BY <1>1, <2>1, WaitsSame DEF AskedOK
<1>14. /\ r.state \notin {"new", "refused"} /\ (Open(c)' <=> r.state \notin {"done", "left"})
       /\ r.state # "left" /\ r.state # "done"
  BY <1>1, <1>6, <1>8 DEF CliOK, ClientOK
<1> QED BY <1>1, <1>3, <1>6, <1>12, <1>13, <1>14, ClientStep

\* The invariant, when a client closes, done or not.
LEMMA StepClientCloses ==
  ASSUME Inv, NEW c \in Clients, ClientIsDone(c) \/ ClientLeaves(c), UNCHANGED <<request, tiny, proxyVars>>
  PROVE  Inv'
<1>1. /\ c \in Conns /\ TypeOK /\ NetTypes /\ client[c].state = "open" /\ client[c] \in ClientTypes
      /\ CliOK(c) /\ UNCHANGED listenVars /\ Close(c, "near") /\ request' = request
  BY ConnsFacts DEF ClientIsDone, ClientLeaves, Inv, TypeOK, OtherTypes, ClientTypes, ClientsOK, CliOK
<1>2. PICK state : state = IF ClientIsDone(c) THEN "done" ELSE "left"
  OBVIOUS
<1>3. PICK r : r = [client[c] EXCEPT !.state = state]
  OBVIOUS
<1>4. client' = [client EXCEPT ![c] = r]
  BY <1>1, <1>2, <1>3 DEF ClientIsDone, ClientLeaves, TypeOK, OtherTypes
<1>5. /\ r \in ClientTypes /\ r.state = state /\ r.got = client[c].got /\ r.sent = client[c].sent
      /\ state \in {"done", "left"}
  BY <1>1, <1>2, <1>3 DEF ClientTypes
<1>6. client'[c] = r
  BY <1>1, <1>4 DEF TypeOK, OtherTypes
<1>7. /\ conn' \in [Conns -> ConnTypes] /\ Only(c)
      /\ conn'[c].up = conn[c].up /\ conn'[c].down = conn[c].down
      /\ conn'[c].closed = conn[c].closed \cup {"near"}
  BY <1>1, Closes
<1>8. ~ Open(c)' /\ (("far" \in conn'[c].closed) <=> ("far" \in conn[c].closed))
  BY <1>7 DEF Open
<1>9. KeepsSent(c)
  BY <1>5, <1>6, <1>7, <1>8, ConnKeepsSent
<1>10. state = "left" => request[c].leaves
  BY <1>2 DEF ClientLeaves
<1>11. state = "done" => "far" \in conn'[c].closed /\ conn'[c].down = <<>>
  BY <1>2, <1>7 DEF ClientIsDone, AtEOF, Available, PeerGone, Peer, In
<1>12. AskedOK(c)'
  <2> SUFFICES ASSUME (WaitsForProxy(c) \/ WaitsForTiny(c))' PROVE Silent(c)' /\ Unread(c, client[c].sent = 0, Asked(c))'
    BY DEF AskedOK
  <2>1. WaitsForProxy(c) \/ WaitsForTiny(c)
    BY <1>1, WaitsSame
  <2>2. Silent(c) /\ Unread(c, client[c].sent = 0, Asked(c))
    BY <1>1, <2>1 DEF CliOK, AskedOK
  <2> QED BY <1>1, <1>5, <1>6, <1>7, <1>9, <2>2, SameRequest DEF KeepsSent, Unread
<1> QED BY <1>1, <1>4, <1>5, <1>7, <1>8, <1>9, <1>10, <1>11, <1>12, ClientStep

\* The invariant, when a client connects or is refused.
LEMMA StepClientConnects ==
  ASSUME Inv, NEW c \in Clients, ClientConnects(c), UNCHANGED <<request, tiny, proxyVars>>
  PROVE  Inv'
<1>1. /\ c \in Conns /\ c \notin Workers /\ c # "none" /\ TypeOK /\ NetTypes
      /\ client[c].state = "new" /\ client[c] \in ClientTypes
      /\ CliOK(c) /\ ClientOK(c) /\ request' = request /\ request \in Requests
      /\ UNCHANGED <<request, tiny, queue, worker, list, size>>
  BY ConnsFacts DEF ClientConnects, Inv, TypeOK, OtherTypes, ClientTypes, ClientsOK, CliOK, proxyVars, cacheVars
<1>2. PICK s : s = request[c].to
  OBVIOUS
<1>3. PICK state : state = IF s \in dead THEN "refused" ELSE "open"
  OBVIOUS
<1>4. PICK r : r = [client[c] EXCEPT !.state = state]
  OBVIOUS
<1>5. client' = [client EXCEPT ![c] = r]
  BY <1>1, <1>2, <1>3, <1>4 DEF ClientConnects, TypeOK, OtherTypes
<1>6. /\ r \in ClientTypes /\ r.state = state /\ r.got = <<>> /\ r.sent = 0
      /\ state \in {"refused", "open"} /\ conn[c] = Fresh
  BY <1>1, <1>3, <1>4 DEF ClientTypes, ClientOK
<1>7. client'[c] = r /\ \A d \in Clients \ {c} : client'[d] = client[d]
  BY <1>1, <1>5 DEF TypeOK, OtherTypes
<1>8. s \in {"proxy", "tiny"}
  BY <1>1, <1>2, AskedFacts
<1>9. /\ conn' \in [Conns -> ConnTypes] /\ Only(c) /\ conn'[c] = Fresh /\ dead' = dead
      /\ backlog' \in [{"proxy", "tiny"} -> Seq(Conns)]
      /\ \A t \in {"proxy", "tiny"} : backlog'[t] = IF s = t /\ state = "open" THEN Append(backlog[t], c)
                                                     ELSE backlog[t]
  <2>1. CASE s \in dead
    <3>1. conn' = conn /\ backlog' = backlog /\ dead' = dead
      BY <1>2, <2>1 DEF ClientConnects, netVars, listenVars
    <3> QED BY <1>1, <1>3, <1>6, <2>1, <3>1 DEF NetTypes, Only
  <2>2. CASE s \notin dead
    <3>1. Connect(c, s)
      BY <1>2, <2>2 DEF ClientConnects
    <3> QED BY <1>1, <1>3, <2>2, <3>1, Connects
  <2> QED BY <2>1, <2>2
<1>10. conn' = conn
  <2>1. conn \in [Conns -> ConnTypes]
    BY <1>1 DEF NetTypes
  <2>2. \A x \in Conns : conn'[x] = conn[x]
    BY <1>6, <1>9 DEF Only
  <2> QED BY <1>9, <2>1, <2>2
<1>11. \A t \in {"proxy", "tiny"} :
         /\ s = t /\ state = "open" => Elems(backlog'[t]) = Elems(backlog[t]) \cup {c}
         /\ ~ (s = t /\ state = "open") => backlog'[t] = backlog[t]
         /\ OnceEach(backlog[t]) /\ c \notin Elems(backlog[t]) => OnceEach(backlog'[t])
  <2> SUFFICES ASSUME NEW t \in {"proxy", "tiny"}
               PROVE  /\ s = t /\ state = "open" => Elems(backlog'[t]) = Elems(backlog[t]) \cup {c}
                      /\ ~ (s = t /\ state = "open") => backlog'[t] = backlog[t]
                      /\ OnceEach(backlog[t]) /\ c \notin Elems(backlog[t]) => OnceEach(backlog'[t])
    OBVIOUS
  <2>1. backlog[t] \in Seq(Conns)
    BY <1>1 DEF NetTypes
  <2>2. /\ Elems(Append(backlog[t], c)) = Elems(backlog[t]) \cup {c}
        /\ OnceEach(backlog[t]) /\ c \notin Elems(backlog[t]) => OnceEach(Append(backlog[t], c))
    BY <1>1, <2>1, AddLast
  <2> QED BY <1>9, <2>2
<1>12. TypeOK'
  BY <1>1, <1>5, <1>6, <1>9 DEF TypeOK, NetTypes, ProxyTypes, OtherTypes
<1>13. (TinyAlive' <=> TinyAlive) /\ (crashed' <=> crashed)
  BY <1>9 DEF TinyAlive, crashed
<1>14. /\ ~ crashed => ~ InProxy(c)
       /\ TinyAlive => ~ InTiny(c)
       /\ state = "open" => s \notin dead
  BY <1>1, <1>3 DEF Inv, Places, ProxyPlaces, TinyPlaces
<1>15. ~ crashed => ProxyPlaces'
  <2> SUFFICES ASSUME ~ crashed PROVE ProxyPlaces'
    OBVIOUS
  <2>1. ProxyPlaces /\ ~ InProxy(c)
    BY <1>14 DEF Inv, Places
  <2>2. CASE ~ (s = "proxy" /\ state = "open")
    <3>1. backlog'["proxy"] = backlog["proxy"]
      BY <1>11, <2>2
    <3>2. \A x \in Conns : InProxy(x)' <=> InProxy(x)
      BY <1>1, <3>1 DEF InProxy
    <3>3. \A x \in Conns : InProxy(x)' => /\ x \in Clients /\ request'[x].to = "proxy"
                                          /\ client'[x].state \notin {"new", "refused"}
                                          /\ "far" \notin conn'[x].closed
      BY <1>1, <1>7, <1>10, <2>1, <3>2 DEF ProxyPlaces
    <3> QED BY <1>1, <2>1, <3>1, <3>3 DEF ProxyPlaces
  <2>3. CASE s = "proxy" /\ state = "open"
    <3>1. Elems(backlog'["proxy"]) = Elems(backlog["proxy"]) \cup {c} /\ OnceEach(backlog'["proxy"])
      BY <1>11, <2>1, <2>3 DEF ProxyPlaces, InProxy
    <3>2. \A x \in Conns : InProxy(x)' => InProxy(x) \/ x = c
      BY <1>1, <3>1 DEF InProxy
    <3>3. \A x \in Conns : InProxy(x)' => /\ x \in Clients /\ request'[x].to = "proxy"
                                          /\ client'[x].state \notin {"new", "refused"}
                                          /\ "far" \notin conn'[x].closed
      <4> SUFFICES ASSUME NEW x \in Conns, InProxy(x)'
                   PROVE  /\ x \in Clients /\ request'[x].to = "proxy"
                          /\ client'[x].state \notin {"new", "refused"}
                          /\ "far" \notin conn'[x].closed
        OBVIOUS
      <4>1. CASE x = c
        BY <1>1, <1>2, <1>6, <1>7, <1>9, <2>3, <4>1, FreshFacts
      <4>2. CASE x # c
        BY <1>1, <1>7, <1>10, <2>1, <3>2, <4>2 DEF ProxyPlaces
      <4> QED BY <4>1, <4>2
    <3>4. \A w \in Workers : worker[w].fd # c
      BY <2>1 DEF InProxy
    <3>5. Elems(backlog'["proxy"]) \cap Elems(queue') = {}
      BY <1>1, <2>1, <3>1 DEF ProxyPlaces, InProxy
    <3> QED BY <1>1, <2>1, <3>1, <3>3, <3>4, <3>5 DEF ProxyPlaces
  <2> QED BY <2>2, <2>3
<1>16. TinyAlive => TinyPlaces'
  <2> SUFFICES ASSUME TinyAlive PROVE TinyPlaces'
    OBVIOUS
  <2>1. TinyPlaces /\ ~ InTiny(c)
    BY <1>14 DEF Inv, Places
  <2>2. OnceEach(backlog'["tiny"]) /\ tiny'.fd \notin Elems(backlog'["tiny"])
    BY <1>1, <1>11, <2>1 DEF TinyPlaces, InTiny
  <2>3. \A x \in Conns : InTiny(x)' => InTiny(x) \/ (x = c /\ s = "tiny" /\ state = "open")
    BY <1>1, <1>11 DEF InTiny
  <2>4. ASSUME NEW x \in Conns, InTiny(x)'
        PROVE  /\ "far" \notin conn'[x].closed
               /\ x \in Clients => request'[x].to = "tiny" /\ client'[x].state \notin {"new", "refused"}
               /\ x \in Workers /\ ~ crashed' => worker'[x].pc \in ConnectedPCs
    <3>1. CASE x = c
      BY <1>1, <1>2, <1>6, <1>7, <1>9, <2>1, <2>3, <2>4, <3>1, FreshFacts
    <3>2. CASE x # c
      BY <1>1, <1>7, <1>10, <1>13, <2>1, <2>3, <2>4, <3>2 DEF TinyPlaces
    <3> QED BY <3>1, <3>2
  <2> QED BY <1>1, <2>1, <2>2, <2>4 DEF TinyPlaces
<1>17. KeepsSent(c)
  <2>1. client[c].got = <<>>
    BY <1>1 DEF ClientOK
  <2> QED BY <1>6, <1>7, <1>10, <2>1, ConnKeepsSent DEF Open
<1>18. ClientOK(c)'
  BY <1>6, <1>7, <1>9, FreshFacts DEF ClientOK, Open
<1>19. Silent(c)' /\ conn'[c].up = <<>> /\ client'[c].sent = 0 /\ "far" \notin conn'[c].closed
  BY <1>6, <1>7, <1>9, FreshFacts DEF Silent
<1>20. AskedOK(c)'
  BY <1>19 DEF AskedOK, Unread
<1>21. ASSUME NEW a \in Seq(Lines) PROVE Sent(c, a)' /\ Given(c)' = 0
  <2>1. Piece(<<>>, 0, a)
    BY EmptyPiece
  <2> QED BY <1>19, <2>1 DEF Sent, Given, Silent
<1>22. AnswerOK(c)'
  <2>1. \E a \in RightAnswers(c) : a \in Seq(Lines)
    BY <1>1, RightOnes
  <2> QED BY <1>1, <1>19, <1>21, <2>1, SameRequest DEF AnswerOK
<1>23. DirectOK(c)'
  <2> SUFFICES ASSUME s = "tiny", state = "open"
               PROVE  Sent(c, AnswerTo(Asked(c)))' /\ TinyAt(c, Given(c), Asked(c))'
    BY <1>1, <1>2, <1>6, <1>7 DEF DirectOK
  <2>1. PICK a, line : a = AnswerTo(line) /\ line = Asked(c)
    OBVIOUS
  <2>2. a \in Seq(Lines)
    BY <1>1, <1>2, <2>1, RightOnes
  <2>3. line = Asked(c)'
    BY <1>1, <2>1, SameRequest
  <2>4. a = AnswerTo(line)'
    BY <2>1 DEF AnswerTo
  <2>5. TinyAlive' /\ c \in Elems(backlog'["tiny"])
    BY <1>11, <1>13, <1>14 DEF TinyAlive
  <2> QED BY <1>21, <2>2, <2>3, <2>4, <2>5 DEF Sent, TinyAt
<1>24. \A y \in Conns \ {c} : \A t \in {"proxy", "tiny"} : y \in Elems(backlog'[t]) <=> y \in Elems(backlog[t])
  BY <1>11
<1> QED BY <1>1, <1>7, <1>9, <1>12, <1>15, <1>16, <1>17, <1>18, <1>20, <1>22, <1>23, <1>24, ClientFrame DEF CliOK

-----------------------------------------------------------------------------
(* The steps of Tiny *)

\* If x still waits for Tiny, line is what Tiny will read there.
Reads(x, line) == WaitsForTiny(x) /\ conn[x].up # <<>> => Head(conn[x].up) = line

\* A step of Tiny at the connection x.
LEMMA TinyServes ==
  ASSUME Inv, TinyAlive, NEW x \in Conns, InTiny(x), UNCHANGED <<proxyVars, clientVars>>,
         dead' = dead, backlog'["proxy"] = backlog["proxy"], TypeOK', TinyPlaces',
         Only(x), conn'[x].closed \ {"far"} = conn[x].closed,
         ~ Open(x) => conn'[x].down = conn[x].down,
         tiny.fd \in {x, "none"}, tiny'.fd \in {x, "none"}, tiny'.pc # "exit",
         \A y \in Conns \ {x} : y \in Elems(backlog'["tiny"]) <=> y \in Elems(backlog["tiny"]),
         WaitsForTiny(x)' => WaitsForTiny(x) /\ conn'[x] = conn[x],
         \A line : Open(x) /\ Reads(x, line) /\ AnswerTo(line) \in Answers => KeepsFlow(x, line)
  PROVE  Inv'
<1>1. /\ (TinyAlive' <=> TinyAlive) /\ (crashed' <=> crashed) /\ TypeOK /\ NetTypes /\ TinyPlaces
      /\ UNCHANGED <<queue, worker, list, size, request, client>> /\ request \in Requests
      /\ tiny.pc # "exit" /\ "far" \notin conn[x].closed
      /\ (Open(x)' <=> Open(x)) /\ conn[x].closed \subseteq {"near", "far"}
  BY ConnFacts DEF TinyAlive, crashed, Inv, TypeOK, OtherTypes, Places, TinyPlaces, proxyVars, cacheVars, clientVars, Open
<1>2. \A y \in Conns \ {x} : KeepsTiny(y) /\ KeepsConn(y) /\ conn'[y] = conn[y]
  BY <1>1, ConnsFacts DEF KeepsTiny, KeepsConn, Only, Open
<1>3. ASSUME ~ crashed PROVE ProxyPlaces' /\ ~ InProxy(x)
  <2>1. ProxyPlaces
    BY <1>3 DEF Inv, Places
  <2>2. ~ InProxy(x)
    BY <1>1, <2>1 DEF ProxyPlaces, TinyPlaces
  <2>3. \A y \in Conns : (InProxy(y)' <=> InProxy(y)) /\ (InProxy(y) => conn'[y] = conn[y])
    BY <1>1, <1>2, <2>2 DEF InProxy
  <2> QED BY <1>1, <2>1, <2>2, <2>3 DEF ProxyPlaces
<1>4. Places'
  BY <1>1, <1>3 DEF Inv, Places
<1>5. ASSUME NEW d \in Clients \ {x} PROVE CliOK(d)'
  <2>1. d \in Conns \ {x} /\ CliOK(d)
    BY ConnsFacts DEF Inv, ClientsOK, CliOK
  <2>2. WaitsForProxy(d)' => WaitsForProxy(d)
    BY <1>1 DEF WaitsForProxy
  <2>3. WaitsForTiny(d)' => WaitsForTiny(d)
    BY <1>2, <2>1 DEF WaitsForTiny, KeepsTiny
  <2> QED BY <1>1, <1>2, <2>1, <2>2, <2>3, ClientSame
<1>6. ASSUME NEW v \in Workers, ~ crashed, worker[v].pc # "take" PROVE KeepsSent(worker[v].fd)
  <2>1. PICK d : d = worker[v].fd
    OBVIOUS
  <2>2. d \in Clients /\ d \in Conns /\ d # x
    BY <1>6, <2>1, Served
  <2>3. KeepsSent(d)
    BY <1>1, <1>2, <2>2, ConnKeepsSent DEF Open
  <2> QED BY <2>1, <2>3
<1>7. ASSUME NEW v \in Workers \ {x} PROVE (~ crashed => WorkerOK(v)') /\ GetsFile(v)'
  <2>1. v \in Conns \ {x} /\ GetsFile(v) /\ (~ crashed => WorkerOK(v))
    BY ConnsFacts DEF Inv, WorkersOK
  <2>2. GetsFile(v)'
    BY <1>2, <2>1, GetsFileSame
  <2>3. ~ crashed => WorkerOK(v)'
    BY <1>1, <1>2, <1>6, <2>1, WorkerSame
  <2> QED BY <2>2, <2>3
<1>8. ASSUME x \in Workers PROVE (~ crashed => WorkerOK(x)') /\ GetsFile(x)'
  <2>1. GetsFile(x) /\ (~ crashed => WorkerOK(x))
    BY <1>8 DEF Inv, WorkersOK
  <2>2. GetsFile(x)'
    BY <1>1, <2>1 DEF GetsFile
  <2>3. ASSUME ~ crashed PROVE WorkerOK(x)'
    <3>1. worker[x].pc \in ConnectedPCs /\ worker[x].pc \notin {"take", "request"}
      BY <1>1, <1>8, <2>3 DEF TinyPlaces, ConnectedPCs, EarlyPCs, DownloadPCs
    <3>2. PICK c : c = worker[x].fd
      OBVIOUS
    <3>3. c \in Clients /\ Uri(c) \in DOMAIN Files
      BY <1>8, <2>3, <3>1, <3>2, Served
    <3>4. Open(x) /\ Server(c) = "tiny"
      BY <1>1, <2>1, <2>3, <3>1, <3>2 DEF WorkerOK, RequestOK, FromHung
    <3>5. PICK line : line = GetLine(Uri(c))
      OBVIOUS
    <3>6. Reads(x, line) /\ AnswerTo(line) \in Answers
      <4>1. WaitsForTiny(x) => Unread(x, worker[x].pc = "line", line)
        BY <2>1, <2>3, <3>1, <3>2, <3>4, <3>5 DEF WorkerOK, FromTiny
      <4>2. AnswerTo(line) = Answer(Uri(c))
        BY <3>5, GetAnswer
      <4> QED BY <3>3, <4>1, <4>2, SomeLines DEF Reads, Unread
    <3>7. KeepsFlow(x, line)
      BY <3>4, <3>6
    <3>8. \A l : l = GetLine(Uri(worker[x].fd)) /\ worker[x].pc \in ConnectedPCs => KeepsFlow(x, l)
      BY <3>2, <3>5, <3>7
    <3>9. Server(worker[x].fd) # "hung"
      BY <3>2, <3>4
    <3> QED BY <1>1, <1>6, <1>8, <2>1, <2>3, <3>8, <3>9, WorkerServed
  <2> QED BY <2>2, <2>3
<1>9. ASSUME x \in Clients PROVE CliOK(x)'
  <2>1. /\ CliOK(x) /\ request[x].to = "tiny" /\ client[x].state \notin {"new", "refused", "done"}
        /\ client[x] \in ClientTypes /\ client[x].got \in Seq(Lines) /\ Len(client[x].got) \in Nat
    BY <1>1, <1>9 DEF TinyPlaces, Inv, ClientsOK, CliOK, ClientOK, TypeOK, OtherTypes, ClientTypes
  <2>2. PICK line, a, n : line = Asked(x) /\ a = AnswerTo(line) /\ n = Len(client[x].got)
    OBVIOUS
  <2>3. a \in RightAnswers(x) /\ a \in Answers /\ n \in Nat
    BY <1>1, <1>9, <2>1, <2>2, RightOnes
  <2>4. line = Asked(x)' /\ RightAnswers(x)' = RightAnswers(x) /\ a = AnswerTo(line)'
    BY <1>1, <2>2, SameRequest DEF AnswerTo
  <2>5. Reads(x, line)
    BY <2>1, <2>2 DEF CliOK, AskedOK, Reads, Unread
  <2>6. Sent(x, a) /\ (Open(x) => TinyAt(x, Given(x), line))
    BY <2>1, <2>2 DEF CliOK, DirectOK
  <2>7. Open(x) => Flow(x, n, line) /\ Flow(x, n, line)'
    <3>1. Open(x) => Flow(x, n, line)
      BY <2>2, <2>6 DEF Flow, Sent, Given
    <3> QED BY <2>2, <2>3, <2>5, <3>1 DEF KeepsFlow
  <2>8. PICK k : k = Given(x)'
    OBVIOUS
  <2>9. Sent(x, a)' /\ (Open(x)' => TinyAt(x, k, line)')
    <3>1. CASE ~ Open(x)
      BY <1>1, <2>6, <3>1 DEF Sent
    <3>2. CASE Open(x)
      <4>1. k = n + Len(conn'[x].down)
        BY <1>1, <2>2, <2>8 DEF Given
      <4>2. Flow(x, n, line)'
        BY <2>7, <3>2
      <4>3. Piece(conn'[x].down, n, a) /\ TinyAt(x, k, line)'
        BY <2>4, <4>1, <4>2 DEF Flow
      <4> QED BY <1>1, <2>2, <2>6, <4>3 DEF Sent
    <3> QED BY <3>1, <3>2
  <2>10. DirectOK(x)'
    BY <2>2, <2>4, <2>8, <2>9 DEF DirectOK, Sent, TinyAt, TinyHas
  <2>11. AnswerOK(x)'
    <3>1. ASSUME "far" \in conn'[x].closed, client[x].state # "left" PROVE k = Len(a)
      <4>1. Open(x)
        BY <1>1, <2>1, <3>1 DEF CliOK, ClientOK
      <4>2. TinyAt(x, k, line)'
        BY <1>1, <2>9, <4>1
      <4>3. ~ InTiny(x)'
        BY <1>1, <3>1 DEF TinyPlaces
      <4> QED BY <1>1, <2>4, <4>2, <4>3 DEF TinyAt, InTiny
    <3> QED BY <1>1, <2>3, <2>4, <2>8, <2>9, <3>1 DEF AnswerOK
  <2>12. AskedOK(x)'
    <3>1. ~ WaitsForProxy(x)'
      <4>1. ~ crashed => ~ InProxy(x)
        BY <1>3
      <4> QED BY <1>1, <4>1 DEF WaitsForProxy, InProxy
    <3>2. ASSUME WaitsForTiny(x)' PROVE Silent(x)' /\ Unread(x, client[x].sent = 0, Asked(x))'
      <4>1. Silent(x) /\ Unread(x, client[x].sent = 0, line) /\ conn'[x] = conn[x]
        BY <2>1, <2>2, <3>2 DEF CliOK, AskedOK
      <4> QED BY <1>1, <2>4, <4>1 DEF Silent, Unread
    <3> QED BY <3>1, <3>2 DEF AskedOK
  <2>13. ClientOK(x)'
    BY <1>1, <2>1 DEF CliOK, ClientOK
  <2> QED BY <2>10, <2>11, <2>12, <2>13 DEF CliOK
<1>10. CacheOK'
  BY <1>1, CacheSame DEF Inv
<1> QED BY <1>1, <1>4, <1>5, <1>7, <1>8, <1>9, <1>10 DEF Inv, ClientsOK, CliOK, WorkersOK

\* What Tiny has, where it is.
LEMMA TinyFacts ==
  ASSUME Inv, tiny.pc \notin {"accept", "exit"}
  PROVE  /\ TinyAlive /\ tiny.fd \in Conns /\ InTiny(tiny.fd) /\ tiny \in TinyTypes /\ tiny \in TinyStates
         /\ tiny.todo \in Seq(Lines) /\ "far" \notin conn[tiny.fd].closed
         /\ tiny.fd \notin Elems(backlog["tiny"]) /\ NetTypes /\ TypeOK /\ TinyPlaces
<1>1. TinyAlive /\ tiny \in TinyTypes /\ tiny \in TinyStates /\ tiny.fd # "none" /\ NetTypes /\ TypeOK /\ TinyPlaces
  BY DEF Inv, Places, TinyPlaces, TypeOK, OtherTypes, TinyTypes
<1>2. tiny.fd \in Conns /\ tiny.todo \in Seq(Lines) /\ InTiny(tiny.fd)
  BY <1>1 DEF TinyStates, InTiny
<1> QED BY <1>1, <1>2 DEF TinyPlaces

\* Tiny goes on with the request at x; what it writes at an open connection, if
\* anything, is what comes next.
LEMMA TinyStep ==
  ASSUME Inv, tiny.pc \notin {"accept", "exit"}, NEW x, x = tiny.fd, NEW t \in TinyTypes, tiny' = t,
         t.fd = x, t.pc \notin {"accept", "exit", "request"},
         UNCHANGED <<listenVars, proxyVars, clientVars>>,
         conn' \in [Conns -> ConnTypes], Only(x), conn'[x].closed = conn[x].closed,
         ~ Open(x) => conn'[x].down = conn[x].down,
         \A line : \A m, k, j \in Nat :
           /\ Open(x) /\ Reads(x, line) /\ AnswerTo(line) \in Answers
           /\ k = m + Len(conn[x].down) /\ Piece(conn[x].down, m, AnswerTo(line)) /\ TinyHas(k, line)
           /\ j = m + Len(conn'[x].down)
           => Piece(conn'[x].down, m, AnswerTo(line)) /\ TinyHas(j, line)'
  PROVE  Inv'
<1>1. /\ TinyAlive /\ x \in Conns /\ InTiny(x) /\ "far" \notin conn[x].closed
      /\ x \notin Elems(backlog["tiny"]) /\ NetTypes /\ TypeOK /\ TinyPlaces /\ x # "none"
      /\ conn[x].closed \subseteq {"near", "far"}
  BY TinyFacts, ConnsFacts, ConnFacts
<1>2. UNCHANGED <<backlog, dead, queue, worker, list, size, request, client>> /\ TinyAlive'
  BY <1>1 DEF listenVars, proxyVars, cacheVars, clientVars, TinyAlive
<1>3. TypeOK'
  BY <1>1, <1>2 DEF TypeOK, NetTypes, ProxyTypes, OtherTypes
<1>4. TinyPlaces'
  <2>1. \A y \in Conns : (InTiny(y)' <=> InTiny(y)) /\ conn'[y].closed = conn[y].closed
    BY <1>1, <1>2 DEF InTiny, Only
  <2> QED BY <1>1, <1>2, <2>1 DEF TinyPlaces, crashed
<1>5. ~ WaitsForTiny(x)'
  BY <1>1, <1>2 DEF WaitsForTiny
<1>6. ASSUME NEW line, Open(x), Reads(x, line), AnswerTo(line) \in Answers PROVE KeepsFlow(x, line)
  <2> SUFFICES ASSUME NEW m \in Nat, Flow(x, m, line) PROVE Flow(x, m, line)'
    BY DEF KeepsFlow
  <2>1. PICK k \in Nat : k = m + Len(conn[x].down)
    BY <1>1, ConnFacts
  <2>2. Piece(conn[x].down, m, AnswerTo(line)) /\ TinyHas(k, line)
    BY <1>1, <2>1 DEF Flow, TinyAt
  <2>3. conn'[x].down \in Seq(Lines)
    BY <1>1 DEF ConnTypes
  <2>4. PICK j \in Nat : j = m + Len(conn'[x].down)
    BY <2>3
  <2>5. Piece(conn'[x].down, m, AnswerTo(line)) /\ TinyHas(j, line)'
    BY <1>6, <2>1, <2>2, <2>4
  <2>6. AnswerTo(line)' = AnswerTo(line)
    BY DEF AnswerTo
  <2> QED BY <1>2, <2>4, <2>5, <2>6 DEF Flow, TinyAt
<1>7. conn'[x].closed \ {"far"} = conn[x].closed
  BY <1>1
<1> QED BY <1>1, <1>2, <1>3, <1>4, <1>5, <1>6, <1>7, TinyServes

\* The invariant, when Tiny reads the request line.
LEMMA StepTinyRequest ==
  ASSUME Inv, TinyRequest, UNCHANGED <<proxyVars, clientVars>>
  PROVE  Inv'
<1>1. tiny.pc = "request" /\ tiny.pc \notin {"accept", "exit"} /\ UNCHANGED listenVars
  BY DEF TinyRequest
<1>2. PICK x : x = tiny.fd
  OBVIOUS
<1>3. /\ TinyAlive /\ x \in Conns /\ InTiny(x) /\ tiny \in TinyTypes /\ tiny \in TinyStates
      /\ "far" \notin conn[x].closed /\ NetTypes /\ TypeOK /\ TinyPlaces /\ WaitsForTiny(x)
  BY <1>1, <1>2, TinyFacts DEF WaitsForTiny
<1>4. CASE AtEOF(x, "far") /\ UNCHANGED conn /\ tiny' = [tiny EXCEPT !.pc = "close"]
  <2>1. ~ Open(x)
    BY <1>4 DEF AtEOF, PeerGone, Peer, Open
  <2>2. PICK t : t = [tiny EXCEPT !.pc = "close"]
    OBVIOUS
  <2>3. t \in TinyTypes /\ t.fd = x /\ t.pc = "close"
    BY <1>2, <1>3, <2>2 DEF TinyTypes, TinyStates, TinyPCs, Forks
  <2>4. conn' \in [Conns -> ConnTypes] /\ Only(x) /\ conn'[x] = conn[x]
    BY <1>3, <1>4 DEF NetTypes, Only
  <2> QED BY <1>1, <1>2, <1>4, <2>1, <2>2, <2>3, <2>4, TinyStep
<1>5. CASE Rio_readlineb(x, "far")
  <2>1. PICK line, up : line = NextLine(x, "far") /\ up = conn[x].up
    OBVIOUS
  <2>2. /\ conn' \in [Conns -> ConnTypes] /\ Only(x) /\ up # <<>>
        /\ conn'[x].down = conn[x].down /\ conn'[x].closed = conn[x].closed
        /\ line = Head(up) /\ line \in Lines
    BY <1>3, <1>5, <2>1, ReadFar
  <2>3. line[1] = "GET" => line[2] \in DOMAIN Files
    <3>1. CASE x \in Clients
      <4>1. request[x].to = "tiny" /\ CliOK(x) /\ request \in Requests
        BY <1>3, <3>1 DEF TinyPlaces, Inv, ClientsOK, CliOK, TypeOK, OtherTypes
      <4>2. line = Asked(x)
        BY <1>3, <2>1, <2>2, <4>1 DEF CliOK, AskedOK, Unread
      <4>3. Url(x) \in DOMAIN Files
        BY <3>1, <4>1, AskedFacts
      <4> QED BY <4>2, <4>3 DEF Url
    <3>2. CASE x \in Workers
      <4>1. GetsFile(x)
        BY <3>2 DEF Inv, WorkersOK
      <4>2. PICK u \in DOMAIN Files : line = GetLine(u)
        BY <1>3, <2>1, <2>2, <4>1 DEF GetsFile
      <4> QED BY <4>2, GetAnswer
    <3> QED BY <1>3, <3>1, <3>2 DEF Conns
  <2>4. \A l : Reads(x, l) => l = line
    BY <1>3, <2>1, <2>2 DEF Reads
  <2>5. \A l : \A m, k, j \in Nat :
          k = m + Len(conn[x].down) /\ TinyHas(k, l) /\ j = m + Len(conn'[x].down) => j = k /\ k = 0
    BY <1>1, <2>2 DEF TinyHas, Forks
  <2>6. CASE line[1] # "GET"
    <3>1. tiny' = [tiny EXCEPT !.pc = "write", !.todo = clienterror("501"), !.then = "close"]
      <4>1. ~ AtEOF(x, "far")
        BY <2>1, <2>2 DEF AtEOF, Available, In
      <4> QED BY <1>2, <2>1, <2>6, <4>1 DEF TinyRequest
    <3>2. PICK t : t = [tiny EXCEPT !.pc = "write", !.todo = clienterror("501"), !.then = "close"]
      OBVIOUS
    <3>3. clienterror("501") \in Answers /\ clienterror("501") \in Seq(Lines)
      BY SomeLines, AnswersTyped
    <3>4. /\ t \in TinyTypes /\ t.fd = x /\ t.pc = "write" /\ t.then = "close" /\ t.todo = clienterror("501")
      BY <1>2, <1>3, <3>2, <3>3 DEF TinyTypes, TinyStates, TinyPCs, Forks
    <3>5. ASSUME NEW l, l = line, NEW j \in Nat, j = 0 PROVE TinyHas(j, l)'
      <4>1. AnswerTo(l) = clienterror("501") /\ AnswerTo(l)' = AnswerTo(l)
        BY <2>6, <3>5 DEF AnswerTo
      <4>2. PICK a \in Seq(Lines) : a = clienterror("501")
        BY <3>3
      <4>3. Piece(a, j, a) /\ j + Len(a) = Len(a)
        BY <3>5, WholePiece
      <4>4. tiny'.pc = "write" /\ tiny'.then = "close" /\ tiny'.todo = a /\ AnswerTo(l)' = a
        BY <3>1, <3>2, <3>4, <4>1, <4>2
      <4> QED BY <4>3, <4>4 DEF TinyHas
    <3>6. \A l : \A m, k, j \in Nat :
           /\ Open(x) /\ Reads(x, l) /\ AnswerTo(l) \in Answers
           /\ k = m + Len(conn[x].down) /\ Piece(conn[x].down, m, AnswerTo(l)) /\ TinyHas(k, l)
           /\ j = m + Len(conn'[x].down)
           => Piece(conn'[x].down, m, AnswerTo(l)) /\ TinyHas(j, l)'
      <4> SUFFICES ASSUME NEW l, NEW m \in Nat, NEW k \in Nat, NEW j \in Nat, Reads(x, l),
                          k = m + Len(conn[x].down), Piece(conn[x].down, m, AnswerTo(l)), TinyHas(k, l),
                          j = m + Len(conn'[x].down)
                   PROVE  Piece(conn'[x].down, m, AnswerTo(l)) /\ TinyHas(j, l)'
        OBVIOUS
      <4>1. l = line /\ j = 0
        BY <2>4, <2>5
      <4> QED BY <2>2, <3>5, <4>1
    <3>7. t.pc \notin {"accept", "exit", "request"}
      BY <3>4
    <3> QED BY <1>1, <1>2, <2>2, <3>1, <3>2, <3>4, <3>6, <3>7, TinyStep
  <2>7. CASE line[1] = "GET"
    <3>1. PICK stale \in {Blank, <<"?">>} :
            tiny' = [tiny EXCEPT !.pc = "headers", !.uri = line[2], !.buf = stale]
      <4>1. ~ AtEOF(x, "far")
        BY <2>1, <2>2 DEF AtEOF, Available, In
      <4> QED BY <1>2, <2>1, <2>7, <4>1 DEF TinyRequest
    <3>2. PICK t : t = [tiny EXCEPT !.pc = "headers", !.uri = line[2], !.buf = stale]
      OBVIOUS
    <3>3. stale \in Lines /\ line[2] \in DOMAIN Files
      BY <2>3, <2>7, SomeLines
    <3>4. /\ t \in TinyTypes /\ t.fd = x /\ t.pc = "headers" /\ t.uri = line[2]
      BY <1>2, <1>3, <3>2, <3>3 DEF TinyTypes, TinyStates, TinyPCs, Forks
    <3>5. ASSUME NEW l, l = line, NEW j \in Nat, j = 0 PROVE TinyHas(j, l)'
      BY <2>7, <3>1, <3>2, <3>4, <3>5 DEF TinyHas
    <3>6. \A l : \A m, k, j \in Nat :
           /\ Open(x) /\ Reads(x, l) /\ AnswerTo(l) \in Answers
           /\ k = m + Len(conn[x].down) /\ Piece(conn[x].down, m, AnswerTo(l)) /\ TinyHas(k, l)
           /\ j = m + Len(conn'[x].down)
           => Piece(conn'[x].down, m, AnswerTo(l)) /\ TinyHas(j, l)'
      <4> SUFFICES ASSUME NEW l, NEW m \in Nat, NEW k \in Nat, NEW j \in Nat, Reads(x, l),
                          k = m + Len(conn[x].down), Piece(conn[x].down, m, AnswerTo(l)), TinyHas(k, l),
                          j = m + Len(conn'[x].down)
                   PROVE  Piece(conn'[x].down, m, AnswerTo(l)) /\ TinyHas(j, l)'
        OBVIOUS
      <4>1. l = line /\ j = 0
        BY <2>4, <2>5
      <4> QED BY <2>2, <3>5, <4>1
    <3>7. t.pc \notin {"accept", "exit", "request"}
      BY <3>4
    <3> QED BY <1>1, <1>2, <2>2, <3>1, <3>2, <3>4, <3>6, <3>7, TinyStep
  <2> QED BY <2>6, <2>7
<1> QED BY <1>2, <1>4, <1>5 DEF TinyRequest

\* Tiny goes on and writes nothing.
LEMMA QuietStep ==
  ASSUME Inv, tiny.pc \notin {"accept", "exit", "request"}, NEW x, x = tiny.fd, NEW t \in TinyTypes, tiny' = t,
         t.fd = x, t.pc \notin {"accept", "exit", "request"},
         UNCHANGED <<listenVars, proxyVars, clientVars>>,
         conn' \in [Conns -> ConnTypes], Only(x), conn'[x].closed = conn[x].closed,
         conn'[x].down = conn[x].down,
         \A line : \A k \in Nat : AnswerTo(line) \in Answers /\ Open(x) /\ TinyHas(k, line) => TinyHas(k, line)'
  PROVE  Inv'
<1>1. \A line : \A m, k, j \in Nat :
        /\ Open(x) /\ Reads(x, line) /\ AnswerTo(line) \in Answers
        /\ k = m + Len(conn[x].down) /\ Piece(conn[x].down, m, AnswerTo(line)) /\ TinyHas(k, line)
        /\ j = m + Len(conn'[x].down)
        => Piece(conn'[x].down, m, AnswerTo(line)) /\ TinyHas(j, line)'
  <2> SUFFICES ASSUME NEW line, NEW m \in Nat, NEW k \in Nat, NEW j \in Nat,
                      Open(x), AnswerTo(line) \in Answers, k = m + Len(conn[x].down),
                      Piece(conn[x].down, m, AnswerTo(line)), TinyHas(k, line), j = m + Len(conn'[x].down)
               PROVE  Piece(conn'[x].down, m, AnswerTo(line)) /\ TinyHas(j, line)'
    OBVIOUS
  <2>1. j = k
    OBVIOUS
  <2>2. TinyHas(j, line)
    BY <2>1
  <2> QED BY <2>2
<1> QED BY <1>1, TinyStep

\* The invariant, when Tiny reads a header.
LEMMA StepReadRequesthdrs ==
  ASSUME Inv, read_requesthdrs, UNCHANGED <<proxyVars, clientVars>>
  PROVE  Inv'
<1>1. tiny.pc = "headers" /\ tiny.pc \notin {"accept", "exit", "request"} /\ UNCHANGED listenVars
  BY DEF read_requesthdrs
<1>2. PICK x : x = tiny.fd
  OBVIOUS
<1>3. x \in Conns /\ tiny \in TinyTypes /\ tiny \in TinyStates /\ NetTypes
  BY <1>1, <1>2, TinyFacts
<1>4. /\ conn' \in [Conns -> ConnTypes] /\ Only(x)
      /\ conn'[x].down = conn[x].down /\ conn'[x].closed = conn[x].closed
  <2>1. CASE Rio_readlineb(x, "far")
    BY <1>3, <2>1, ReadFar
  <2>2. CASE UNCHANGED conn
    BY <1>3, <2>2 DEF NetTypes, Only
  <2> QED BY <1>2, <2>1, <2>2 DEF read_requesthdrs
<1>5. \E line \in Lines, pc \in {"headers", "serve"} : tiny' = [tiny EXCEPT !.buf = line, !.pc = pc]
  <2>1. CASE Rio_readlineb(x, "far")
    <3>1. PICK line : line = NextLine(x, "far")
      OBVIOUS
    <3>2. line \in Lines /\ ~ AtEOF(x, "far")
      BY <1>3, <2>1, <3>1, ReadFar DEF AtEOF, Rio_readlineb
    <3>3. PICK pc : pc = IF line = Blank THEN "serve" ELSE "headers"
      OBVIOUS
    <3>4. tiny' = [tiny EXCEPT !.buf = line, !.pc = pc] /\ pc \in {"headers", "serve"}
      BY <1>2, <3>1, <3>2, <3>3 DEF read_requesthdrs
    <3> QED BY <3>2, <3>4
  <2>2. CASE AtEOF(x, "far")
    <3>1. tiny' = [tiny EXCEPT !.pc = "serve"]
      BY <1>2, <2>2 DEF read_requesthdrs, AtEOF, Rio_readlineb
    <3>2. tiny' = [tiny EXCEPT !.buf = tiny.buf, !.pc = "serve"] /\ tiny.buf \in Lines
      BY <1>3, <3>1 DEF TinyStates
    <3> QED BY <3>2
  <2> QED BY <1>2, <2>1, <2>2 DEF read_requesthdrs
<1>6. PICK line \in Lines, pc \in {"headers", "serve"} : tiny' = [tiny EXCEPT !.buf = line, !.pc = pc]
  BY <1>5
<1>7. PICK t : t = [tiny EXCEPT !.buf = line, !.pc = pc]
  OBVIOUS
<1>8. t \in TinyTypes /\ t.fd = x /\ t.pc = pc /\ t.uri = tiny.uri
  BY <1>1, <1>2, <1>3, <1>6, <1>7 DEF TinyTypes, TinyStates, TinyPCs, Forks
<1>9. ASSUME NEW l, NEW k \in Nat, TinyHas(k, l) PROVE TinyHas(k, l)'
  BY <1>1, <1>6, <1>7, <1>8, <1>9 DEF TinyHas, Forks
<1>10. t.pc \notin {"accept", "exit", "request"}
  BY <1>8
<1> QED BY <1>1, <1>2, <1>4, <1>6, <1>7, <1>8, <1>9, <1>10, QuietStep

\* The invariant, when Tiny decides what to answer.
LEMMA StepServe ==
  ASSUME Inv, serve, UNCHANGED <<proxyVars, clientVars>>
  PROVE  Inv'
<1>1. tiny.pc = "serve" /\ tiny.pc \notin {"accept", "exit", "request"} /\ UNCHANGED <<conn, listenVars>>
  BY DEF serve, netVars
<1>2. PICK x : x = tiny.fd
  OBVIOUS
<1>3. x \in Conns /\ tiny \in TinyTypes /\ tiny \in TinyStates /\ NetTypes
  BY <1>1, <1>2, TinyFacts
<1>4. PICK u : u = tiny.uri
  OBVIOUS
<1>5. u \in DOMAIN Files
  BY <1>1, <1>3, <1>4 DEF TinyTypes
<1> DEFINE forks == Files[u].stat = "ok" /\ Files[u].cgi
<1>7. PICK todo, then : /\ todo = IF forks THEN <<<<"200">>>> ELSE Answer(u)
                        /\ then = IF forks THEN "fork"
                                  ELSE IF Files[u].stat = "ok" /\ Files[u].body = <<>> THEN "exit" ELSE "close"
  OBVIOUS
<1>8. tiny' = [tiny EXCEPT !.pc = "write", !.todo = todo, !.then = then]
  BY <1>4, <1>7 DEF serve
<1>9. then \in {"close", "fork", "exit"} /\ (then = "fork" <=> forks)
  BY <1>7
<1>10. Answer(u) \in Answers /\ Answer(u) \in Seq(Lines)
  BY <1>5, SomeLines, AnswersTyped
<1>11. forks => <<<<"200">>>> \in Seq(Lines) /\ Piece(<<<<"200">>>>, 0, Answer(u))
  <2> SUFFICES ASSUME forks PROVE <<<<"200">>>> \in Seq(Lines) /\ Piece(<<<<"200">>>>, 0, Answer(u))
    OBVIOUS
  <2>1. Answer(u)[1] = <<"200">> /\ Len(Answer(u)) \in Nat /\ Len(Answer(u)) > 0
    BY <1>5, GoodAnswer, LongEnough
  <2>2. <<"200">> \in Lines
    BY <1>10, <2>1
  <2> QED BY <2>1, <2>2 DEF Piece
<1>12. todo \in Seq(Lines)
  BY <1>7, <1>10, <1>11
<1>13. PICK t : t = [tiny EXCEPT !.pc = "write", !.todo = todo, !.then = then]
  OBVIOUS
<1>14. t \in TinyTypes /\ t.fd = x /\ t.pc = "write" /\ t.uri = u /\ t.todo = todo /\ t.then = then
  BY <1>2, <1>3, <1>4, <1>5, <1>9, <1>12, <1>13 DEF TinyTypes, TinyStates, TinyPCs, Forks
<1>15. ASSUME NEW l, NEW k \in Nat, TinyHas(k, l) PROVE TinyHas(k, l)'
  <2>1. k = 0 /\ l[1] = "GET" /\ u = l[2]
    BY <1>1, <1>4, <1>15 DEF TinyHas, Forks
  <2>2. AnswerTo(l) = Answer(u) /\ AnswerTo(l)' = Answer(u)
    BY <2>1 DEF AnswerTo
  <2>3. PICK a \in Seq(Lines) : a = Answer(u)
    BY <1>10
  <2>4. tiny'.pc = "write" /\ tiny'.uri = u /\ tiny'.todo = todo /\ tiny'.then = then
    BY <1>8, <1>13, <1>14
  <2>5. CASE forks
    <3>1. Piece(todo, k, a) /\ k + Len(todo) = 1 /\ then = "fork"
      BY <1>7, <1>9, <1>11, <2>1, <2>3, <2>5
    <3> QED BY <2>1, <2>2, <2>3, <2>4, <3>1 DEF TinyHas, Forks
  <2>6. CASE ~ forks
    <3>1. Piece(todo, k, a) /\ k + Len(todo) = Len(a) /\ then \in {"close", "exit"}
      BY <1>7, <1>9, <2>1, <2>3, <2>6, WholePiece
    <3> QED BY <2>1, <2>2, <2>3, <2>4, <3>1 DEF TinyHas
  <2> QED BY <2>5, <2>6
<1>16. t.pc \notin {"accept", "exit", "request"} /\ conn' \in [Conns -> ConnTypes] /\ Only(x)
       /\ conn'[x] = conn[x]
  BY <1>1, <1>3, <1>14 DEF NetTypes, Only
<1> QED BY <1>1, <1>2, <1>8, <1>13, <1>14, <1>15, <1>16, QuietStep

\* The invariant, when Tiny has written all, forks, or waits for its child.
LEMMA StepTinyGoesOn ==
  ASSUME Inv, TinyGoesOn, UNCHANGED <<proxyVars, clientVars>>
  PROVE  Inv'
<1>1. tiny.pc \in {"write", "fork", "child"} /\ tiny.pc \notin {"accept", "exit", "request"}
      /\ UNCHANGED <<conn, listenVars>>
  BY DEF TinyGoesOn, netVars
<1>2. PICK x : x = tiny.fd
  OBVIOUS
<1>3. x \in Conns /\ tiny \in TinyTypes /\ tiny \in TinyStates /\ NetTypes
  BY <1>1, <1>2, TinyFacts
<1>4. conn' \in [Conns -> ConnTypes] /\ Only(x) /\ conn'[x] = conn[x]
  BY <1>1, <1>3 DEF NetTypes, Only
<1>5. CASE tiny.pc = "write" /\ tiny.todo = <<>> /\ tiny.then # "exit" /\ tiny' = [tiny EXCEPT !.pc = tiny.then]
  <2>1. PICK t : t = [tiny EXCEPT !.pc = tiny.then]
    OBVIOUS
  <2>2. /\ t \in TinyTypes /\ t.fd = x /\ t.pc = tiny.then /\ t.pc \in {"close", "fork"} /\ t.todo = tiny.todo
        /\ t.uri = tiny.uri /\ t.pc \notin {"accept", "exit", "request"}
    BY <1>2, <1>3, <1>5, <2>1 DEF TinyTypes, TinyStates, TinyPCs, Forks
  <2>3. ASSUME NEW l, NEW k \in Nat, TinyHas(k, l) PROVE TinyHas(k, l)'
    <3>1. AnswerTo(l)' = AnswerTo(l)
      BY DEF AnswerTo
    <3> QED BY <1>5, <2>1, <2>2, <2>3, <3>1 DEF TinyHas, Forks
  <2> QED BY <1>1, <1>2, <1>4, <1>5, <2>1, <2>2, <2>3, QuietStep
<1>6. CASE tiny.pc = "fork" /\ tiny' = [tiny EXCEPT !.pc = "child", !.todo = Body(tiny.uri)]
  <2>1. PICK u : u = tiny.uri
    OBVIOUS
  <2>2. u \in DOMAIN Files /\ Files[u].stat = "ok"
    BY <1>3, <1>6, <2>1 DEF TinyTypes, Forks
  <2>3. /\ Answer(u) \in Seq(Lines) /\ Len(Answer(u)) = 1 + Len(Body(u)) /\ Len(Body(u)) \in Nat
        /\ \A i \in 1 .. Len(Body(u)) : Body(u)[i] = Answer(u)[1 + i]
    BY <2>2, GoodAnswer, SomeLines, AnswersTyped
  <2>4. Body(u) \in Seq(Lines) /\ Piece(Body(u), 1, Answer(u))
    <3>1. Body(u) \in Seq({<<u, i>> : i \in Nat})
      BY <2>2, BodySeq
    <3>2. PICK S : Body(u) \in Seq(S)
      BY <3>1
    <3>3. \A i \in 1 .. Len(Body(u)) : Body(u)[i] \in Lines
      BY <2>3
    <3> QED BY <2>3, <3>2, <3>3 DEF Piece
  <2>5. PICK t : t = [tiny EXCEPT !.pc = "child", !.todo = Body(u)]
    OBVIOUS
  <2>6. /\ t \in TinyTypes /\ t.fd = x /\ t.pc = "child" /\ t.todo = Body(u)
        /\ t.pc \notin {"accept", "exit", "request"} /\ tiny' = t
    BY <1>2, <1>3, <1>6, <2>1, <2>4, <2>5 DEF TinyTypes, TinyStates, TinyPCs, Forks
  <2>7. ASSUME NEW l, NEW k \in Nat, TinyHas(k, l) PROVE TinyHas(k, l)'
    <3>1. k = 1 /\ l[1] = "GET" /\ u = l[2]
      <4>1. /\ l[1] = "GET" /\ tiny.uri = l[2] /\ k + Len(tiny.todo) = 1 /\ tiny.todo = <<>>
        BY <1>6, <2>7 DEF TinyHas
      <4> QED BY <2>1, <4>1
    <3>2. AnswerTo(l) = Answer(u) /\ AnswerTo(l)' = Answer(u)
      BY <3>1 DEF AnswerTo
    <3>3. Piece(Body(u), k, Answer(u)) /\ k + Len(Body(u)) = Len(Answer(u))
      BY <2>3, <2>4, <3>1
    <3> QED BY <2>6, <3>2, <3>3 DEF TinyHas
  <2> QED BY <1>1, <1>2, <1>4, <2>6, <2>7, QuietStep
<1>7. CASE /\ tiny.pc = "child" /\ (tiny.todo = <<>> \/ PeerGone(x, "far"))
           /\ tiny' = [tiny EXCEPT !.pc = "close", !.todo = <<>>]
  <2>1. PICK t : t = [tiny EXCEPT !.pc = "close", !.todo = <<>>]
    OBVIOUS
  <2>2. <<>> \in Seq(Lines)
    OBVIOUS
  <2>3. /\ t \in TinyTypes /\ t.fd = x /\ t.pc = "close" /\ t.todo = <<>>
        /\ t.pc \notin {"accept", "exit", "request"} /\ tiny' = t
    BY <1>2, <1>3, <1>7, <2>1, <2>2 DEF TinyTypes, TinyStates, TinyPCs, Forks
  <2>4. ASSUME NEW l, NEW k \in Nat, TinyHas(k, l), Open(x) PROVE TinyHas(k, l)'
    <3>1. tiny.todo = <<>>
      BY <1>7, <2>4 DEF PeerGone, Peer, Open
    <3>2. AnswerTo(l)' = AnswerTo(l)
      BY DEF AnswerTo
    <3>3. Piece(tiny.todo, k, AnswerTo(l)) /\ k + Len(tiny.todo) = Len(AnswerTo(l))
      BY <1>7, <2>4 DEF TinyHas, Forks
    <3> QED BY <2>3, <3>1, <3>2, <3>3 DEF TinyHas
  <2> QED BY <1>1, <1>2, <1>4, <2>3, <2>4, QuietStep
<1> QED BY <1>2, <1>5, <1>6, <1>7 DEF TinyGoesOn

\* The invariant, when Tiny or its child writes a line.
LEMMA StepTinyWrites ==
  ASSUME Inv, TinyWrites, UNCHANGED <<proxyVars, clientVars>>
  PROVE  Inv'
<1>1. tiny.pc \in {"write", "child"} /\ tiny.pc \notin {"accept", "exit", "request"} /\ UNCHANGED listenVars
      /\ tiny.todo # <<>>
  BY DEF TinyWrites
<1>2. PICK x, todo : x = tiny.fd /\ todo = tiny.todo
  OBVIOUS
<1>3. x \in Conns /\ tiny \in TinyTypes /\ tiny \in TinyStates /\ NetTypes /\ todo \in Seq(Lines) /\ todo # <<>>
  BY <1>1, <1>2, TinyFacts
<1>4. PICK line, rest : line = Head(todo) /\ rest = Tail(todo)
  OBVIOUS
<1>5. /\ line \in Lines /\ rest \in Seq(Lines) /\ Len(todo) \in Nat \ {0} /\ Len(rest) = Len(todo) - 1
  BY <1>3, <1>4, HeadTail
<1>6. /\ conn' \in [Conns -> ConnTypes] /\ Only(x) /\ conn'[x].closed = conn[x].closed
      /\ Open(x) => conn'[x].down = Append(conn[x].down, line)
      /\ ~ Open(x) => conn' = conn
  BY <1>2, <1>3, <1>4, <1>5, WriteFar DEF TinyWrites
<1>7. PICK t : t = [tiny EXCEPT !.todo = rest]
  OBVIOUS
<1>8. /\ t \in TinyTypes /\ tiny' = t /\ t.fd = x /\ t.pc = tiny.pc /\ t.todo = rest
      /\ t.uri = tiny.uri /\ t.then = tiny.then
  BY <1>2, <1>3, <1>4, <1>5, <1>7 DEF TinyWrites, TinyTypes, TinyStates, Forks
<1>9. \A l : \A m, k, j \in Nat :
        /\ Open(x) /\ Reads(x, l) /\ AnswerTo(l) \in Answers
        /\ k = m + Len(conn[x].down) /\ Piece(conn[x].down, m, AnswerTo(l)) /\ TinyHas(k, l)
        /\ j = m + Len(conn'[x].down)
        => Piece(conn'[x].down, m, AnswerTo(l)) /\ TinyHas(j, l)'
  <2> SUFFICES ASSUME NEW l, NEW m \in Nat, NEW k \in Nat, NEW j \in Nat, Open(x), AnswerTo(l) \in Answers,
                      k = m + Len(conn[x].down), Piece(conn[x].down, m, AnswerTo(l)), TinyHas(k, l),
                      j = m + Len(conn'[x].down)
               PROVE  Piece(conn'[x].down, m, AnswerTo(l)) /\ TinyHas(j, l)'
    OBVIOUS
  <2>1. PICK a, down : a = AnswerTo(l) /\ down = conn[x].down
    OBVIOUS
  <2>2. a \in Seq(Lines) /\ Len(a) \in Nat /\ down \in Seq(Lines) /\ Len(down) \in Nat
    BY <1>3, <2>1, AnswersTyped, ConnFacts
  <2>3. Piece(todo, k, a)
    BY <1>1, <1>2, <2>1 DEF TinyHas, Forks
  <2>4. line = a[k + 1] /\ k + 1 \in 1 .. Len(a) /\ Piece(rest, k + 1, a)
    BY <1>3, <1>4, <2>2, <2>3, PieceHead
  <2>5. conn'[x].down = Append(down, line)
    BY <1>6, <2>1
  <2>6. Piece(Append(down, line), m, a) /\ Len(Append(down, line)) = Len(down) + 1
    <3>1. m + Len(down) < Len(a) /\ line = a[m + Len(down) + 1] /\ Piece(down, m, a)
      BY <2>1, <2>2, <2>4
    <3> QED BY <1>5, <2>2, <3>1, PieceAppend
  <2>7. j = k + 1
    BY <2>1, <2>2, <2>5, <2>6
  <2>8. AnswerTo(l)' = a
    BY <2>1 DEF AnswerTo
  <2>9. Piece(rest, j, a) /\ j + Len(rest) = k + Len(todo)
    <3>1. Piece(rest, j, a)
      BY <2>4, <2>7
    <3>2. PICK n \in Nat : n = Len(todo) /\ Len(rest) = n - 1
      BY <1>5
    <3>3. (k + 1) + (n - 1) = k + n
      OBVIOUS
    <3> QED BY <2>7, <3>1, <3>2, <3>3
  <2>10. TinyHas(j, l)'
    BY <1>1, <1>2, <1>8, <2>1, <2>8, <2>9 DEF TinyHas, Forks
  <2> QED BY <2>1, <2>5, <2>6, <2>10
<1>10. t.pc \notin {"accept", "exit", "request"}
  BY <1>1, <1>8
<1> QED BY <1>1, <1>2, <1>6, <1>8, <1>9, <1>10, TinyStep

\* The invariant, when Tiny closes the connection.
LEMMA StepTinyCloses ==
  ASSUME Inv, TinyCloses, UNCHANGED <<proxyVars, clientVars>>
  PROVE  Inv'
<1>1. tiny.pc = "close" /\ tiny.pc \notin {"accept", "exit", "request"} /\ UNCHANGED <<backlog, dead>>
  BY DEF TinyCloses, listenVars
<1>2. PICK x : x = tiny.fd
  OBVIOUS
<1>3. /\ TinyAlive /\ x \in Conns /\ x # "none" /\ InTiny(x) /\ tiny \in TinyTypes /\ tiny \in TinyStates
      /\ "far" \notin conn[x].closed /\ conn[x].closed \subseteq {"near", "far"}
      /\ NetTypes /\ TypeOK /\ TinyPlaces /\ x \notin Elems(backlog["tiny"])
  BY <1>1, <1>2, TinyFacts, ConnsFacts, ConnFacts
<1>4. /\ conn' \in [Conns -> ConnTypes] /\ Only(x) /\ conn'[x].down = conn[x].down
      /\ conn'[x].closed = conn[x].closed \cup {"far"}
  BY <1>2, <1>3, Closes DEF TinyCloses
<1>5. PICK t : t = [tiny EXCEPT !.pc = "accept", !.fd = "none"]
  OBVIOUS
<1>6. t \in TinyTypes /\ tiny' = t /\ t.pc = "accept" /\ t.fd = "none"
  BY <1>3, <1>5 DEF TinyCloses, TinyTypes, TinyStates, TinyPCs, Forks
<1>7. /\ UNCHANGED <<queue, worker, list, size, request, client>> /\ TinyAlive'
  BY <1>1, <1>3 DEF proxyVars, cacheVars, clientVars, TinyAlive
<1>8. TypeOK'
  BY <1>1, <1>3, <1>4, <1>6, <1>7 DEF TypeOK, NetTypes, ProxyTypes, OtherTypes
<1>9. TinyPlaces'
  <2>1. "none" \notin Elems(backlog["tiny"])
    <3>1. backlog["tiny"] \in Seq(Conns)
      BY <1>3 DEF NetTypes
    <3> QED BY <3>1, ConnsFacts DEF Elems
  <2>2. \A y \in Conns : InTiny(y)' => InTiny(y) /\ conn'[y] = conn[y]
    BY <1>1, <1>2, <1>3, <1>4, <1>6, ConnsFacts DEF InTiny, Only
  <2> QED BY <1>1, <1>3, <1>6, <1>7, <2>1, <2>2 DEF TinyPlaces, crashed
<1>10. ~ WaitsForTiny(x)'
  BY <1>1, <1>3, <1>6 DEF WaitsForTiny
<1>11. ASSUME NEW line, Open(x) PROVE KeepsFlow(x, line)
  <2> SUFFICES ASSUME NEW m \in Nat, Flow(x, m, line) PROVE Flow(x, m, line)'
    BY DEF KeepsFlow
  <2>1. PICK k : k = m + Len(conn[x].down)
    OBVIOUS
  <2>2. TinyHas(k, line) /\ Piece(conn[x].down, m, AnswerTo(line))
    BY <1>2, <1>3, <2>1 DEF Flow, TinyAt
  <2>3. k + Len(tiny.todo) = Len(AnswerTo(line)) /\ tiny.todo = <<>>
    BY <1>1, <2>2 DEF TinyHas, Forks
  <2>4. k \in Nat
    BY <1>3, <2>1, ConnFacts
  <2>5. k = Len(AnswerTo(line))
    BY <2>3, <2>4
  <2>6. AnswerTo(line)' = AnswerTo(line)
    BY DEF AnswerTo
  <2> QED BY <1>4, <2>1, <2>2, <2>5, <2>6 DEF Flow, TinyAt
<1>12. /\ conn'[x].closed \ {"far"} = conn[x].closed /\ tiny'.pc # "exit" /\ tiny'.fd \in {x, "none"}
       /\ tiny.fd \in {x, "none"}
  BY <1>2, <1>3, <1>4, <1>6
<1> QED BY <1>1, <1>3, <1>4, <1>8, <1>9, <1>10, <1>11, <1>12, TinyServes

\* The invariant, when Tiny accepts a connection.
LEMMA StepTinyAccept ==
  ASSUME Inv, TinyAccept, UNCHANGED <<proxyVars, clientVars>>
  PROVE  Inv'
<1>1. /\ tiny.pc = "accept" /\ Accept("tiny") /\ UNCHANGED <<conn, dead>>
      /\ TinyAlive /\ TinyPlaces /\ TypeOK /\ NetTypes /\ tiny \in TinyTypes /\ tiny.fd = "none"
  BY DEF TinyAccept, Inv, Places, TinyPlaces, TypeOK, OtherTypes
<1>2. PICK x : x = Head(backlog["tiny"])
  OBVIOUS
<1>3. /\ backlog' \in [{"proxy", "tiny"} -> Seq(Conns)] /\ x \in Elems(backlog["tiny"]) /\ x \in Conns
      /\ Elems(backlog'["tiny"]) = Elems(backlog["tiny"]) \ {x} /\ OnceEach(backlog'["tiny"])
      /\ backlog'["proxy"] = backlog["proxy"]
  BY <1>1, <1>2, Accepts DEF TinyPlaces
<1>4. PICK t : t = [tiny EXCEPT !.pc = "request", !.fd = x]
  OBVIOUS
<1>5. t \in TinyTypes /\ tiny' = t /\ t.pc = "request" /\ t.fd = x /\ x # "none"
  BY <1>1, <1>2, <1>3, <1>4, ConnsFacts DEF TinyAccept, TinyTypes, TinyStates, TinyPCs, Forks
<1>6. /\ UNCHANGED <<queue, worker, list, size, request, client>> /\ TinyAlive'
  BY <1>1 DEF proxyVars, cacheVars, clientVars, TinyAlive
<1>7. TypeOK'
  BY <1>1, <1>3, <1>5, <1>6 DEF TypeOK, NetTypes, ProxyTypes, OtherTypes
<1>8. InTiny(x) /\ "far" \notin conn[x].closed /\ conn[x].closed \subseteq {"near", "far"}
  BY <1>1, <1>3, ConnFacts DEF InTiny, TinyPlaces
<1>9. TinyPlaces'
  <2>1. \A y \in Conns : InTiny(y)' => InTiny(y)
    BY <1>3, <1>5 DEF InTiny
  <2> QED BY <1>1, <1>3, <1>5, <1>6, <2>1 DEF TinyPlaces, crashed
<1>10. WaitsForTiny(x)
  BY <1>1, <1>3 DEF WaitsForTiny
<1>11. ASSUME NEW line PROVE KeepsFlow(x, line)
  <2> SUFFICES ASSUME NEW m \in Nat, Flow(x, m, line) PROVE Flow(x, m, line)'
    BY DEF KeepsFlow
  <2>1. PICK k : k = m + Len(conn[x].down)
    OBVIOUS
  <2>2. k = 0 /\ Piece(conn[x].down, m, AnswerTo(line))
    BY <1>1, <1>3, <1>5, <1>8, <2>1 DEF Flow, TinyAt
  <2>3. AnswerTo(line)' = AnswerTo(line)
    BY DEF AnswerTo
  <2>4. TinyHas(k, line)'
    BY <1>5, <2>2 DEF TinyHas
  <2> QED BY <1>1, <1>5, <1>6, <2>1, <2>2, <2>3, <2>4 DEF Flow, TinyAt
<1>12. /\ conn'[x].closed \ {"far"} = conn[x].closed /\ conn'[x] = conn[x] /\ tiny'.pc # "exit"
       /\ tiny'.fd \in {x, "none"} /\ tiny.fd \in {x, "none"} /\ Only(x)
  BY <1>1, <1>5, <1>8 DEF Only
<1>13. \A y \in Conns \ {x} : y \in Elems(backlog'["tiny"]) <=> y \in Elems(backlog["tiny"])
  BY <1>3
<1> QED BY <1>1, <1>3, <1>7, <1>8, <1>9, <1>10, <1>11, <1>12, <1>13, TinyServes

\* The invariant, when Tiny dies and the kernel closes what it had open.
LEMMA StepTinyDies ==
  ASSUME Inv, TinyDies, UNCHANGED <<proxyVars, clientVars>>
  PROVE  Inv'
<1>1. /\ tiny.pc = "write" /\ tiny.pc \notin {"accept", "exit"} /\ dead' = dead \cup {"tiny"}
      /\ UNCHANGED <<backlog, queue, worker, list, size, garbled, request, client>>
      /\ TinyAlive /\ TinyPlaces /\ TypeOK /\ NetTypes /\ tiny \in TinyTypes
  BY TinyFacts DEF TinyDies, proxyVars, cacheVars, clientVars
<1>2. PICK far : far = {x \in Conns : InTiny(x)}
  OBVIOUS
<1>3. CloseAll({}, far)
  <2>1. {x \in Conns : \/ x = tiny.fd
                       \/ \E i \in DOMAIN backlog["tiny"] : backlog["tiny"][i] = x} = far
    BY <1>2 DEF InTiny, Elems
  <2> QED BY <2>1 DEF TinyDies
<1>4. /\ conn' \in [Conns -> ConnTypes]
      /\ \A x \in Conns : /\ conn'[x].up = conn[x].up /\ conn'[x].down = conn[x].down
                          /\ ("near" \in conn'[x].closed) <=> ("near" \in conn[x].closed)
                          /\ ("far" \in conn'[x].closed) <=> ("far" \in conn[x].closed \/ x \in far)
  BY <1>1, <1>3, ClosesAll
<1>5. ~ TinyAlive' /\ (crashed' <=> crashed) /\ dead \subseteq dead'
  BY <1>1 DEF crashed, TinyAlive
<1>6. PICK t : t = [tiny EXCEPT !.pc = "exit"]
  OBVIOUS
<1>7. t \in TinyTypes /\ tiny' = t /\ t.pc = "exit"
  BY <1>1, <1>6 DEF TinyDies, TinyTypes, TinyStates, TinyPCs, Forks
<1>8. TypeOK'
  BY <1>1, <1>4, <1>7 DEF TypeOK, NetTypes, ProxyTypes, OtherTypes
<1>9. \A y \in Conns : KeepsTiny(y) /\ KeepsConn(y)
  BY <1>1, <1>2, <1>4, <1>5 DEF KeepsTiny, KeepsConn, Open
<1>10. ASSUME ~ crashed PROVE ProxyPlaces'
  <2>1. ProxyPlaces
    BY <1>10 DEF Inv, Places
  <2>2. \A y \in Conns : InProxy(y)' <=> InProxy(y)
    BY <1>1 DEF InProxy
  <2>3. ASSUME NEW y \in Conns, InProxy(y) PROVE "far" \notin conn'[y].closed
    <3>1. y \notin far
      BY <1>1, <1>2, <2>1, <2>3 DEF TinyPlaces, ProxyPlaces
    <3> QED BY <1>4, <2>1, <2>3, <3>1 DEF ProxyPlaces
  <2> QED BY <1>1, <2>1, <2>2, <2>3 DEF ProxyPlaces
<1>11. Places'
  BY <1>5, <1>7, <1>10 DEF Places
<1>12. ASSUME NEW c \in Clients PROVE CliOK(c)'
  <2>1. c \in Conns /\ CliOK(c)
    BY ConnsFacts DEF Inv, ClientsOK, CliOK
  <2>2. ASSUME client[c].state \in {"new", "refused"} PROVE conn'[c] = conn[c]
    <3>1. c \notin far
      BY <1>1, <1>2, <2>2 DEF TinyPlaces
    <3>2. conn[c] \in ConnTypes /\ conn'[c] \in ConnTypes
      BY <1>1, <1>4, <2>1 DEF NetTypes
    <3>3. conn[c].closed = conn'[c].closed
      <4>1. /\ ("near" \in conn'[c].closed) <=> ("near" \in conn[c].closed)
            /\ ("far" \in conn'[c].closed) <=> ("far" \in conn[c].closed)
        BY <1>4, <2>1, <3>1
      <4>2. conn[c].closed \in SUBSET {"near", "far"} /\ conn'[c].closed \in SUBSET {"near", "far"}
        BY <3>2 DEF ConnTypes
      <4> QED BY <4>1, <4>2
    <3>4. \A r \in ConnTypes : r = [up |-> r.up, down |-> r.down, closed |-> r.closed]
      BY DEF ConnTypes
    <3>5. conn'[c].up = conn[c].up /\ conn'[c].down = conn[c].down
      BY <1>4, <2>1
    <3> QED BY <3>2, <3>3, <3>4, <3>5, Zenon
  <2>3. ~ WaitsForTiny(c)'
    BY <1>5 DEF WaitsForTiny
  <2>4. WaitsForProxy(c)' => WaitsForProxy(c)
    BY <1>1, <1>5 DEF WaitsForProxy
  <2> QED BY <1>1, <1>5, <1>9, <2>1, <2>2, <2>3, <2>4, ClientSame
<1>13. ASSUME NEW w \in Workers PROVE (~ crashed => WorkerOK(w)') /\ GetsFile(w)'
  <2>1. w \in Conns /\ GetsFile(w) /\ (~ crashed => WorkerOK(w))
    BY ConnsFacts DEF Inv, WorkersOK
  <2>2. GetsFile(w)'
    BY <1>5 DEF GetsFile, WaitsForTiny
  <2>3. ASSUME ~ crashed, worker[w].pc # "take" PROVE KeepsSent(worker[w].fd)
    <3>1. PICK d : d = worker[w].fd
      OBVIOUS
    <3>2. d \in Clients /\ d \in Conns
      BY <2>3, <3>1, Served
    <3>3. KeepsSent(d)
      BY <1>1, <1>9, <3>2, ConnKeepsSent DEF KeepsConn
    <3> QED BY <3>1, <3>3
  <2>4. ~ crashed => WorkerOK(w)'
    BY <1>1, <1>5, <1>9, <2>1, <2>3, WorkerSame
  <2> QED BY <2>2, <2>4
<1>14. CacheOK'
  BY <1>1, <1>5, CacheSame DEF Inv
<1> QED BY <1>5, <1>8, <1>11, <1>12, <1>13, <1>14 DEF Inv, ClientsOK, CliOK, WorkersOK
-----------------------------------------------------------------------------
(* The initial states *)

\* The types of the initial states.
LEMMA InitTypes == Init => TypeOK
<1> SUFFICES ASSUME Init PROVE TypeOK
  OBVIOUS
<1> USE DEF Init
<1>1. NetTypes
  <2>1. conn = [x \in Conns |-> Fresh] /\ dead = {} /\ backlog = [s \in {"proxy", "tiny"} |-> <<>>]
    BY DEF NetInit
  <2> QED BY <2>1, FreshFacts DEF NetTypes
<1>2. NoUrl \in AllUrls \cup {NoUrl} /\ "/" \in STRING /\ CRLF \in Lines /\ NULL \in Seq(Lines)
  BY SomeLines, ProxyAssumption
<1>3. worker \in [Workers -> WorkerTypes]
  <2>1. worker = [w \in Workers |->
          [pc |-> "take", fd |-> "none", buf |-> CRLF, url |-> NoUrl, uri |-> "/",
           hostname |-> <<>>, port |-> <<>>, seen |-> {}, todo |-> <<>>, rev_data |-> NULL]]
    BY DEF ProxyInit
  <2>2. [pc |-> "take", fd |-> "none", buf |-> CRLF, url |-> NoUrl, uri |-> "/",
         hostname |-> <<>>, port |-> <<>>, seen |-> {}, todo |-> <<>>, rev_data |-> NULL] \in WorkerTypes
    BY <1>2 DEF WorkerTypes, WorkerPCs
  <2> QED BY <2>1, <2>2
<1>4. queue = <<>> /\ list = <<>> /\ size \in Int
  BY ProxyAssumption DEF ProxyInit, Cache!Init
<1>5. client \in [Clients -> ClientTypes]
  <2>1. [state |-> "new", sent |-> 0, got |-> <<>>] \in ClientTypes
    BY DEF ClientTypes
  <2> QED BY <2>1
<1>6. tiny \in TinyTypes
  <2>1. Blank \in Lines
    BY SomeLines
  <2>2. tiny \in TinyStates
    BY <2>1 DEF TinyInit, TinyStates, TinyPCs
  <2>3. tiny.pc = "accept"
    BY DEF TinyInit
  <2> QED BY <2>2, <2>3 DEF TinyTypes, Forks
<1> QED BY <1>1, <1>3, <1>4, <1>5, <1>6 DEF TypeOK, ProxyTypes, OtherTypes

\* The invariant holds in the beginning.
LEMMA InitInv == Init => Inv
<1> SUFFICES ASSUME Init PROVE Inv
  OBVIOUS
<1> USE DEF Init
<1>1. TypeOK
  BY InitTypes
<1>2. /\ backlog["proxy"] = <<>> /\ backlog["tiny"] = <<>> /\ dead = {} /\ queue = <<>> /\ list = <<>>
      /\ \A x \in Conns : conn[x] = Fresh
      /\ \A w \in Workers : worker[w].pc = "take" /\ worker[w].fd = "none"
      /\ \A c \in Clients : client[c].state = "new" /\ client[c].sent = 0 /\ client[c].got = <<>>
      /\ tiny.pc = "accept" /\ tiny.fd = "none"
  BY DEF NetInit, ProxyInit, TinyInit, Cache!Init
<1>3. \A x \in Conns : ~ InProxy(x) /\ ~ InTiny(x)
  BY <1>2, ConnsFacts, EmptyElems DEF InProxy, InTiny
<1>4. Places
  BY <1>2, <1>3, EmptyElems DEF Places, ProxyPlaces, TinyPlaces, TinyAlive
<1>5. \A x \in Conns : ~ WaitsForTiny(x) /\ ~ WaitsForProxy(x)
  BY <1>2, <1>3 DEF WaitsForTiny, WaitsForProxy, InProxy, InTiny
<1>6. ASSUME NEW c \in Clients PROVE ClientOK(c) /\ AskedOK(c) /\ AnswerOK(c) /\ DirectOK(c)
  <2>1. c \in Conns /\ conn[c] = Fresh /\ request \in Requests
    BY <1>2, ConnsFacts
  <2>2. ClientOK(c)
    BY <1>2, <2>1, FreshFacts DEF ClientOK, Open
  <2>3. AskedOK(c) /\ DirectOK(c)
    BY <1>2, <1>5, <2>1 DEF AskedOK, DirectOK
  <2>4. PICK a \in RightAnswers(c) : TRUE
    BY <2>1, RightOnes
  <2>5. a \in Seq(Lines) /\ Len(a) \in Nat
    BY <2>1, RightOnes
  <2>6. Sent(c, a)
    <3>1. Piece(<<>>, 0, a) /\ Len(<<>>) = 0
      BY <2>5, EmptyPiece
    <3> QED BY <1>2, <2>1, <3>1, FreshFacts DEF Sent
  <2>7. AnswerOK(c)
    BY <2>1, <2>6, FreshFacts DEF AnswerOK
  <2> QED BY <2>2, <2>3, <2>7
<1>7. ASSUME NEW w \in Workers PROVE WorkerOK(w) /\ GetsFile(w)
  BY <1>2, <1>5, ConnsFacts DEF WorkerOK, FromTiny, FromHung, GetsFile, ConnectedPCs, EarlyPCs, DownloadPCs
<1>8. CacheOK
  BY <1>2 DEF CacheOK
<1> QED BY <1>1, <1>4, <1>6, <1>7, <1>8 DEF Inv, ClientsOK, WorkersOK

-----------------------------------------------------------------------------
(* Every step *)

\* Bytes that were not written stay used.
LEMMA StaysGarbled == garbled /\ [Next]_vars => garbled'
<1> SUFFICES ASSUME garbled, [Next]_vars PROVE garbled'
  OBVIOUS
<1>1. CASE UNCHANGED vars
  BY <1>1 DEF vars, proxyVars
<1>2. ASSUME NEW c \in Clients, ClientGoesOn(c) \/ ClientGivesUp(c) PROVE garbled'
  BY <1>2 DEF ClientGoesOn, ClientGivesUp, proxyVars
<1>3. CASE ProxyMain \/ TinyProcess
  BY <1>3 DEF ProxyMain, ProxyAccept, TinyProcess, proxyVars
<1>4. ASSUME NEW w \in Workers, thread(w) PROVE garbled'
  <2>1. CASE sbuf_remove(w) \/ CloseFd(w) \/ ProxyDies(w)
    BY <2>1 DEF sbuf_remove, CloseFd, ProxyDies, Unchanged, proxyVars
  <2>2. CASE ReadRequest(w) \/ Open_clientfd(w) \/ SendLine(w) \/ ReadHeader(w) \/ ForwardHeader(w)
    BY <2>2 DEF ReadRequest, Open_clientfd, SendLine, ReadHeader, ForwardHeader, Unchanged
  <2>3. CASE EndHeaders(w) \/ ReadResponse(w) \/ Relay(w) \/ EndResponse(w) \/ Reply(w)
    BY <2>3 DEF EndHeaders, ReadResponse, Relay, EndResponse, Reply, Unchanged
  <2>4. CASE parseUrl(w)
    <3>1. \E p : garbled' = (garbled \/ p)
      BY <2>4 DEF parseUrl
    <3> QED BY <3>1
  <2>5. CASE AddHeader(w)
    <3>1. \E p : garbled' = (garbled \/ p)
      BY <2>5 DEF AddHeader
    <3> QED BY <3>1
  <2> QED BY <1>4, <2>1, <2>2, <2>3, <2>4, <2>5 DEF thread, doit
<1> QED BY <1>1, <1>2, <1>3, <1>4 DEF Next, ProxyThread

\* The invariant, whatever a worker does.
LEMMA ThreadStep ==
  ASSUME Inv, ~ garbled', NEW w \in Workers, ProxyThread(w)
  PROVE  Inv'
<1>1. thread(w) /\ UNCHANGED <<tiny, clientVars>>
  BY DEF ProxyThread
<1>2. CASE sbuf_remove(w) \/ CloseFd(w) \/ ProxyDies(w)
  BY <1>1, <1>2, StepSbufRemove, StepCloseFd, StepProxyDies
<1>3. CASE ReadRequest(w) \/ parseUrl(w) \/ Open_clientfd(w) \/ SendLine(w) \/ ReadHeader(w) \/ ForwardHeader(w)
  BY <1>1, <1>3, StepReadRequest, StepParseUrl, StepOpenClientfd, StepSendLine, StepReadHeader,
     StepForwardHeader
<1>4. CASE EndHeaders(w) \/ AddHeader(w) \/ ReadResponse(w) \/ Relay(w) \/ EndResponse(w) \/ Reply(w)
  BY <1>1, <1>4, StepEndHeaders, StepAddHeader, StepReadResponse, StepRelay, StepEndResponse, StepReply
<1> QED BY <1>1, <1>2, <1>3, <1>4 DEF thread, doit

\* The invariant, whatever Tiny does.
LEMMA TinyProcessStep == ASSUME Inv, TinyProcess PROVE Inv'
<1>1. TinyNext /\ UNCHANGED <<proxyVars, clientVars>>
  BY DEF TinyProcess
<1> QED BY <1>1, StepTinyAccept, StepTinyRequest, StepReadRequesthdrs, StepServe, StepTinyWrites,
           StepTinyDies, StepTinyGoesOn, StepTinyCloses DEF TinyNext

\* The invariant, whatever a client does.
LEMMA ClientsStep ==
  ASSUME Inv, NEW c \in Clients, ClientGoesOn(c) \/ ClientGivesUp(c)
  PROVE  Inv'
BY StepClientConnects, StepClientSends, StepClientReads, StepClientCloses
   DEF ClientGoesOn, ClientGivesUp

\* The invariant, when nothing happens.
LEMMA Stutters == ASSUME Inv, UNCHANGED vars PROVE Inv'
<1>1. UNCHANGED <<conn, backlog, dead, tiny, queue, worker, list, size, garbled, request, client>>
  BY DEF vars, netVars, listenVars, proxyVars, cacheVars, clientVars
<1>2. TypeOK' /\ Places'
  BY <1>1 DEF Inv, TypeOK, NetTypes, ProxyTypes, OtherTypes, Places, ProxyPlaces, TinyPlaces, InProxy,
              InTiny, TinyAlive, crashed
<1>3. ASSUME NEW x PROVE KeepsConn(x) /\ KeepsTiny(x) /\ KeepsSent(x)
  <2>1. Open(x)' <=> Open(x)
    BY <1>1 DEF Open
  <2> QED BY <1>1, <2>1, ConnKeepsSent DEF KeepsConn, KeepsTiny, TinyAlive, InTiny, crashed
<1>4. ASSUME NEW x PROVE (WaitsForTiny(x)' => WaitsForTiny(x)) /\ (WaitsForProxy(x)' => WaitsForProxy(x))
  BY <1>1 DEF WaitsForTiny, WaitsForProxy, TinyAlive, crashed
<1>5. ASSUME NEW c \in Clients PROVE CliOK(c)'
  <2>1. CliOK(c)
    BY DEF Inv, ClientsOK, CliOK
  <2> QED BY <1>1, <1>3, <1>4, <2>1, ClientSame
<1>6. ASSUME NEW w \in Workers, ~ crashed' PROVE WorkerOK(w)'
  <2>1. WorkerOK(w)
    BY <1>1, <1>6 DEF Inv, WorkersOK, crashed
  <2> QED BY <1>1, <1>3, <1>6, <2>1, WorkerSame
<1>7. ASSUME NEW w \in Workers PROVE GetsFile(w)'
  BY <1>1, <1>3, GetsFileSame DEF Inv, WorkersOK
<1>8. CacheOK'
  BY <1>1, CacheSame DEF Inv, TinyAlive
<1> QED BY <1>2, <1>5, <1>6, <1>7, <1>8 DEF Inv, ClientsOK, WorkersOK, CliOK

\* The invariant is inductive, as long as no bytes are used that were not written.
LEMMA Kept == (garbled \/ Inv) /\ [Next]_vars => (garbled \/ Inv)'
<1> SUFFICES ASSUME garbled \/ Inv, [Next]_vars, ~ garbled' PROVE Inv'
  OBVIOUS
<1>1. Inv
  BY StaysGarbled
<1>2. CASE UNCHANGED vars
  BY <1>1, <1>2, Stutters
<1>3. CASE Next
  <2>1. CASE ProxyMain
    BY <1>1, <2>1, StepProxyAccept DEF ProxyMain
  <2>2. CASE TinyProcess
    BY <1>1, <2>2, TinyProcessStep
  <2> QED BY <1>1, <1>3, <2>1, <2>2, ClientsStep, ThreadStep DEF Next
<1> QED BY <1>2, <1>3

\* The inductive invariant of proxy.c's doit, of tiny.c and of the connections between them, in
\* every reachable state.
THEOREM AnswersFlow == Spec => [](garbled \/ Inv)
<1>1. Init => garbled \/ Inv
  BY InitInv
<1> QED BY <1>1, Kept, PTL DEF Spec

-----------------------------------------------------------------------------
(* What the invariant says of the properties *)

\* A piece that begins with the first line is a prefix.
LEMMA PieceIsPrefix ==
  ASSUME NEW S, NEW s \in Seq(S), NEW a \in Seq(S), Piece(s, 0, a)
  PROVE  IsPrefixOf(s, a) /\ (Len(s) = Len(a) => s = a)
<1>1. Len(s) \in Nat /\ Len(a) \in Nat /\ Len(s) =< Len(a) /\ \A i \in 1 .. Len(s) : s[i] = a[i]
  BY DEF Piece
<1>2. /\ SubSeq(a, 1, Len(s)) \in Seq(S) /\ Len(SubSeq(a, 1, Len(s))) = Len(s)
      /\ \A i \in 1 .. Len(s) : SubSeq(a, 1, Len(s))[i] = a[i]
  <2>1. PICK n \in Nat : n = Len(s) /\ n =< Len(a)
    BY <1>1
  <2>2. /\ SubSeq(a, 1, n) \in Seq(S) /\ Len(SubSeq(a, 1, n)) = n
        /\ \A i \in 1 .. n : SubSeq(a, 1, n)[i] = a[i]
    <3>1. \A i \in 1 .. n : i \in 1 .. Len(a)
      BY <1>1, <2>1
    <3> QED BY <1>1, <2>1, <3>1, SubSeqProperties
  <2> QED BY <2>1, <2>2
<1>3. s = SubSeq(a, 1, Len(s))
  BY <1>1, <1>2, SeqEqual
<1>4. ASSUME Len(s) = Len(a) PROVE s = a
  BY <1>1, <1>4, SeqEqual
<1> QED BY <1>1, <1>3, <1>4 DEF IsPrefixOf

\* The invariant implies that answers are right.
LEMMA InvAnswers == Inv => RightAnswer
<1> SUFFICES ASSUME Inv, NEW c \in Clients
             PROVE  \E a \in RightAnswers(c) :
                      /\ IsPrefixOf(client[c].got, a)
                      /\ client[c].state = "done" /\ dead = {} => client[c].got = a
  BY DEF RightAnswer
<1>1. PICK a \in RightAnswers(c) :
        /\ Sent(c, a)
        /\ "far" \in conn[c].closed /\ client[c].state # "left" /\ dead = {} => Given(c) = Len(a)
  BY DEF Inv, ClientsOK, AnswerOK
<1>2. a \in Seq(Lines) /\ client[c].got \in Seq(Lines)
  BY RightOnes DEF Inv, TypeOK, OtherTypes, ClientTypes
<1>3. IsPrefixOf(client[c].got, a) /\ (Len(client[c].got) = Len(a) => client[c].got = a)
  BY <1>1, <1>2, PieceIsPrefix DEF Sent
<1>4. ASSUME client[c].state = "done", dead = {} PROVE client[c].got = a
  <2>1. "far" \in conn[c].closed /\ conn[c].down = <<>>
    BY <1>4 DEF Inv, ClientsOK, ClientOK
  <2>2. Len(client[c].got) = Len(a)
    BY <1>1, <1>2, <1>4, <2>1 DEF Given
  <2> QED BY <1>3, <2>2
<1> QED BY <1>3, <1>4

\* The invariant implies that the cache is right.
LEMMA InvCache == Inv => CacheIsRight
<1> SUFFICES ASSUME Inv, NEW i \in DOMAIN list, NEW a, a = Cut(Answer(Path(list[i].key)))
             PROVE  IsPrefixOf(list[i].data, a) /\ ("tiny" \notin dead => list[i].data = a)
  BY DEF CacheIsRight
<1>1. list[i].data \in Seq(Lines)
  <2>1. PICK S : S = [key : AllUrls, data : Seq(Lines)]
    OBVIOUS
  <2>2. list \in Seq(S)
    BY <2>1 DEF Inv, TypeOK, ProxyTypes
  <2>3. list[i] \in S
    BY <2>2, ElementOfSeq
  <2> QED BY <2>1, <2>3
<1>2. EntryOK(list[i])
  BY DEF Inv, CacheOK
<1>3. PICK b : b = Answer(Path(list[i].key))
  OBVIOUS
<1>4. b \in Answers /\ Piece(list[i].data, 0, Cut(b)) /\ (TinyAlive => Len(list[i].data) = Len(b))
  BY <1>2, <1>3, SomeLines DEF EntryOK
<1>5. a \in Seq(Lines) /\ Len(a) = Len(b)
  BY <1>3, <1>4, AnswersTyped
<1> QED BY <1>1, <1>3, <1>4, <1>5, PieceIsPrefix DEF TinyAlive

\* RightAnswer of Web.
THEOREM AnswersAreRight == Spec => []RightAnswer
<1>1. garbled \/ Inv => RightAnswer
  BY InvAnswers DEF RightAnswer
<1> QED BY <1>1, AnswersFlow, PTL

\* CacheIsRight of Web.
THEOREM CacheStaysRight == Spec => []CacheIsRight
<1>1. garbled \/ Inv => CacheIsRight
  BY InvCache DEF CacheIsRight
<1> QED BY <1>1, AnswersFlow, PTL
-----------------------------------------------------------------------------
(***************************************************************************)
(* What kills the proxy or Tiny.  As long as nothing does, Tiny reads from *)
(* a worker until the empty line, which is the last that the worker sends: *)
(* neither of them writes to a closed connection, and what Tiny closes has *)
(* been read.                                                              *)
(***************************************************************************)
Calm == \A c \in Clients : ~ Fatal(c)

NoBlank(s)  == \A i \in DOMAIN s : s[i] # CRLF
Complete(s) == s # <<>> /\ \A i \in DOMAIN s : s[i] = CRLF <=> i = Len(s)

\* Tiny has not read, and will read, to the end of what w sends.
StillReads(w) == "far" \notin conn[w].closed /\ (tiny.fd = w => tiny.pc \in {"request", "headers"})

HeadersOK(w) ==
  LET me == worker[w]
  IN  me.pc \in ConnectedPCs /\ Server(me.fd) = "tiny" =>
        /\ me.pc \in EarlyPCs => StillReads(w) /\ NoBlank(conn[w].up)
        /\ me.pc = "add" => Complete(me.todo)
        /\ me.pc \in DownloadPCs => conn[w].up = <<>> \/ (StillReads(w) /\ Complete(conn[w].up))

\* Mmap fails only on an empty file.
ExitOK == tiny.pc = "write" /\ tiny.then = "exit" =>
            Files[tiny.uri].stat = "ok" /\ ~ Files[tiny.uri].cgi /\ Files[tiny.uri].body = <<>>

Unharmed == /\ dead = {} /\ ExitOK /\ (list = <<>> => size \in InitialSizes)
            /\ \A w \in Workers : HeadersOK(w) /\ worker[w].pc # "null"

\* A client whose request a process still has in hand has not closed.
LEMMA ClientStays ==
  ASSUME Inv, Calm, NEW c \in Clients, client[c].state \notin {"new", "refused"}, "far" \notin conn[c].closed
  PROVE  Open(c)
<1>1. ClientOK(c) /\ ~ Fatal(c)
  BY DEF Inv, ClientsOK, Calm
<1>2. client[c].state # "left"
  BY <1>1 DEF ClientOK, Fatal
<1> QED BY <1>1, <1>2 DEF ClientOK

\* The object that a worker gives up is too long.
LEMMA NotTooLong ==
  ASSUME Inv, Calm, NEW w \in Workers, ~ crashed, worker[w].pc = "relay"
  PROVE  worker[w].rev_data # NULL
<1> SUFFICES ASSUME worker[w].rev_data = NULL PROVE FALSE
  OBVIOUS
<1>1. worker[w].pc \in ConnectedPCs /\ worker[w].pc \in DownloadPCs /\ worker[w].pc \notin EarlyPCs
      /\ worker[w].pc \notin {"take", "request", "response"}
  BY DEF ConnectedPCs, DownloadPCs, EarlyPCs
<1>2. PICK c, u : c = worker[w].fd /\ u = Uri(c)
  OBVIOUS
<1>3. c \in Clients /\ WorkerOK(w) /\ u \in DOMAIN Files /\ request[c].to = "proxy"
  BY <1>1, <1>2, Served
<1>4. Server(c) = "tiny"
  BY <1>1, <1>2, <1>3 DEF WorkerOK, RequestOK, FromHung
<1>5. PICK n \in Nat : Download(w, n)
  BY <1>1, <1>2, <1>3, <1>4 DEF WorkerOK, FromTiny
<1>6. n > MAX_OBJECT_SIZE /\ n < Len(Answer(u)) /\ MAX_OBJECT_SIZE \in Nat \ {0}
  BY <1>2, <1>5, ProxyAssumption DEF Download
<1>7. Files[u].stat = "ok" /\ Len(Answer(u)) \in Nat
  <2>1. PICK l \in Nat : l = Len(Answer(u)) /\ (Files[u].stat # "ok" => l = 2)
    BY <1>3, LongEnough
  <2>2. l # 2
    BY <1>6, <2>1
  <2> QED BY <2>1, <2>2
<1>8. Len(Answer(u)) = 1 + Len(Files[u].body)
  BY <1>3, <1>7, GoodAnswer, BodySeq
<1>9. Len(Files[u].body) > MAX_OBJECT_SIZE
  BY <1>3, <1>6, <1>8, Lengths
<1>10. ~ Fatal(c)
  BY <1>3 DEF Calm
<1> QED BY <1>2, <1>3, <1>4, <1>9, <1>10 DEF Fatal

\* Nothing that would end the proxy happens in w's next step.  The size of the cache is the one
\* thing that no request decides: lru_put takes an empty list to be full if malloc returned a
\* block that holds the capacity where size is.
LEMMA NoFault ==
  ASSUME Inv, Calm, Unharmed, CacheCapacity \notin InitialSizes, NEW w \in Workers
  PROVE  ~ Fault(w)
<1>1. ~ crashed /\ TypeOK /\ TinyAlive /\ HeadersOK(w) /\ worker[w].pc # "null" /\ dead = {}
  BY DEF Unharmed, crashed, TinyAlive, Inv
<1>2. PICK c : c = worker[w].fd
  OBVIOUS
<1>3. ASSUME worker[w].pc # "take"
      PROVE  /\ c \in Clients /\ request[c].to = "proxy" /\ Open(c) /\ WorkerOK(w) /\ ~ Fatal(c)
             /\ "far" \notin conn[c].closed
  BY <1>1, <1>2, <1>3, Served, ClientStays DEF Calm
<1>4. ASSUME worker[w].pc \in EarlyPCs PROVE ~ PeerGone(w, "near")
  <2>1. worker[w].pc \in ConnectedPCs /\ worker[w].pc \notin {"take", "request"}
    BY <1>4 DEF ConnectedPCs, EarlyPCs
  <2>2. "far" \notin conn[w].closed
    BY <1>1, <1>2, <1>3, <1>4, <2>1 DEF HeadersOK, StillReads, WorkerOK, RequestOK, FromHung
  <2> QED BY <2>2 DEF PeerGone, Peer
<1>5. ~ SIGPIPE(w)
  <2>1. CASE worker[w].pc \in {"line", "add", "forward"}
    <3>1. worker[w].pc \in EarlyPCs /\ worker[w].pc # "relay" /\ worker[w].pc # "reply"
      BY <2>1 DEF EarlyPCs
    <3> QED BY <1>4, <3>1 DEF SIGPIPE
  <2>2. CASE worker[w].pc \in {"relay", "reply"}
    <3>1. ~ PeerGone(c, "far")
      BY <1>3, <2>2 DEF PeerGone, Peer, Open
    <3> QED BY <1>2, <2>2, <3>1 DEF SIGPIPE
  <2> QED BY <2>1, <2>2 DEF SIGPIPE
<1>6. ~ (At(w, "parse") /\ ColonInPath(worker[w].url))
  <2> SUFFICES ASSUME worker[w].pc = "parse", ColonInPath(worker[w].url) PROVE FALSE
    BY DEF At
  <2>1. worker[w].url = Url(c)
    BY <1>2, <1>3 DEF WorkerOK, RequestOK
  <2> QED BY <1>3, <2>1 DEF Fatal
<1>7. ~ (At(w, "connect") /\ ~ Reachable(w))
  <2> SUFFICES ASSUME worker[w].pc = "connect", ~ Reachable(w) PROVE FALSE
    BY DEF At
  <2>1. Url(c).scheme = "http"
    BY <1>2, <1>3 DEF WorkerOK, RequestOK, Fatal
  <2>2. Address(w) = <<Url(c).host, Url(c).port>>
    BY <1>2, <1>3, <2>1 DEF WorkerOK, RequestOK, Address
  <2>3. Server(c) = "none"
    BY <1>1, <1>3, <2>2 DEF Reachable, Server
  <2> QED BY <1>3, <2>3 DEF Fatal
<1>8. ASSUME worker[w].pc = "response" PROVE ~ Reset(w, "near") /\ ~ PutCrashes(w)
  <2>1. worker[w].pc \in ConnectedPCs /\ worker[w].pc \in DownloadPCs /\ worker[w].pc \notin {"take", "request"}
    BY <1>8 DEF ConnectedPCs, DownloadPCs
  <2>2. ~ Reset(w, "near")
    BY <1>1, <1>2, <1>3, <2>1 DEF HeadersOK, StillReads, WorkerOK, RequestOK, FromHung, Reset, PeerGone, Peer, Out
  <2>3. ~ PutCrashes(w)
    BY DEF PutCrashes, Unharmed
  <2> QED BY <2>2, <2>3
<1> QED BY <1>1, <1>5, <1>6, <1>7, <1>8 DEF Fault, At

\* Tiny writes to no closed connection, and maps no empty file.
LEMMA TinyLives ==
  ASSUME Inv, Calm, Unharmed
  PROVE  ~ TinyDies
<1> SUFFICES ASSUME tiny.pc = "write", PeerGone(tiny.fd, "far") \/ tiny.then = "exit" PROVE FALSE
  BY DEF TinyDies
<1>1. ~ crashed /\ TinyAlive /\ ExitOK
  BY DEF Unharmed, crashed, TinyAlive
<1>2. PICK x : x = tiny.fd
  OBVIOUS
<1>3. /\ x \in Conns /\ InTiny(x) /\ tiny \in TinyStates /\ "far" \notin conn[x].closed /\ TinyPlaces
      /\ x \notin Elems(backlog["tiny"]) /\ request \in Requests
  BY <1>2, TinyFacts DEF Inv, TypeOK, OtherTypes
<1>4. ASSUME tiny.then = "exit", NEW c \in Clients, Server(c) = "tiny", NEW k, NEW line, TinyHas(k, line),
             line[2] = Uri(c)
      PROVE  FALSE
  <2>1. tiny.uri = Uri(c)
    BY <1>4 DEF TinyHas, Forks
  <2>2. Fatal(c)
    BY <1>1, <1>4, <2>1 DEF ExitOK, Fatal
  <2> QED BY <2>2 DEF Calm
<1>5. CASE x \in Clients
  <2>1. request[x].to = "tiny" /\ client[x].state \notin {"new", "refused"} /\ CliOK(x)
    BY <1>3, <1>5 DEF TinyPlaces, Inv, ClientsOK, CliOK
  <2>2. Open(x)
    BY <1>3, <1>5, <2>1, ClientStays
  <2>3. ~ PeerGone(x, "far")
    BY <2>2 DEF PeerGone, Peer, Open
  <2>4. TinyHas(Given(x), Asked(x))
    BY <1>1, <1>2, <1>3, <2>1, <2>2 DEF CliOK, DirectOK, TinyAt
  <2>5. Server(x) = "tiny" /\ Asked(x)[2] = Uri(x)
    BY <1>5, <2>1 DEF Server, Uri, Url
  <2> QED BY <1>2, <1>4, <1>5, <2>3, <2>4, <2>5
<1>6. CASE x \in Workers
  <2>1. worker[x].pc \in ConnectedPCs /\ worker[x].pc \notin {"take", "request"}
    BY <1>1, <1>3, <1>6 DEF TinyPlaces, ConnectedPCs, EarlyPCs, DownloadPCs
  <2>2. PICK c : c = worker[x].fd
    OBVIOUS
  <2>3. c \in Clients /\ WorkerOK(x) /\ Uri(c) \in DOMAIN Files
    BY <1>1, <1>6, <2>1, <2>2, Served
  <2>4. Open(x) /\ Server(c) = "tiny" /\ FromTiny(x)
    BY <1>1, <1>3, <2>1, <2>2, <2>3 DEF WorkerOK, RequestOK, FromHung
  <2>5. ~ PeerGone(x, "far")
    BY <2>4 DEF PeerGone, Peer, Open
  <2>6. HeadersOK(x)
    BY <1>6 DEF Unharmed
  <2>7. worker[x].pc \notin EarlyPCs
    BY <1>2, <2>1, <2>2, <2>4, <2>6 DEF HeadersOK, StillReads
  <2>8. worker[x].pc \in DownloadPCs
    BY <2>1, <2>7 DEF ConnectedPCs
  <2>9. PICK n \in Nat : Download(x, n)
    BY <2>1, <2>2, <2>4, <2>8 DEF FromTiny
  <2>10. worker[x].pc \in {"relay", "response"}
    BY <1>6, <2>8 DEF DownloadPCs, Unharmed
  <2>11. \E m : Flow(x, m, GetLine(Uri(c)))
    BY <2>2, <2>9, <2>10 DEF Download
  <2>12. \E k : TinyHas(k, GetLine(Uri(c)))
    BY <1>1, <1>2, <1>3, <2>11 DEF Flow, TinyAt
  <2>13. GetLine(Uri(c))[2] = Uri(c)
    BY <2>3, GetAnswer
  <2> QED BY <1>2, <1>4, <2>3, <2>4, <2>5, <2>12, <2>13
<1> QED BY <1>3, <1>5, <1>6 DEF Conns

-----------------------------------------------------------------------------
(* Nobody is harmed *)

\* Between v and Tiny, nothing happens.
LEMMA HeadersSame ==
  ASSUME NEW v \in Workers, request' = request, worker'[v] = worker[v],
         conn'[v].up = conn[v].up, conn'[v].closed \subseteq conn[v].closed \cup {"near"},
         tiny'.fd = v => tiny'.pc = "request" \/ (tiny.fd = v /\ tiny'.pc = tiny.pc),
         HeadersOK(v)
  PROVE  HeadersOK(v)'
<1>1. PICK c : c = worker[v].fd
  OBVIOUS
<1>2. Server(c)' = Server(c) /\ c = worker'[v].fd
  BY <1>1, SameRequest
<1>3. StillReads(v) => StillReads(v)'
  BY DEF StillReads
<1> QED BY <1>1, <1>2, <1>3 DEF HeadersOK

\* A header keeps the request open; the empty line ends it.
LEMMA NoBlankAppend ==
  ASSUME NEW s \in Seq(Lines), NoBlank(s), NEW line \in Lines
  PROVE  /\ line # CRLF => NoBlank(Append(s, line))
         /\ line = CRLF => Complete(Append(s, line))
<1>1. /\ DOMAIN s = 1 .. Len(s) /\ DOMAIN Append(s, line) = 1 .. Len(s) + 1 /\ Len(s) \in Nat
      /\ Append(s, line)[Len(s) + 1] = line /\ \A i \in 1 .. Len(s) : Append(s, line)[i] = s[i]
      /\ Len(Append(s, line)) = Len(s) + 1 /\ Append(s, line) # <<>>
  BY Appended
<1>2. \A i \in 1 .. Len(s) + 1 : i \in 1 .. Len(s) \/ i = Len(s) + 1
  BY <1>1
<1> QED BY <1>1, <1>2 DEF NoBlank, Complete

\* What is read of an unfinished request is no empty line.
LEMMA NoBlankTail ==
  ASSUME NEW s \in Seq(Lines), s # <<>>, NoBlank(s)
  PROVE  NoBlank(Tail(s)) /\ Head(s) # CRLF
<1>1. /\ DOMAIN s = 1 .. Len(s) /\ DOMAIN Tail(s) = 1 .. Len(s) - 1 /\ Len(s) \in Nat \ {0} /\ Head(s) = s[1]
      /\ \A i \in 1 .. Len(s) - 1 : Tail(s)[i] = s[i + 1]
  BY HeadTail
<1>2. \A i \in 1 .. Len(s) - 1 : i + 1 \in 1 .. Len(s)
  BY <1>1
<1> QED BY <1>1, <1>2 DEF NoBlank

\* The empty line is the last that is read of a request.
LEMMA CompleteTail ==
  ASSUME NEW s \in Seq(Lines), Complete(s)
  PROVE  /\ Head(s) = CRLF => Tail(s) = <<>>
         /\ Head(s) # CRLF => Complete(Tail(s))
<1>1. /\ s # <<>> /\ DOMAIN s = 1 .. Len(s) /\ DOMAIN Tail(s) = 1 .. Len(s) - 1 /\ Len(s) \in Nat \ {0} /\ Head(s) = s[1]
      /\ Tail(s) \in Seq(Lines) /\ Len(Tail(s)) = Len(s) - 1
      /\ \A i \in 1 .. Len(s) - 1 : Tail(s)[i] = s[i + 1]
  BY HeadTail DEF Complete
<1>1a. PICK rest \in Seq(Lines) : rest = Tail(s) /\ Len(rest) = Len(s) - 1
  <2>1. \A q : q = Tail(s) => q \in Seq(Lines) /\ Len(q) = Len(s) - 1
    BY <1>1, Zenon
  <2> QED BY <2>1, Zenon
<1>2. \A i \in 1 .. Len(s) : s[i] = CRLF <=> i = Len(s)
  BY <1>1 DEF Complete
<1>3. ASSUME Head(s) = CRLF PROVE Tail(s) = <<>>
  <2>1. 1 \in 1 .. Len(s) /\ s[1] = CRLF
    BY <1>1, <1>3
  <2>2. Len(s) = 1
    BY <1>2, <2>1
  <2>3. Len(rest) = 0
    BY <1>1a, <2>2
  <2> QED BY <1>1a, <2>3, EmptySeq
<1>4. ASSUME Head(s) # CRLF PROVE Complete(Tail(s))
  <2>1. 1 \in 1 .. Len(s) /\ s[1] # CRLF
    BY <1>1, <1>4
  <2>2. Tail(s) # <<>>
    <3>1. Len(s) # 1
      BY <1>2, <2>1
    <3>2. Len(rest) # 0
      BY <1>1, <1>1a, <3>1
    <3> QED BY <1>1a, <3>2, EmptySeq
  <2>3. \A i \in 1 .. Len(s) - 1 : i + 1 \in 1 .. Len(s) /\ (i + 1 = Len(s) <=> i = Len(s) - 1)
    BY <1>1
  <2> QED BY <1>1, <1>2, <2>2, <2>3 DEF Complete
<1> QED BY <1>3, <1>4

\* The headers that a worker adds end with the one empty line.
LEMMA AddedComplete == ASSUME NEW seen \in SUBSET Headers PROVE Complete(Added(seen))
<1> DEFINE Plain == {<<h>> : h \in Headers \cup {"Proxy-Connection:"}}
<1>1. CRLF \notin Plain
  BY DEF CRLF, Headers
<1>2. \A h \in Headers : Unless(seen, h) \in Seq(Plain)
  <2> SUFFICES ASSUME NEW h \in Headers PROVE Unless(seen, h) \in Seq(Plain)
    OBVIOUS
  <2>1. <<h>> \in Plain
    OBVIOUS
  <2> HIDE DEF Plain
  <2>2. <<>> \in Seq(Plain) /\ <<<<h>>>> \in Seq(Plain)
    BY <2>1
  <2> QED BY <2>2 DEF Unless
<1>3. <<"Proxy-Connection:">> \in Plain
  OBVIOUS
<1> HIDE DEF Plain
<1>4. PICK s \in Seq(Plain) :
        s = Unless(seen, "Host:") \o Unless(seen, "User-Agent:") \o Unless(seen, "Connection:")
  <2>1. /\ Unless(seen, "Host:") \in Seq(Plain) /\ Unless(seen, "User-Agent:") \in Seq(Plain)
        /\ Unless(seen, "Connection:") \in Seq(Plain)
    BY <1>2 DEF Headers
  <2>2. \A p, q, r : p \in Seq(Plain) /\ q \in Seq(Plain) /\ r \in Seq(Plain) => p \o q \o r \in Seq(Plain)
    BY ConcatProperties
  <2> QED BY <2>1, <2>2
<1>5. PICK t : t = <<<<"Proxy-Connection:">>, CRLF>>
  OBVIOUS
<1>6. PICK S : S = Plain \cup {CRLF}
  OBVIOUS
<1>7. /\ t \in Seq(S) /\ Len(t) = 2 /\ t[1] \in Plain /\ t[2] = CRLF /\ s \in Seq(S)
      /\ Len(s) \in Nat /\ \A i \in 1 .. Len(s) : s[i] \in Plain
  <2>1. <<"Proxy-Connection:">> \in S /\ CRLF \in S
    BY <1>3, <1>6
  <2>2. t \in Seq(S) /\ Len(t) = 2 /\ t[1] \in Plain /\ t[2] = CRLF
    BY <1>3, <1>5, <2>1
  <2>3. Len(s) \in Nat /\ \A i \in 1 .. Len(s) : s[i] \in Plain
    BY ElementOfSeq
  <2>4. s \in Seq(S)
    BY <1>6, <2>3
  <2> QED BY <2>2, <2>3, <2>4
<1>8. /\ Len(s \o t) = Len(s) + 2 /\ DOMAIN (s \o t) = 1 .. Len(s) + 2 /\ s \o t \in Seq(S)
      /\ \A i \in 1 .. Len(s) + 2 : (s \o t)[i] = IF i =< Len(s) THEN s[i] ELSE t[i - Len(s)]
  <2>1. /\ s \o t \in Seq(S) /\ Len(s \o t) = Len(s) + Len(t)
        /\ \A i \in 1 .. Len(s) + Len(t) : (s \o t)[i] = IF i =< Len(s) THEN s[i] ELSE t[i - Len(s)]
    BY <1>7, ConcatProperties
  <2>2. Len(s) + Len(t) = Len(s) + 2 /\ DOMAIN (s \o t) = 1 .. Len(s \o t)
    BY <1>7, <2>1
  <2> QED BY <2>1, <2>2
<1>9. ASSUME NEW i \in 1 .. Len(s) + 2 PROVE (s \o t)[i] = CRLF <=> i = Len(s) + 2
  <2>1. CASE i \in 1 .. Len(s)
    <3>1. (s \o t)[i] = s[i]
      BY <1>7, <1>8, <2>1
    <3>2. i # Len(s) + 2 /\ s[i] \in Plain
      BY <1>7, <2>1
    <3> QED BY <1>1, <3>1, <3>2
  <2>2. CASE i = Len(s) + 1
    <3>1. (s \o t)[i] = t[1]
      <4>1. ~ (i =< Len(s)) /\ i - Len(s) = 1
        BY <1>7, <2>2
      <4> QED BY <1>8, <4>1
    <3> QED BY <1>1, <1>7, <2>2, <3>1
  <2>3. CASE i = Len(s) + 2
    <3>1. (s \o t)[i] = t[2]
      <4>1. ~ (i =< Len(s)) /\ i - Len(s) = 2
        BY <1>7, <2>3
      <4> QED BY <1>8, <4>1
    <3> QED BY <1>7, <2>3, <3>1
  <2>4. i \in 1 .. Len(s) \/ i = Len(s) + 1 \/ i = Len(s) + 2
    BY <1>7
  <2> QED BY <2>1, <2>2, <2>3, <2>4
<1>10. Added(seen) = s \o t
  BY <1>4, <1>5 DEF Added
<1>11. s \o t # <<>>
  BY <1>7, <1>8
<1> QED BY <1>8, <1>9, <1>10, <1>11 DEF Complete

-----------------------------------------------------------------------------
(* No worker does harm *)

\* Nobody is harmed, when w alone moves.
LEMMA WorkerUnharmed ==
  ASSUME Unharmed, NEW w \in Workers, UNCHANGED <<dead, tiny, request>>,
         \A v \in Workers \ {w} : worker'[v] = worker[v] /\ conn'[v] = conn[v],
         HeadersOK(w)', worker'[w].pc # "null", list' = <<>> => list = <<>> /\ size' = size
  PROVE  Unharmed'
<1>1. ASSUME NEW v \in Workers \ {w} PROVE HeadersOK(v)' /\ worker'[v].pc # "null"
  BY <1>1, HeadersSame DEF Unharmed
<1>2. ExitOK'
  BY DEF Unharmed, ExitOK
<1> QED BY <1>1, <1>2 DEF Unharmed

\* What w does where no server is involved.
LEMMA Aside ==
  ASSUME Inv, Unharmed, NEW w \in Workers, UNCHANGED <<tiny, clientVars>>,
         sbuf_remove(w) \/ parseUrl(w) \/ Reply(w) \/ CloseFd(w)
  PROVE  Unharmed'
<1>1. worker \in [Workers -> WorkerTypes] /\ TypeOK /\ NetTypes /\ ~ crashed
  BY DEF Inv, TypeOK, ProxyTypes, sbuf_remove, parseUrl, Reply, CloseFd, At
<1>2. UNCHANGED <<dead, tiny, request, list, size>>
  BY DEF sbuf_remove, parseUrl, Reply, CloseFd, Unchanged, netVars, listenVars, cacheVars, clientVars
<1>3. /\ worker'[w].pc \in {"request", "reply", "connect", "take"}
      /\ \A v \in Workers \ {w} : worker'[v] = worker[v]
  <2>1. CASE sbuf_remove(w)
    BY <1>1, <2>1 DEF sbuf_remove, WorkerTypes
  <2>2. CASE parseUrl(w)
    BY <1>1, <2>2, ParsedWorker
  <2>3. CASE Reply(w)
    BY <1>1, <2>3 DEF Reply, At, WorkerTypes
  <2>4. CASE CloseFd(w)
    BY <1>1, <2>4 DEF CloseFd, WorkerTypes
  <2> QED BY <2>1, <2>2, <2>3, <2>4
<1>4. ASSUME NEW v \in Workers PROVE conn'[v] = conn[v]
  <2>1. CASE sbuf_remove(w) \/ parseUrl(w)
    BY <2>1 DEF sbuf_remove, parseUrl, netVars
  <2>2. CASE Reply(w) \/ CloseFd(w)
    <3>1. worker[w].pc # "take"
      BY <2>2 DEF Reply, CloseFd, At
    <3>2. worker[w].fd \in Clients /\ worker[w].fd \in Conns /\ worker[w].fd # v /\ v \in Conns
      BY <1>1, <3>1, Served, ConnsFacts
    <3>3. Only(worker[w].fd)
      <4>1. CASE Reply(w)
        <5>1. worker[w].todo \in Seq(Lines) /\ worker[w].todo # <<>>
          BY <1>1, <4>1 DEF Reply, WorkerTypes
        <5>2. Head(worker[w].todo) \in Lines
          BY <5>1, HeadTail
        <5> QED BY <1>1, <3>2, <4>1, <5>2, WriteFar DEF Reply
      <4>2. CASE CloseFd(w)
        BY <1>1, <3>2, <4>2, Closes DEF CloseFd
      <4> QED BY <2>2, <4>1, <4>2
    <3> QED BY <3>2, <3>3 DEF Only
  <2> QED BY <2>1, <2>2
<1>5. HeadersOK(w)' /\ worker'[w].pc # "null"
  BY <1>3 DEF HeadersOK, ConnectedPCs, EarlyPCs, DownloadPCs
<1> QED BY <1>2, <1>3, <1>4, <1>5, WorkerUnharmed

\* Nobody is harmed, when w reads the request line.
LEMMA AsideRead ==
  ASSUME Inv, Unharmed, NEW w \in Workers, UNCHANGED <<tiny, clientVars>>, ReadRequest(w)
  PROVE  Unharmed'
<1>1. worker \in [Workers -> WorkerTypes] /\ TypeOK /\ NetTypes /\ ~ crashed /\ worker[w].pc # "take"
  BY DEF Inv, TypeOK, ProxyTypes, ReadRequest, At
<1>2. UNCHANGED <<dead, tiny, request>>
  BY DEF ReadRequest, listenVars, clientVars
<1>3. /\ worker'[w].pc \in {"close", "reply", "parse"}
      /\ \A v \in Workers \ {w} : worker'[v] = worker[v]
  BY <1>1 DEF ReadRequest, WorkerTypes
<1>4. PICK c : c = worker[w].fd
  OBVIOUS
<1>5. c \in Clients /\ c \in Conns /\ \A v \in Workers : c # v /\ v \in Conns
  BY <1>1, <1>4, Served, ConnsFacts
<1>6. Only(c)
  BY <1>1, <1>4, <1>5, ReadFar DEF ReadRequest, Only
<1>7. HeadersOK(w)' /\ worker'[w].pc # "null"
  BY <1>3 DEF HeadersOK, ConnectedPCs, EarlyPCs, DownloadPCs
<1>8. list' = <<>> => list = <<>> /\ size' = size
  <2>1. CASE UNCHANGED cacheVars
    BY <2>1 DEF cacheVars
  <2>2. CASE Cache!lru_get(NextLine(c, "far")[2])
    <3>1. PICK k : k = NextLine(c, "far")[2]
      OBVIOUS
    <3>2. size' = size /\ list' = Cache!Touch(list, k)
      BY <2>2, <3>1 DEF Cache!lru_get
    <3>3. PICK S : S = [key : AllUrls, data : Seq(Lines)]
      OBVIOUS
    <3>4. list \in Seq(S)
      BY <1>1, <3>3 DEF TypeOK, ProxyTypes
    <3> QED BY <3>2, <3>4, NeverEmpty
  <2> QED BY <1>4, <2>1, <2>2 DEF ReadRequest
<1> QED BY <1>2, <1>3, <1>5, <1>6, <1>7, <1>8, WorkerUnharmed DEF Only

\* What w does while it sends.
LEMMA SendingUnharmed ==
  ASSUME Inv, Unharmed, NEW w \in Workers, worker[w].pc \in EarlyPCs, NEW c, c = worker[w].fd,
         UNCHANGED <<dead, tiny, request, list, size>>,
         \A v \in Workers \ {w} : worker'[v] = worker[v] /\ conn'[v] = conn[v],
         worker'[w].fd = c, worker'[w].pc \in EarlyPCs \cup {"response"}, conn'[w].closed = conn[w].closed,
         StillReads(w) /\ NoBlank(conn[w].up) /\ (worker[w].pc = "add" => Complete(worker[w].todo)) =>
           /\ worker'[w].pc \in EarlyPCs => NoBlank(conn'[w].up)
           /\ worker'[w].pc = "add" => Complete(worker'[w].todo)
           /\ worker'[w].pc = "response" => Complete(conn'[w].up)
  PROVE  Unharmed'
<1>1. /\ worker'[w].pc # "null" /\ worker[w].pc \in ConnectedPCs
      /\ worker'[w].pc \in DownloadPCs => worker'[w].pc = "response"
      /\ worker'[w].pc = "response" => worker'[w].pc \notin EarlyPCs /\ worker'[w].pc # "add"
  BY DEF EarlyPCs, DownloadPCs, ConnectedPCs
<1>2. Server(c)' = Server(c)
  BY SameRequest
<1>3. StillReads(w)' <=> StillReads(w)
  BY DEF StillReads
<1>4. HeadersOK(w)
  BY DEF Unharmed
<1>5. ASSUME Server(c) = "tiny"
      PROVE  StillReads(w) /\ NoBlank(conn[w].up) /\ (worker[w].pc = "add" => Complete(worker[w].todo))
  BY <1>1, <1>4, <1>5 DEF HeadersOK
<1>6. HeadersOK(w)'
  <2>1. ASSUME Server(c) = "tiny"
        PROVE  /\ StillReads(w)' /\ (worker'[w].pc \in EarlyPCs => NoBlank(conn'[w].up))
               /\ worker'[w].pc = "add" => Complete(worker'[w].todo)
               /\ worker'[w].pc = "response" => Complete(conn'[w].up)
    BY <1>3, <1>5, <2>1
  <2> QED BY <1>1, <1>2, <2>1 DEF HeadersOK
<1> QED BY <1>1, <1>6, WorkerUnharmed

\* Nobody is harmed, when w sends the request line or a header.
LEMMA Sends ==
  ASSUME Inv, Unharmed, NEW w \in Workers, UNCHANGED <<tiny, clientVars>>,
         SendLine(w) \/ ReadHeader(w) \/ ForwardHeader(w)
  PROVE  Unharmed'
<1>1. worker \in [Workers -> WorkerTypes] /\ TypeOK /\ NetTypes /\ ~ crashed
      /\ worker[w].pc \in {"line", "header", "forward"}
  BY DEF Inv, TypeOK, ProxyTypes, SendLine, ReadHeader, ForwardHeader, At
<1>2. PICK c : c = worker[w].fd
  OBVIOUS
<1>3. /\ worker[w].pc \in EarlyPCs /\ worker[w].pc \notin {"take", "request", "add"} /\ worker[w].buf \in Lines
      /\ worker[w].pc \in ConnectedPCs
  BY <1>1 DEF EarlyPCs, ConnectedPCs, WorkerTypes
<1>4. /\ c \in Clients /\ c \in Conns /\ c # w /\ w \in Conns /\ WorkerOK(w)
      /\ \A v \in Workers : v \in Conns /\ v # c
  BY <1>1, <1>2, <1>3, Served, ConnsFacts
<1>5. UNCHANGED <<dead, tiny, request, list, size>>
  BY DEF SendLine, ReadHeader, ForwardHeader, Unchanged, listenVars, cacheVars, clientVars
<1>6. /\ worker'[w].pc \in {"header", "forward"} /\ worker'[w].fd = c
      /\ \A v \in Workers \ {w} : worker'[v] = worker[v]
  <2>1. CASE SendLine(w)
    BY <1>1, <1>2, <2>1 DEF SendLine, WorkerTypes
  <2>2. CASE ReadHeader(w)
    BY <1>1, <1>2, <2>2 DEF ReadHeader, WorkerTypes
  <2>3. CASE ForwardHeader(w)
    BY <1>1, <1>2, <2>3 DEF ForwardHeader, WorkerTypes
  <2> QED BY <2>1, <2>2, <2>3
<1>7. CASE ReadHeader(w)
  <2>1. Only(c)
    BY <1>1, <1>2, <1>4, <1>7, ReadFar DEF ReadHeader, Only
  <2>2. \A v \in Workers : conn'[v] = conn[v]
    BY <1>4, <2>1 DEF Only
  <2>3. worker'[w].pc \in EarlyPCs /\ worker'[w].pc # "add" /\ worker'[w].pc # "response"
    BY <1>6 DEF EarlyPCs
  <2> QED BY <1>2, <1>3, <1>5, <1>6, <2>2, <2>3, SendingUnharmed
<1>8. CASE SendLine(w) \/ ForwardHeader(w)
  <2>1. worker[w].buf # CRLF
    <3>1. CASE SendLine(w)
      <4>1. worker[w].buf = GetLine(Uri(c))
        BY <1>2, <1>3, <1>4, <3>1 DEF SendLine, At, WorkerOK, RequestOK
      <4> QED BY <4>1 DEF GetLine, Line, CRLF
    <3>2. CASE ForwardHeader(w)
      BY <3>2 DEF ForwardHeader
    <3> QED BY <1>8, <3>1, <3>2
  <2>2. /\ Only(w) /\ conn'[w].closed = conn[w].closed
        /\ "far" \notin conn[w].closed => conn'[w].up = Append(conn[w].up, worker[w].buf)
    BY <1>1, <1>3, <1>4, <1>8, WriteNear DEF SendLine, ForwardHeader
  <2>3. \A v \in Workers \ {w} : conn'[v] = conn[v]
    BY <1>4, <2>2 DEF Only
  <2>4. ASSUME StillReads(w), NoBlank(conn[w].up) PROVE NoBlank(conn'[w].up)
    <3>1. conn'[w].up = Append(conn[w].up, worker[w].buf) /\ conn[w].up \in Seq(Lines)
      BY <1>1, <1>4, <2>2, <2>4, ConnFacts DEF StillReads
    <3> QED BY <1>3, <2>1, <2>4, <3>1, NoBlankAppend
  <2>5. worker'[w].pc \in EarlyPCs /\ worker'[w].pc # "add" /\ worker'[w].pc # "response"
    BY <1>6 DEF EarlyPCs
  <2> QED BY <1>2, <1>3, <1>5, <1>6, <2>2, <2>3, <2>4, <2>5, SendingUnharmed
<1> QED BY <1>7, <1>8

\* Nobody is harmed, when w sends the headers that it adds.
LEMMA SendsEnd ==
  ASSUME Inv, Unharmed, NEW w \in Workers, UNCHANGED <<tiny, clientVars>>,
         EndHeaders(w) \/ AddHeader(w)
  PROVE  Unharmed'
<1>1. worker \in [Workers -> WorkerTypes] /\ TypeOK /\ NetTypes /\ ~ crashed
      /\ worker[w].pc \in {"forward", "add"}
  BY DEF Inv, TypeOK, ProxyTypes, EndHeaders, AddHeader, At
<1>2. PICK c : c = worker[w].fd
  OBVIOUS
<1>3. /\ worker[w].pc \in EarlyPCs /\ worker[w].pc \notin {"take", "request"}
      /\ worker[w].seen \in SUBSET Headers /\ worker[w].todo \in Seq(Lines)
  BY <1>1 DEF EarlyPCs, WorkerTypes
<1>4. /\ w \in Conns /\ WorkerOK(w) /\ \A v \in Workers : v \in Conns
  BY <1>1, <1>2, <1>3, Served, ConnsFacts
<1>5. UNCHANGED <<dead, tiny, request, list, size>>
  BY DEF EndHeaders, AddHeader, Unchanged, listenVars, cacheVars, clientVars
<1>6. CASE EndHeaders(w)
  <2>1. /\ worker'[w].pc = "add" /\ worker'[w].fd = c /\ worker'[w].todo = Added(worker[w].seen)
        /\ \A v \in Workers \ {w} : worker'[v] = worker[v]
    BY <1>1, <1>2, <1>6 DEF EndHeaders, WorkerTypes
  <2>2. Complete(worker'[w].todo)
    BY <1>3, <2>1, AddedComplete
  <2>3. conn' = conn
    BY <1>6 DEF EndHeaders
  <2>4. worker'[w].pc \in EarlyPCs /\ worker'[w].pc # "response"
    BY <2>1 DEF EarlyPCs
  <2> QED BY <1>2, <1>3, <1>5, <2>1, <2>2, <2>3, <2>4, SendingUnharmed
<1>7. CASE AddHeader(w)
  <2>1. worker[w].todo # <<>> /\ worker[w].pc = "add"
    BY <1>3, <1>4, <1>7 DEF AddHeader, At, WorkerOK, RequestOK
  <2>2. PICK line \in Lines, rest \in Seq(Lines) : line = Head(worker[w].todo) /\ rest = Tail(worker[w].todo)
    BY <1>3, <2>1, HeadTail
  <2>3. PICK pc, d : /\ pc = IF rest = <<>> THEN "response" ELSE "add"
                     /\ worker' = [worker EXCEPT ![w].pc = pc, ![w].todo = rest, ![w].rev_data = d]
    BY <1>7, <2>2 DEF AddHeader
  <2>4. /\ worker'[w].pc = pc /\ worker'[w].fd = c /\ worker'[w].todo = rest
        /\ \A v \in Workers \ {w} : worker'[v] = worker[v]
    BY <1>1, <1>2, <2>3 DEF WorkerTypes
  <2>5. /\ Only(w) /\ conn'[w].closed = conn[w].closed
        /\ "far" \notin conn[w].closed => conn'[w].up = Append(conn[w].up, line)
    BY <1>1, <1>4, <1>7, <2>2, WriteNear DEF AddHeader
  <2>6. \A v \in Workers \ {w} : conn'[v] = conn[v]
    BY <1>4, <2>5 DEF Only
  <2>7. ASSUME StillReads(w), NoBlank(conn[w].up), Complete(worker[w].todo)
        PROVE  /\ pc \in EarlyPCs => NoBlank(conn'[w].up) /\ Complete(rest)
               /\ pc = "response" => Complete(conn'[w].up)
    <3>1. (line = CRLF => rest = <<>>) /\ (line # CRLF => Complete(rest))
      BY <1>3, <2>2, <2>7, CompleteTail
    <3>2. pc \in EarlyPCs => rest # <<>>
      BY <2>3 DEF EarlyPCs
    <3>3. rest = <<>> => line = CRLF
      BY <3>1 DEF Complete
    <3>4. conn'[w].up = Append(conn[w].up, line) /\ conn[w].up \in Seq(Lines)
      BY <1>1, <1>4, <2>5, <2>7, ConnFacts DEF StillReads
    <3>5. (line # CRLF => NoBlank(conn'[w].up)) /\ (line = CRLF => Complete(conn'[w].up))
      BY <2>7, <3>4, NoBlankAppend
    <3>6. pc = "response" => rest = <<>>
      BY <2>3
    <3> QED BY <3>1, <3>2, <3>3, <3>5, <3>6
  <2>8. pc \in EarlyPCs \cup {"response"} /\ (pc = "add" => pc \in EarlyPCs)
    BY <2>3 DEF EarlyPCs
  <2> QED BY <1>2, <1>3, <1>5, <2>1, <2>4, <2>5, <2>6, <2>7, <2>8, SendingUnharmed
<1> QED BY <1>6, <1>7

\* Nobody is harmed, when w connects.
LEMMA Opens ==
  ASSUME Inv, Unharmed, NEW w \in Workers, UNCHANGED <<tiny, clientVars>>, Open_clientfd(w)
  PROVE  Unharmed'
<1>1. worker \in [Workers -> WorkerTypes] /\ TypeOK /\ NetTypes /\ ~ crashed /\ TinyAlive
      /\ worker[w].pc \notin ConnectedPCs /\ w \in Conns
  BY ConnsFacts DEF Inv, TypeOK, ProxyTypes, Open_clientfd, At, ConnectedPCs, EarlyPCs, DownloadPCs, Unharmed, TinyAlive
<1>2. /\ worker'[w].pc = "line" /\ \A v \in Workers \ {w} : worker'[v] = worker[v]
  BY <1>1 DEF Open_clientfd, WorkerTypes
<1>3. Only(w) /\ conn'[w] = Fresh /\ dead' = dead
  BY <1>1, Connects DEF Open_clientfd
<1>4. UNCHANGED <<tiny, request, list, size>>
  BY DEF Open_clientfd, cacheVars, clientVars
<1>5. tiny.fd # w
  BY <1>1 DEF Inv, Places, TinyPlaces, InTiny
<1>6. HeadersOK(w)'
  <2>1. StillReads(w)'
    BY <1>3, <1>4, <1>5, FreshFacts DEF StillReads
  <2>2. NoBlank(conn'[w].up)
    BY <1>3, FreshFacts DEF NoBlank
  <2>3. worker'[w].pc \notin DownloadPCs /\ worker'[w].pc # "add"
    BY <1>2 DEF DownloadPCs
  <2> QED BY <2>1, <2>2, <2>3 DEF HeadersOK
<1>7. \A v \in Workers \ {w} : conn'[v] = conn[v]
  BY <1>3, ConnsFacts DEF Only
<1> QED BY <1>2, <1>3, <1>4, <1>6, <1>7, WorkerUnharmed

\* What w does while it receives.
LEMMA Receives ==
  ASSUME Inv, Calm, Unharmed, NEW w \in Workers, UNCHANGED <<tiny, clientVars>>,
         ReadResponse(w) \/ Relay(w)
  PROVE  Unharmed'
<1>1. worker \in [Workers -> WorkerTypes] /\ TypeOK /\ NetTypes /\ ~ crashed
      /\ worker[w].pc \in {"response", "relay"}
  BY DEF Inv, TypeOK, ProxyTypes, ReadResponse, Relay, At
<1>2. PICK c : c = worker[w].fd
  OBVIOUS
<1>3. /\ worker[w].pc \in DownloadPCs /\ worker[w].pc \notin {"take", "request"} /\ worker[w].buf \in Lines
      /\ worker[w].pc \in ConnectedPCs
  BY <1>1 DEF DownloadPCs, ConnectedPCs, WorkerTypes
<1>4. c \in Conns /\ c # w /\ w \in Conns /\ \A v \in Workers : v \in Conns /\ v # c
  BY <1>1, <1>2, <1>3, Served, ConnsFacts
<1>5. UNCHANGED <<dead, tiny, request, list, size>>
  BY DEF ReadResponse, Relay, Unchanged, listenVars, cacheVars, clientVars
<1>6. /\ worker'[w].pc \in {"response", "relay"} /\ worker'[w].fd = c
      /\ \A v \in Workers \ {w} : worker'[v] = worker[v]
  <2>1. CASE ReadResponse(w)
    BY <1>1, <1>2, <2>1 DEF ReadResponse, WorkerTypes
  <2>2. CASE Relay(w)
    <3>1. worker[w].rev_data # NULL
      BY <1>1, <2>2, NotTooLong DEF Relay, At
    <3>2. PICK new : worker' = [worker EXCEPT ![w].pc = "response", ![w].rev_data = new]
      BY <2>2, <3>1 DEF Relay
    <3> QED BY <1>1, <1>2, <3>2 DEF WorkerTypes
  <2> QED BY <2>1, <2>2
<1>7. /\ conn'[w].up = conn[w].up /\ conn'[w].closed = conn[w].closed
      /\ \A v \in Workers \ {w} : conn'[v] = conn[v]
  <2>1. CASE ReadResponse(w)
    BY <1>1, <1>4, <2>1, ReadNear DEF ReadResponse, Only
  <2>2. CASE Relay(w)
    <3>1. Only(c)
      BY <1>1, <1>2, <1>3, <1>4, <2>2, WriteFar DEF Relay
    <3> QED BY <1>4, <3>1 DEF Only
  <2> QED BY <2>1, <2>2
<1>8. Server(c)' = Server(c) /\ (StillReads(w) => StillReads(w)')
  BY <1>5, <1>7, SameRequest DEF StillReads
<1>9. worker'[w].pc \in DownloadPCs /\ worker'[w].pc \notin EarlyPCs /\ worker'[w].pc \notin {"add", "null"}
  BY <1>6 DEF DownloadPCs, EarlyPCs
<1>10. Server(c) = "tiny" => conn[w].up = <<>> \/ (StillReads(w) /\ Complete(conn[w].up))
  <2>1. HeadersOK(w)
    BY DEF Unharmed
  <2> QED BY <1>2, <1>3, <2>1 DEF HeadersOK
<1>11. HeadersOK(w)'
  BY <1>6, <1>7, <1>8, <1>9, <1>10 DEF HeadersOK
<1> QED BY <1>5, <1>6, <1>7, <1>9, <1>11, WorkerUnharmed

\* Nobody is harmed, when w puts the answer into the cache.
LEMMA Ends ==
  ASSUME Inv, Unharmed, NEW w \in Workers, UNCHANGED <<tiny, clientVars>>, EndResponse(w)
  PROVE  Unharmed'
<1>1. /\ worker \in [Workers -> WorkerTypes] /\ TypeOK /\ NetTypes /\ ~ crashed
      /\ worker[w].pc = "response" /\ worker[w].pc \in ConnectedPCs /\ worker[w].pc \notin {"take", "request"}
      /\ w \in Conns
  BY ConnsFacts DEF Inv, TypeOK, ProxyTypes, EndResponse, At, ConnectedPCs, DownloadPCs
<1>2. /\ worker'[w].pc = "close" /\ \A v \in Workers \ {w} : worker'[v] = worker[v]
  BY <1>1 DEF EndResponse, WorkerTypes
<1>3. Only(w) /\ \A v \in Workers \ {w} : conn'[v] = conn[v]
  <2>1. Only(w)
    BY <1>1, Closes DEF EndResponse
  <2> QED BY <2>1, ConnsFacts DEF Only
<1>4. UNCHANGED <<dead, tiny, request>>
  BY DEF EndResponse, listenVars, clientVars
<1>5. HeadersOK(w)' /\ worker'[w].pc # "null"
  BY <1>2 DEF HeadersOK, ConnectedPCs, EarlyPCs, DownloadPCs
<1>6. list' = <<>> => list = <<>> /\ size' = size
  <2>1. CASE worker[w].rev_data = NULL
    BY <2>1 DEF EndResponse, cacheVars
  <2>2. CASE worker[w].rev_data # NULL
    <3>1. PICK k, d, S : k = worker[w].url /\ d = worker[w].rev_data /\ S = [key : AllUrls, data : Seq(Lines)]
      OBVIOUS
    <3>2. Cache!lru_put(k, d) /\ ~ Cache!PutCrash(k)
      <4>1. Cache!lru_put(k, d)
        BY <2>2, <3>1 DEF EndResponse
      <4>2. ~ PutCrashes(w)
        BY DEF EndResponse
      <4> QED BY <2>2, <3>1, <4>1, <4>2 DEF PutCrashes, Cache!PutCrash
    <3>3. k \in AllUrls
      <4>1. PICK c : c = worker[w].fd
        OBVIOUS
      <4>2. Url(c) \in AllUrls /\ WorkerOK(w)
        BY <1>1, <4>1, Served
      <4>3. k = Full(Url(c))
        BY <1>1, <3>1, <4>1, <4>2 DEF WorkerOK, RequestOK
      <4>4. "/" \in STRING
        BY ProxyAssumption
      <4> QED BY <4>2, <4>3, <4>4 DEF Full, AllUrls
    <3>4. d \in Seq(Lines)
      BY <1>1, <3>1 DEF WorkerTypes
    <3>5. [key |-> k, data |-> d] \in S /\ list \in Seq(S)
      BY <1>1, <3>1, <3>3, <3>4 DEF TypeOK, ProxyTypes
    <3>6. list' # <<>>
      <4>1. CASE Cache!PutFound(k, d)
        BY <3>5, <4>1, NeverEmpty DEF Cache!PutFound
      <4>2. CASE Cache!PutNew(k, d)
        BY <3>5, <4>2, NeverEmpty DEF Cache!PutNew
      <4> QED BY <3>2, <4>1, <4>2 DEF Cache!lru_put
    <3> QED BY <3>6
  <2> QED BY <2>1, <2>2
<1> QED BY <1>2, <1>3, <1>4, <1>5, <1>6, WorkerUnharmed

\* Nobody is harmed, whatever a worker does.
LEMMA ThreadUnharmed ==
  ASSUME Inv, Calm, Unharmed, CacheCapacity \notin InitialSizes, NEW w \in Workers, ProxyThread(w)
  PROVE  Unharmed'
<1>1. ~ ProxyDies(w)
  BY NoFault DEF ProxyDies
<1> QED BY <1>1, Aside, AsideRead, Opens, Sends, SendsEnd, Receives, Ends DEF ProxyThread, thread, doit

\* Nobody is harmed, when workers, their connections and Tiny stay as they are.
LEMMA OthersUnharmed ==
  ASSUME Unharmed, UNCHANGED <<dead, tiny, request, worker, list, size>>, \A v \in Workers : conn'[v] = conn[v]
  PROVE  Unharmed'
<1>1. ASSUME NEW v \in Workers PROVE HeadersOK(v)' /\ worker'[v].pc # "null"
  BY HeadersSame DEF Unharmed
<1>2. ExitOK'
  BY DEF Unharmed, ExitOK
<1> QED BY <1>1, <1>2 DEF Unharmed

\* Nobody is harmed, whatever a client does.
LEMMA ClientUnharmed ==
  ASSUME Inv, Unharmed, NEW c \in Clients, ClientGoesOn(c) \/ ClientGivesUp(c)
  PROVE  Unharmed'
<1>1. c \in Conns /\ NetTypes /\ TypeOK /\ \A v \in Workers : v \in Conns /\ v # c
  BY ConnsFacts DEF Inv, TypeOK
<1>2. UNCHANGED <<tiny, request, worker, list, size>>
  BY DEF ClientGoesOn, ClientGivesUp, proxyVars, cacheVars
<1>3. Only(c) /\ dead' = dead
  <2>1. CASE ClientConnects(c)
    BY <1>1, <2>1, Connects DEF ClientConnects, netVars, listenVars, Only
  <2>2. CASE ClientSends(c)
    <3>1. request[c].lines[client[c].sent + 1] \in Lines
      <4>1. request[c].lines \in Seq(Lines) /\ Len(request[c].lines) \in Nat /\ client[c].sent \in Nat
        BY <1>1, AskedFacts DEF TypeOK, OtherTypes, ClientTypes
      <4>2. client[c].sent + 1 \in 1 .. Len(request[c].lines)
        BY <2>2, <4>1 DEF ClientSends
      <4> QED BY <4>1, <4>2
    <3> QED BY <1>1, <2>2, <3>1, WriteNear DEF ClientSends, listenVars
  <2>3. CASE ClientReads(c)
    BY <1>1, <2>3, ReadNear DEF ClientReads, listenVars
  <2>4. CASE ClientIsDone(c) \/ ClientLeaves(c)
    BY <1>1, <2>4, Closes DEF ClientIsDone, ClientLeaves, listenVars
  <2> QED BY <2>1, <2>2, <2>3, <2>4 DEF ClientGoesOn, ClientGivesUp
<1> QED BY <1>1, <1>2, <1>3, OthersUnharmed DEF Only

-----------------------------------------------------------------------------
(* Tiny and the main thread do none *)

\* A worker that Tiny serves has asked for a file, and waits.
LEMMA Serving ==
  ASSUME Inv, Unharmed, NEW v \in Workers, v = tiny.fd, tiny.pc \notin {"accept", "exit"}, NEW c, c = worker[v].fd
  PROVE  /\ worker[v].pc \in ConnectedPCs /\ worker[v].pc \notin {"take", "request"} /\ Server(c) = "tiny"
         /\ Open(v) /\ FromTiny(v) /\ HeadersOK(v) /\ "far" \notin conn[v].closed
<1>1. ~ crashed /\ TinyAlive /\ InTiny(v) /\ "far" \notin conn[v].closed /\ TinyPlaces
  BY TinyFacts DEF Unharmed, crashed, TinyAlive
<1>2. worker[v].pc \in ConnectedPCs /\ worker[v].pc \notin {"take", "request"}
  BY <1>1, ConnsFacts DEF TinyPlaces, ConnectedPCs, EarlyPCs, DownloadPCs
<1>3. WorkerOK(v)
  BY <1>1, <1>2, Served
<1> QED BY <1>1, <1>2, <1>3 DEF WorkerOK, RequestOK, FromHung, Unharmed

\* Nobody is harmed, when Tiny deals with x alone.
LEMMA TinyUnharmed ==
  ASSUME Unharmed, UNCHANGED <<dead, proxyVars, clientVars>>, NEW x, x = tiny.fd, Only(x), tiny'.fd \in {x, "none"},
         ExitOK', x \in Workers => HeadersOK(x)'
  PROVE  Unharmed'
<1>1. UNCHANGED <<worker, list, size, request>>
  BY DEF proxyVars, cacheVars, clientVars
<1>2. ASSUME NEW v \in Workers PROVE HeadersOK(v)' /\ worker'[v].pc # "null"
  <2>1. CASE v = x
    BY <1>1, <2>1 DEF Unharmed
  <2>2. CASE v # x
    <3>1. conn'[v] = conn[v] /\ tiny'.fd # v
      BY <2>2, ConnsFacts DEF Only
    <3> QED BY <1>1, <3>1, HeadersSame DEF Unharmed
  <2> QED BY <2>1, <2>2
<1> QED BY <1>1, <1>2 DEF Unharmed

\* Tiny reads a line that x sends.
LEMMA TinyReads ==
  ASSUME Inv, Unharmed, NEW x \in Workers, x = tiny.fd, tiny.pc \in {"request", "headers"},
         UNCHANGED <<worker, request>>, conn'[x].closed = conn[x].closed, conn[x].up # <<>>,
         conn'[x].up = Tail(conn[x].up),
         tiny'.pc = IF Head(conn[x].up) = CRLF THEN "serve" ELSE "headers"
  PROVE  HeadersOK(x)'
<1>1. PICK c, up : c = worker[x].fd /\ up = conn[x].up
  OBVIOUS
<1>2. worker[x].pc \in ConnectedPCs /\ Server(c) = "tiny" /\ HeadersOK(x) /\ "far" \notin conn[x].closed
  BY <1>1, Serving
<1>3. up \in Seq(Lines) /\ up # <<>> /\ Server(c)' = "tiny"
  BY <1>1, <1>2, ConnFacts, ConnsFacts, SameRequest DEF Inv, TypeOK
<1>4. tiny'.pc = "headers" => StillReads(x)'
  BY <1>2 DEF StillReads
<1>5. worker[x].pc \in EarlyPCs => NoBlank(Tail(up)) /\ tiny'.pc = "headers"
  BY <1>1, <1>2, <1>3, NoBlankTail DEF HeadersOK
<1>6. worker[x].pc = "add" => Complete(worker[x].todo)
  BY <1>1, <1>2 DEF HeadersOK
<1>7. worker[x].pc \in DownloadPCs => Tail(up) = <<>> \/ (Complete(Tail(up)) /\ tiny'.pc = "headers")
  <2> SUFFICES ASSUME worker[x].pc \in DownloadPCs PROVE Tail(up) = <<>> \/ (Complete(Tail(up)) /\ tiny'.pc = "headers")
    OBVIOUS
  <2>1. Complete(up)
    BY <1>1, <1>2, <1>3 DEF HeadersOK
  <2> QED BY <1>1, <1>3, <2>1, CompleteTail
<1> QED BY <1>1, <1>4, <1>5, <1>6, <1>7 DEF HeadersOK

\* Nobody is harmed, when Tiny reads or finds the end of the stream.
LEMMA TinyReadsUnharmed ==
  ASSUME Inv, Unharmed, UNCHANGED <<proxyVars, clientVars>>, TinyRequest \/ read_requesthdrs
  PROVE  Unharmed'
<1>1. tiny.pc \in {"request", "headers"} /\ tiny.pc \notin {"accept", "exit"} /\ UNCHANGED <<dead, worker, request>>
  BY DEF TinyRequest, read_requesthdrs, listenVars, proxyVars, clientVars
<1>2. PICK x, up : x = tiny.fd /\ up = conn[x].up
  OBVIOUS
<1>3. /\ x \in Conns /\ NetTypes /\ TypeOK /\ tiny \in TinyStates /\ "far" \notin conn[x].closed
      /\ tiny.pc = "request" => WaitsForTiny(x)
  BY <1>1, <1>2, TinyFacts DEF WaitsForTiny
<1>4. CASE AtEOF(x, "far")
  <2>1. conn' = conn /\ tiny'.fd = x /\ tiny'.pc \in {"close", "serve"}
    BY <1>2, <1>3, <1>4 DEF TinyRequest, read_requesthdrs, Rio_readlineb, AtEOF, TinyStates
  <2>2. x \notin Workers
    BY <1>1, <1>2, <1>4, Serving DEF AtEOF, PeerGone, Peer, Open
  <2>3. Only(x) /\ ExitOK'
    BY <2>1 DEF Only, ExitOK
  <2> QED BY <1>1, <1>2, <2>1, <2>2, <2>3, TinyUnharmed
<1>5. CASE Rio_readlineb(x, "far")
  <2>1. /\ Only(x) /\ up # <<>> /\ conn'[x].closed = conn[x].closed /\ conn'[x].up = Tail(up)
        /\ NextLine(x, "far") = Head(up) /\ ~ AtEOF(x, "far")
    BY <1>2, <1>3, <1>5, ReadFar DEF AtEOF, Rio_readlineb
  <2>2. CASE TinyRequest
    <3>1. tiny.pc = "request"
      BY <2>2 DEF TinyRequest
    <3>2. /\ tiny'.fd = x
          /\ tiny'.pc = IF Head(up)[1] = "GET" THEN "headers" ELSE "write"
          /\ tiny'.pc = "write" => tiny'.then = "close"
      <4>1. CASE Head(up)[1] = "GET"
        <5>1. \E stale : tiny' = [tiny EXCEPT !.pc = "headers", !.uri = Head(up)[2], !.buf = stale]
          BY <1>2, <2>1, <2>2, <4>1 DEF TinyRequest
        <5> QED BY <1>2, <1>3, <4>1, <5>1 DEF TinyStates
      <4>2. CASE Head(up)[1] # "GET"
        <5>1. tiny' = [tiny EXCEPT !.pc = "write", !.todo = clienterror("501"), !.then = "close"]
          BY <1>2, <2>1, <2>2, <4>2 DEF TinyRequest
        <5> QED BY <1>2, <1>3, <4>2, <5>1 DEF TinyStates
      <4> QED BY <4>1, <4>2
    <3>3. ASSUME x \in Workers PROVE HeadersOK(x)'
      <4>1. GetsFile(x)
        BY <3>3 DEF Inv, WorkersOK
      <4>2. PICK u \in DOMAIN Files : Head(up) = GetLine(u)
        BY <1>2, <1>3, <2>1, <3>1, <4>1 DEF GetsFile
      <4>3. Head(up)[1] = "GET" /\ Head(up) # CRLF
        BY <4>2 DEF GetLine, Line, CRLF
      <4> QED BY <1>1, <1>2, <2>1, <3>2, <3>3, <4>3, TinyReads
    <3>4. ExitOK'
      BY <3>2 DEF ExitOK
    <3> QED BY <1>1, <1>2, <2>1, <3>2, <3>3, <3>4, TinyUnharmed
  <2>3. CASE read_requesthdrs
    <3>1. tiny' = [tiny EXCEPT !.buf = Head(up), !.pc = IF Head(up) = CRLF THEN "serve" ELSE "headers"]
      BY <1>2, <2>1, <2>3, SomeLines DEF read_requesthdrs
    <3>2. tiny'.fd = x /\ tiny'.pc = IF Head(up) = CRLF THEN "serve" ELSE "headers"
      BY <1>2, <1>3, <3>1 DEF TinyStates
    <3>3. ExitOK'
      BY <3>2 DEF ExitOK
    <3> QED BY <1>1, <1>2, <2>1, <3>2, <3>3, TinyReads, TinyUnharmed
  <2> QED BY <2>2, <2>3
<1> QED BY <1>2, <1>4, <1>5 DEF TinyRequest, read_requesthdrs

\* Nobody is harmed, when Tiny answers: what it was asked has been read to the end.
LEMMA TinyServesUnharmed ==
  ASSUME Inv, Unharmed, UNCHANGED <<proxyVars, clientVars>>, serve \/ TinyWrites \/ TinyGoesOn \/ TinyCloses
  PROVE  Unharmed'
<1>1. tiny.pc \notin {"accept", "exit", "request", "headers"} /\ UNCHANGED <<dead, worker, request>>
  BY DEF serve, TinyWrites, TinyGoesOn, TinyCloses, netVars, listenVars, proxyVars, clientVars
<1>2. PICK x : x = tiny.fd
  OBVIOUS
<1>3. x \in Conns /\ NetTypes /\ TypeOK /\ tiny \in TinyStates /\ tiny.todo \in Seq(Lines) /\ ExitOK
  BY <1>1, <1>2, TinyFacts DEF Unharmed
<1>4. Only(x) /\ conn'[x].up = conn[x].up
  <2>1. CASE serve \/ TinyGoesOn
    BY <2>1 DEF serve, TinyGoesOn, netVars, Only
  <2>2. CASE TinyWrites
    <3>1. Head(tiny.todo) \in Lines
      BY <1>3, <2>2, HeadTail DEF TinyWrites
    <3> QED BY <1>2, <1>3, <2>2, <3>1, WriteFar DEF TinyWrites
  <2>3. CASE TinyCloses
    BY <1>2, <1>3, <2>3, Closes DEF TinyCloses
  <2> QED BY <2>1, <2>2, <2>3
<1>5. tiny'.fd \in {x, "none"} /\ ExitOK'
  <2>1. CASE serve
    <3>1. PICK file, todo, then :
            /\ file = Files[tiny.uri]
            /\ then = IF file.stat = "ok" /\ file.cgi THEN "fork"
                      ELSE IF file.stat = "ok" /\ file.body = <<>> THEN "exit" ELSE "close"
            /\ tiny' = [tiny EXCEPT !.pc = "write", !.todo = todo, !.then = then]
      BY <2>1 DEF serve
    <3>2. tiny'.fd = x /\ tiny'.then = then /\ tiny'.uri = tiny.uri
      BY <1>2, <1>3, <3>1 DEF TinyStates
    <3>3. then = "exit" => file.stat = "ok" /\ ~ file.cgi /\ file.body = <<>>
      BY <3>1, FilesAssumption
    <3> QED BY <3>1, <3>2, <3>3 DEF ExitOK
  <2>2. CASE TinyWrites
    <3>1. tiny'.fd = x /\ tiny'.pc = tiny.pc /\ tiny'.then = tiny.then /\ tiny'.uri = tiny.uri
      BY <1>2, <1>3, <2>2 DEF TinyWrites, TinyStates
    <3> QED BY <1>3, <3>1 DEF ExitOK
  <2>3. CASE TinyGoesOn
    <3>1. tiny'.fd = x /\ tiny'.pc \in {"close", "fork", "child"}
      BY <1>2, <1>3, <2>3 DEF TinyGoesOn, TinyStates
    <3> QED BY <3>1 DEF ExitOK
  <2>4. CASE TinyCloses
    BY <1>3, <2>4 DEF TinyCloses, TinyStates, ExitOK
  <2> QED BY <2>1, <2>2, <2>3, <2>4
<1>6. ASSUME x \in Workers PROVE HeadersOK(x)'
  <2>1. PICK c : c = worker[x].fd
    OBVIOUS
  <2>2. worker[x].pc \in ConnectedPCs /\ Server(c) = "tiny" /\ HeadersOK(x) /\ ~ StillReads(x)
    BY <1>1, <1>2, <1>6, <2>1, Serving DEF StillReads
  <2>3. conn'[x].up = <<>> /\ worker[x].pc \notin EarlyPCs /\ worker[x].pc # "add"
    BY <1>4, <2>1, <2>2 DEF HeadersOK, ConnectedPCs, EarlyPCs
  <2> QED BY <1>1, <2>3 DEF HeadersOK
<1> QED BY <1>1, <1>2, <1>4, <1>5, <1>6, TinyUnharmed

\* Nobody is harmed, when Tiny accepts a connection.
LEMMA TinyAcceptUnharmed ==
  ASSUME Unharmed, UNCHANGED <<proxyVars, clientVars>>, TinyAccept, tiny \in TinyStates
  PROVE  Unharmed'
<1>1. /\ UNCHANGED <<conn, dead, worker, list, size, request>> /\ tiny'.pc = "request"
  BY DEF TinyAccept, proxyVars, cacheVars, clientVars, TinyStates
<1>2. ASSUME NEW v \in Workers PROVE HeadersOK(v)' /\ worker'[v].pc # "null"
  BY <1>1, HeadersSame DEF Unharmed
<1> QED BY <1>1, <1>2 DEF Unharmed, ExitOK

\* Nobody is harmed, whatever Tiny does.
LEMMA ServerUnharmed ==
  ASSUME Inv, Calm, Unharmed, TinyProcess
  PROVE  Unharmed'
<1>1. TinyNext /\ UNCHANGED <<proxyVars, clientVars>> /\ tiny \in TinyStates
  BY DEF TinyProcess, Inv, TypeOK, OtherTypes, TinyTypes
<1> QED BY <1>1, TinyLives, TinyReadsUnharmed, TinyServesUnharmed, TinyAcceptUnharmed DEF TinyNext

\* Nobody is harmed, when main accepts a connection.
LEMMA MainUnharmed == ASSUME Unharmed, ProxyMain PROVE Unharmed'
<1>1. UNCHANGED <<conn, dead, tiny, request, worker, list, size>>
  BY DEF ProxyMain, ProxyAccept, cacheVars, clientVars
<1> QED BY <1>1, OthersUnharmed

-----------------------------------------------------------------------------
(* A death has a cause *)

\* In the beginning, everything is as it should be.
LEMMA InitUnharmed == Init => Unharmed
<1> SUFFICES ASSUME Init PROVE Unharmed
  OBVIOUS
<1> USE DEF Init
<1>1. /\ dead = {} /\ tiny.pc = "accept" /\ list = <<>> /\ size \in InitialSizes
      /\ \A w \in Workers : worker[w].pc = "take"
  BY DEF NetInit, ProxyInit, TinyInit, Cache!Init
<1> QED BY <1>1 DEF Unharmed, ExitOK, HeadersOK, ConnectedPCs, EarlyPCs, DownloadPCs

\* A client does not change its mind.
LEMMA SameRequests == [Next]_vars => request' = request
<1> SUFFICES ASSUME [Next]_vars PROVE request' = request
  OBVIOUS
<1>1. CASE UNCHANGED vars
  BY <1>1 DEF vars, clientVars
<1>2. CASE Next
  BY <1>2 DEF Next, ClientGoesOn, ClientGivesUp, ProxyThread, ProxyMain, TinyProcess, clientVars
<1> QED BY <1>1, <1>2

\* So if no request is fatal after a step, none was before it.
LEMMA CalmBefore == ASSUME request' = request, Calm' PROVE Calm
<1> SUFFICES ASSUME NEW c \in Clients PROVE ~ Fatal(c)
  BY DEF Calm
<1>1. Url(c)' = Url(c) /\ Uri(c)' = Uri(c) /\ Server(c)' = Server(c)
  BY SameRequest
<1>2. ~ Fatal(c)'
  BY DEF Calm
<1> QED BY <1>1, <1>2 DEF Fatal, ColonInPath

\* As long as no request is fatal, every step leaves proxy and Tiny alive.
LEMMA StaysUnharmed ==
  ASSUME Inv, Calm, Unharmed, CacheCapacity \notin InitialSizes, [Next]_vars
  PROVE  Unharmed'
<1>1. CASE UNCHANGED vars
  <2>1. UNCHANGED <<conn, dead, tiny, request, worker, list, size>>
    BY <1>1 DEF vars, netVars, listenVars, proxyVars, cacheVars, clientVars
  <2> QED BY <2>1, OthersUnharmed
<1>2. CASE Next
  BY <1>2, ClientUnharmed, ThreadUnharmed, MainUnharmed, ServerUnharmed DEF Next
<1> QED BY <1>1, <1>2

\* DeathHasCause of Web: without a fatal request, and with a cache whose size is not by chance its
\* capacity from the start, no order of the steps of clients, proxy.c and tiny.c ends a process.
THEOREM NobodyDies ==
  ASSUME CacheCapacity \notin InitialSizes
  PROVE  Spec => []DeathHasCause
<1> DEFINE Safe == garbled \/ (Inv /\ (Calm => Unharmed))
<1>1. Init => Safe
  BY InitInv, InitUnharmed
<1>2. Safe /\ [Next]_vars => Safe'
  <2> SUFFICES ASSUME Safe, [Next]_vars, ~ garbled' PROVE (Inv /\ (Calm => Unharmed))'
    OBVIOUS
  <2>1. ~ garbled /\ Inv /\ (Calm => Unharmed)
    BY StaysGarbled
  <2>2. Inv'
    BY <2>1, Kept
  <2>3. ASSUME Calm' PROVE Unharmed'
    BY <2>1, <2>3, SameRequests, CalmBefore, StaysUnharmed
  <2> QED BY <2>2, <2>3
<1>3. Safe => DeathHasCause
  BY DEF DeathHasCause, Calm, Unharmed
<1> HIDE DEF Safe
<1> QED BY <1>1, <1>2, <1>3, PTL DEF Spec
=============================================================================
