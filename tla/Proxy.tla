-------------------------------- MODULE Proxy --------------------------------
(***************************************************************************)
(* The requests of proxy/lab/proxy.c: each worker's doit, from the         *)
(* connection it takes out of the buffer to the one it closes.  The buffer *)
(* and the cache are used as their abstract specifications have them       *)
(* (BoundedFIFO, LruCache).  A wrapper of csapp.c whose call fails ends    *)
(* the process, and so does a write to a closed connection (SIGPIPE).      *)
(*                                                                         *)
(* A url has a scheme ("none" when it has no "://"), a host and a port,    *)
(* which are sequences of characters, the port empty when there is none, a *)
(* path, "" when there is none, and perhaps a colon in that path.          *)
(***************************************************************************)
EXTENDS Net

CONSTANTS Urls, Objects, CacheCapacity, InitialSizes,   \* as in LruCache
          SBUFSIZE,
          Servers,          \* the server, if there is one, at <<hostname, port>>
          IsBinary(_),      \* a line with a NUL in it
          MAX_OBJECT_SIZE,  \* in lines
          RootPaths,        \* what the '/' written over a NUL may begin
          NewData           \* what a new cacheData may hold

NULL == <<<<"NULL">>>>
AllUrls == [scheme : STRING, host : Seq(STRING), port : Seq(STRING), path : STRING, colon : BOOLEAN]

\* No name of a host begins with a NUL; Malloc does not return.
ASSUME ProxyAssumption ==
  /\ SBUFSIZE \in Nat \ {0} /\ MAX_OBJECT_SIZE \in Nat \ {0} /\ CacheCapacity \in Nat
  /\ InitialSizes \subseteq Int
  /\ "/" \in RootPaths /\ RootPaths \subseteq STRING
  /\ <<>> \in NewData /\ NULL \notin NewData
  /\ \A a \in DOMAIN Servers : Servers[a] \in {"tiny", "hung"} /\ (a[1] # <<>> => a[1][1] # "NUL")

VARIABLES queue,                 \* the connections in the buffer
          worker,                \* each worker's locals
          list, size,            \* the cache
          garbled                \* it has used bytes that this request did not write

cacheVars == <<list, size>>
crashed   == "proxy" \in dead
proxyVars == <<queue, worker, cacheVars, garbled>>

Cache == INSTANCE LruCache WITH Keys <- Urls, Data <- Objects, Capacity <- CacheCapacity

Page == <<<<"500">>, <<"page">>>>   \* of clienterror
CRLF == <<"\r\n">>
Line(method, uri, version) == <<method, uri, version>>
NoUrl == [scheme |-> "none", host |-> <<>>, port |-> <<>>, path |-> "/", colon |-> FALSE]

ProxyInit ==
  /\ queue = <<>> /\ Cache!Init /\ garbled = FALSE
  /\ worker = [w \in Workers |->
       [pc |-> "take", fd |-> "none", buf |-> CRLF, url |-> NoUrl, uri |-> "/",
        hostname |-> <<>>, port |-> <<>>, seen |-> {}, todo |-> <<>>, rev_data |-> NULL]]

At(w, pc) == ~ crashed /\ worker[w].pc = pc
Unchanged == UNCHANGED <<listenVars, queue, cacheVars, garbled>>

-----------------------------------------------------------------------------
\* main accepts a connection and puts it into the buffer.
ProxyAccept == /\ ~ crashed /\ Len(queue) < SBUFSIZE /\ Accept("proxy")
               /\ queue' = Append(queue, Head(backlog["proxy"]))
               /\ UNCHANGED <<conn, dead, worker, cacheVars, garbled>>

\* thread takes one out.
sbuf_remove(w) ==
  /\ At(w, "take") /\ queue # <<>> /\ queue' = Tail(queue)
  /\ worker' = [worker EXCEPT ![w].pc = "request", ![w].fd = Head(queue)]
  /\ UNCHANGED <<netVars, cacheVars, garbled>>

\* The request line is read, and its url looked up, whatever the method.
ReadRequest(w) ==
  LET fd   == worker[w].fd
      line == NextLine(fd, "far")
      url  == line[2]
  IN  /\ At(w, "request") /\ UNCHANGED <<listenVars, queue, garbled>>
      /\ \/ /\ AtEOF(fd, "far") /\ UNCHANGED <<conn, cacheVars>>
            /\ worker' = [worker EXCEPT ![w].pc = "close"]
         \/ /\ Rio_readlineb(fd, "far") /\ Cache!lru_get(url)
            /\ worker' = [worker EXCEPT
                 ![w].pc = IF Cache!Hit(list, url) \/ line[1] # "GET" THEN "reply" ELSE "parse",
                 ![w].todo = IF Cache!Hit(list, url) THEN list[Cache!Find(list, url)].data
                             ELSE IF line[1] # "GET" THEN Page ELSE <<>>,
                 ![w].buf = line, ![w].url = url]

\* strncpy copies the characters and no NUL: the rest of the array stays.
strncpy(array, chars) == chars \o SubSeq(array, Len(chars) + 1, Len(array))

\* parseUrl or parseVersion returns -1.
Refused(line) == line[2].scheme \notin {"http", "none"} \/ line[3] # "1.1"

\* A colon after the host's end: the length of the port is negative.
ColonInPath(url) == url.scheme = "http" /\ url.port = <<>> /\ url.colon

\* parseUrl.  `port = "80"' sets the parameter alone.
parseUrl(w) ==
  LET me == worker[w]  url == me.url
  IN  /\ At(w, "parse") /\ ~ ColonInPath(url)
      /\ \E root \in RootPaths :
           LET full == IF url.scheme = "http" /\ url.path = ""
                       THEN [url EXCEPT !.path = root] ELSE url
               host == CASE url.scheme = "http" -> strncpy(me.hostname, url.host)
                         [] url.scheme = "none" -> strncpy(me.hostname, <<"NUL">>)
                         [] OTHER               -> me.hostname
               port == CASE url.scheme = "http" -> strncpy(me.port, url.port)
                         [] url.scheme = "none" -> strncpy(me.port, <<"NUL">>)
                         [] OTHER               -> me.port
           IN  /\ worker' = [worker EXCEPT
                    ![w].url = full, ![w].uri = full.path, ![w].hostname = host, ![w].port = port,
                    ![w].pc = IF Refused(me.buf) THEN "reply" ELSE "connect",
                    ![w].todo = IF Refused(me.buf) THEN Page ELSE <<>>]
               /\ garbled' = \/ garbled
                             \/ /\ url.scheme = "http" /\ ~ Refused(me.buf)
                                /\ \/ host # url.host \/ port # url.port
                                   \/ url.path = "" /\ root # "/"
      /\ UNCHANGED <<netVars, queue, cacheVars>>

Address(w)   == <<worker[w].hostname, worker[w].port>>
Reachable(w) == Address(w) \in DOMAIN Servers /\ Servers[Address(w)] \notin dead

\* The version goes down to 1.0.
Open_clientfd(w) ==
  /\ At(w, "connect") /\ Reachable(w) /\ Connect(w, Servers[Address(w)])
  /\ worker' = [worker EXCEPT ![w].pc = "line", ![w].seen = {},
                              ![w].buf = Line("GET", worker[w].uri, "1.0")]
  /\ UNCHANGED <<queue, cacheVars, garbled>>

SendLine(w) == /\ At(w, "line") /\ Rio_writen(w, "near", worker[w].buf)
               /\ worker' = [worker EXCEPT ![w].pc = "header"] /\ Unchanged

\* At the end of the stream buf stays what it is.
ReadHeader(w) ==
  LET fd == worker[w].fd
  IN  /\ At(w, "header") /\ Unchanged
      /\ \/ /\ Rio_readlineb(fd, "far")
            /\ worker' = [worker EXCEPT ![w].pc = "forward", ![w].buf = NextLine(fd, "far")]
         \/ /\ AtEOF(fd, "far") /\ UNCHANGED conn
            /\ worker' = [worker EXCEPT ![w].pc = "forward"]

\* The first of the four tests that the line passes; Connection: is found in
\* Proxy-Connection:, too.
Seen(line) == (IF line = <<"Proxy-Connection:">> THEN {"Connection:"} ELSE {line[1]})
              \cap {"Host:", "User-Agent:", "Connection:"}

ForwardHeader(w) ==
  /\ At(w, "forward") /\ worker[w].buf # CRLF /\ Rio_writen(w, "near", worker[w].buf)
  /\ worker' = [worker EXCEPT ![w].pc = "header", ![w].seen = @ \cup Seen(worker[w].buf)]
  /\ Unchanged

\* What is added to the client's headers.
Unless(seen, header) == IF header \in seen THEN <<>> ELSE <<<<header>>>>

\* Mutant: the empty line is forgotten.
AddedNoBlank(seen) == Unless(seen, "Host:") \o Unless(seen, "User-Agent:") \o Unless(seen, "Connection:")
                        \o <<<<"Proxy-Connection:">>>>

Added(seen) == Unless(seen, "Host:") \o Unless(seen, "User-Agent:") \o Unless(seen, "Connection:")
                 \o <<<<"Proxy-Connection:">>, CRLF>>

EndHeaders(w) == /\ At(w, "forward") /\ worker[w].buf = CRLF
                 /\ worker' = [worker EXCEPT ![w].pc = "add", ![w].todo = Added(worker[w].seen)]
                 /\ UNCHANGED conn /\ Unchanged

\* After the last one, Malloc; the length in the new object is not set.
AddHeader(w) ==
  /\ At(w, "add") /\ UNCHANGED <<listenVars, queue, cacheVars>>
  /\ LET rest == Tail(worker[w].todo)
     IN  /\ Rio_writen(w, "near", Head(worker[w].todo))
         /\ \E d \in IF rest = <<>> THEN NewData ELSE {NULL} :
              /\ worker' = [worker EXCEPT ![w].pc = IF rest = <<>> THEN "response" ELSE "add",
                                          ![w].todo = rest, ![w].rev_data = d]
              /\ garbled' = (garbled \/ d \notin {NULL, <<>>})

ReadResponse(w) ==
  /\ At(w, "response") /\ Rio_readlineb(w, "near")
  /\ worker' = [worker EXCEPT ![w].pc = "relay", ![w].buf = NextLine(w, "near")]
  /\ Unchanged

\* As it is in the object: strncpy stops at a NUL.
Copied(line) == IF IsBinary(line) THEN Append(line, "cut") ELSE line

\* Mutant: the line that is too long is left out, and the rest kept.
CacheDropsLine(data, line) ==
  IF Len(data) + 1 > MAX_OBJECT_SIZE THEN data ELSE Append(data, Copied(line))

\* rev_data after a line, when it is not NULL before.
CacheLine(data, line) ==
  IF Len(data) + 1 > MAX_OBJECT_SIZE THEN NULL ELSE Append(data, Copied(line))

\* Mutant: a line for which the object has no room is not sent, either.
RelayWhatFits(w) ==
  LET me == worker[w]
  IN  /\ At(w, "relay") /\ Unchanged
      /\ IF CacheLine(me.rev_data, me.buf) = NULL THEN UNCHANGED conn
         ELSE Rio_writen(me.fd, "far", me.buf)
      /\ worker' = [worker EXCEPT
           ![w].pc = IF me.rev_data = NULL THEN "null" ELSE "response",
           ![w].rev_data = IF @ = NULL THEN NULL ELSE CacheLine(@, me.buf)]

\* The line goes to the client, and into rev_data, which must not be NULL.
Relay(w) ==
  LET me == worker[w]
  IN  /\ At(w, "relay") /\ Rio_writen(me.fd, "far", me.buf) /\ Unchanged
      /\ worker' = [worker EXCEPT
           ![w].pc = IF me.rev_data = NULL THEN "null" ELSE "response",
           ![w].rev_data = IF @ = NULL THEN NULL ELSE CacheLine(@, me.buf)]

\* lru_put evicts from an empty list.
PutCrashes(w) == /\ worker[w].rev_data # NULL /\ ~ Cache!Hit(list, worker[w].url)
                 /\ size = CacheCapacity /\ list = <<>>

\* The server has closed: what was received is cached.
EndResponse(w) ==
  LET me == worker[w]
  IN  /\ At(w, "response") /\ AtEOF(w, "near") /\ ~ Reset(w, "near") /\ ~ PutCrashes(w)
      /\ UNCHANGED <<listenVars, queue, garbled>>
      /\ IF me.rev_data = NULL THEN UNCHANGED cacheVars ELSE Cache!lru_put(me.url, me.rev_data)
      /\ Close(w, "near") /\ worker' = [worker EXCEPT ![w].pc = "close"]

\* A cached object or an error page goes to the client.
Reply(w) == /\ At(w, "reply") /\ worker[w].todo # <<>>
            /\ Rio_writen(worker[w].fd, "far", Head(worker[w].todo))
            /\ worker' = [worker EXCEPT ![w].todo = Tail(@)]
            /\ Unchanged

\* doit has returned.
CloseFd(w) == /\ At(w, "close") \/ (At(w, "reply") /\ worker[w].todo = <<>>)
              /\ Close(worker[w].fd, "far")
              /\ worker' = [worker EXCEPT ![w].pc = "take", ![w].fd = "none"]
              /\ Unchanged

\* A write to a closed connection.
SIGPIPE(w) ==
  LET me == worker[w]
  IN  \/ /\ me.pc \in {"line", "add"} \/ (me.pc = "forward" /\ me.buf # CRLF)
         /\ PeerGone(w, "near")
      \/ /\ me.pc = "relay" \/ (me.pc = "reply" /\ me.todo # <<>>)
         /\ PeerGone(me.fd, "far")

\* The process ends in w's next step.
Fault(w) == \/ SIGPIPE(w)
            \/ At(w, "parse") /\ ColonInPath(worker[w].url)
            \/ At(w, "connect") /\ ~ Reachable(w)
            \/ At(w, "response") /\ (Reset(w, "near") \/ (AtEOF(w, "near") /\ PutCrashes(w)))
            \/ At(w, "null")

ProxyDies(w) ==
  LET Queued(q, x) == \E i \in DOMAIN q : q[i] = x
  IN  /\ ~ crashed /\ Fault(w) /\ dead' = dead \cup {"proxy"}
      /\ CloseAll(Workers, {x \in Clients : \/ \E v \in Workers : worker[v].fd = x
                                            \/ Queued(queue, x) \/ Queued(backlog["proxy"], x)})
      /\ UNCHANGED <<backlog, proxyVars>>

\* One call of doit.
doit(w) == \/ ReadRequest(w) \/ parseUrl(w) \/ Open_clientfd(w) \/ SendLine(w)
           \/ ReadHeader(w) \/ ForwardHeader(w) \/ EndHeaders(w) \/ AddHeader(w)
           \/ ReadResponse(w) \/ Relay(w) \/ EndResponse(w) \/ Reply(w)

thread(w) == sbuf_remove(w) \/ doit(w) \/ CloseFd(w) \/ ProxyDies(w)
=============================================================================
