--------------------------------- MODULE Web ---------------------------------
(***************************************************************************)
(* Clients, the proxy, Tiny, and servers that never answer                 *)
(* (nop-server.py): the whole of proxy/lab.  A client sends one request to *)
(* the proxy or to Tiny, line by line, and reads until the other side      *)
(* closes; one that leaves may close at any moment.                        *)
(***************************************************************************)
EXTENDS Proxy, Tiny, FiniteSets

CONSTANT Requests   \* what the clients may ask for: [to, lines, leaves] of each

\* Path of a url, as a server knows it.
Path(url) == IF url.path = "" THEN "/" ELSE url.path

\* Files says of everything that is asked for what it is, if only "missing".
ASSUME RequestsAssumption ==
  \A r \in Requests : \A c \in Clients :
    LET q == r[c]  url == q.lines[1][2]
    IN  /\ q.lines \in Seq({q.lines[i] : i \in DOMAIN q.lines}) /\ q.lines # <<>>
        /\ \/ q.to = "tiny" /\ url \in DOMAIN Files
           \/ q.to = "proxy" /\ url \in AllUrls /\ Path(url) \in DOMAIN Files

VARIABLES request,
          client    \* [state, sent (how many lines), got] of each

clientVars == <<request, client>>
vars == <<netVars, tiny, proxyVars, clientVars>>

Init == /\ NetInit /\ TinyInit /\ ProxyInit
        /\ request \in Requests
        /\ client = [c \in Clients |-> [state |-> "new", sent |-> 0, got |-> <<>>]]

-----------------------------------------------------------------------------
\* To a process that has ended, no connection is made.
ClientConnects(c) ==
  /\ client[c].state = "new"
  /\ IF request[c].to \in dead
     THEN UNCHANGED netVars /\ client' = [client EXCEPT ![c].state = "refused"]
     ELSE Connect(c, request[c].to) /\ client' = [client EXCEPT ![c].state = "open"]

ClientSends(c) ==
  /\ client[c].state = "open" /\ client[c].sent < Len(request[c].lines)
  /\ Rio_writen(c, "near", request[c].lines[client[c].sent + 1])
  /\ client' = [client EXCEPT ![c].sent = @ + 1]
  /\ UNCHANGED listenVars

ClientReads(c) == /\ client[c].state = "open" /\ Rio_readlineb(c, "near")
                  /\ client' = [client EXCEPT ![c].got = Append(@, NextLine(c, "near"))]
                  /\ UNCHANGED listenVars

\* The answer has ended.
ClientIsDone(c) == /\ client[c].state = "open" /\ AtEOF(c, "near")
                   /\ Close(c, "near") /\ client' = [client EXCEPT ![c].state = "done"]
                   /\ UNCHANGED listenVars

ClientLeaves(c) == /\ client[c].state = "open" /\ request[c].leaves
                   /\ Close(c, "near") /\ client' = [client EXCEPT ![c].state = "left"]
                   /\ UNCHANGED listenVars

ClientGoesOn(c) == /\ ClientConnects(c) \/ ClientSends(c) \/ ClientReads(c) \/ ClientIsDone(c)
                   /\ UNCHANGED <<request, tiny, proxyVars>>
ClientGivesUp(c) == ClientLeaves(c) /\ UNCHANGED <<request, tiny, proxyVars>>
ProxyMain        == ProxyAccept /\ UNCHANGED <<tiny, clientVars>>
ProxyThread(w)   == thread(w) /\ UNCHANGED <<tiny, clientVars>>
TinyProcess      == TinyNext /\ UNCHANGED <<proxyVars, clientVars>>

Next == \/ \E c \in Clients : ClientGoesOn(c) \/ ClientGivesUp(c)
        \/ \E w \in Workers : ProxyThread(w)
        \/ ProxyMain \/ TinyProcess

Spec == Init /\ [][Next]_vars

\* The threads and processes run when they can, and a client that does not
\* leave sends its request and reads the answer.
Fairness == /\ \A c \in Clients : WF_vars(ClientGoesOn(c))
            /\ \A w \in Workers : WF_vars(ProxyThread(w))
            /\ WF_vars(ProxyMain) /\ WF_vars(TinyProcess)
FairSpec == Spec /\ Fairness

-----------------------------------------------------------------------------
(***************************************************************************)
(* Properties                                                              *)
(***************************************************************************)

\* What c asks for, and of whom.
Asked(c)  == request[c].lines[1]
Url(c)    == Asked(c)[2]
Uri(c)    == IF request[c].to = "tiny" THEN Url(c) ELSE Path(Url(c))
Server(c) == IF request[c].to = "tiny" THEN "tiny"
             ELSE IF <<Url(c).host, Url(c).port>> \in DOMAIN Servers
             THEN Servers[<<Url(c).host, Url(c).port>>] ELSE "none"
MayRefuse(c) == Asked(c)[1] # "GET" \/ (request[c].to = "proxy" /\ Refused(Asked(c)))

\* An answer as the cache holds it.
Cut(answer) == [i \in DOMAIN answer |-> Copied(answer[i])]

\* The answers that c may get.  The proxy looks into its cache before it looks
\* at the method; a binary file comes out of the cache damaged.
RightAnswers(c) ==
  (IF MayRefuse(c) THEN {IF request[c].to = "tiny" THEN clienterror("501") ELSE Page} ELSE {})
  \cup (IF request[c].to = "proxy" \/ ~ MayRefuse(c)
        THEN CASE Server(c) = "tiny" -> {Answer(Uri(c)), Cut(Answer(Uri(c)))}
               [] OTHER -> {<<>>} ELSE {})

IsPrefixOf(s, t) == Len(s) =< Len(t) /\ s = SubSeq(t, 1, Len(s))

\* As long as the proxy uses no bytes that it did not write, a client gets the
\* answer to its own request, from the server it named or from the cache: a
\* beginning of it, and all of it if nobody dies.
RightAnswer ==
  ~ garbled => \A c \in Clients : \E a \in RightAnswers(c) :
    /\ IsPrefixOf(client[c].got, a)
    /\ client[c].state = "done" /\ dead = {} => client[c].got = a

\* What the cache holds under a url is the beginning of the answer, and the
\* whole unless Tiny has died.
CacheIsRight ==
  ~ garbled => \A i \in DOMAIN list :
    LET a == Cut(Answer(Path(list[i].key)))
    IN  IsPrefixOf(list[i].data, a) /\ ("tiny" \notin dead => list[i].data = a)

\* The requests that can end the proxy or Tiny by themselves: no server at the
\* address, a colon in the path, an object that outgrows rev_data by two lines,
\* an empty file; a client that leaves.
Fatal(c) ==
  \/ request[c].leaves
  \/ request[c].to = "proxy" /\ (Server(c) = "none" \/ Url(c).scheme = "none" \/ ColonInPath(Url(c)))
  \/ Server(c) = "tiny" /\ LET file == Files[Uri(c)]
                           IN  \/ file.stat = "ok" /\ ~ file.cgi /\ file.body = <<>>
                               \/ request[c].to = "proxy" /\ Len(file.body) > MAX_OBJECT_SIZE

\* Without one of these, neither of the two ever dies, whatever the order of
\* the steps: no write meets a closed connection, and no read a reset.
DeathHasCause == dead # {} => garbled \/ \E c \in Clients : Fatal(c)

\* Servers that never answer cost a worker each; as long as one is left, every
\* other client is served.
Stuck == {c \in Clients : Server(c) = "hung"}
Harmless == /\ \A c \in Clients : ~ Fatal(c)
            /\ Cardinality(Stuck) < Cardinality(Workers)
EveryClientServed ==
  \A c \in Clients : Harmless /\ c \notin Stuck => <>(client[c].state = "done" \/ garbled)
=============================================================================
