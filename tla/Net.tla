--------------------------------- MODULE Net ---------------------------------
(***************************************************************************)
(* The connections between clients, proxy and servers, as the calls of     *)
(* csapp.c show them.  A connection carries lines (Rio.tla: the robust I/O *)
(* package delivers the stream, line by line).  Its near end belongs to    *)
(* the process that opened it; the kernel holds at most Cap lines in each  *)
(* direction.                                                              *)
(***************************************************************************)
EXTENDS Integers, Sequences

CONSTANTS Clients,   \* each has one connection
          Workers,   \* and each thread of the proxy has one to a server
          Cap

ASSUME NetAssumption == /\ Clients \cap Workers = {} /\ "none" \notin Clients \cup Workers
                        /\ Cap \in Nat \ {0}

VARIABLES conn,      \* [up, down, closed] of each connection
          backlog,   \* the connections that proxy and Tiny have not accepted yet
          dead       \* those of the two that have ended

listenVars == <<backlog, dead>>
netVars    == <<conn, listenVars>>

Conns   == Clients \cup Workers
Fresh   == [up |-> <<>>, down |-> <<>>, closed |-> {}]
NetInit == /\ conn = [x \in Conns |-> Fresh]
           /\ backlog = [s \in {"proxy", "tiny"} |-> <<>>] /\ dead = {}

Out(end)  == IF end = "near" THEN "up" ELSE "down"
In(end)   == IF end = "near" THEN "down" ELSE "up"
Peer(end) == IF end = "near" THEN "far" ELSE "near"

PeerGone(x, end)  == Peer(end) \in conn[x].closed
Available(x, end) == conn[x][In(end)] # <<>>
NextLine(x, end)  == Head(conn[x][In(end)])
AtEOF(x, end)     == ~ Available(x, end) /\ PeerGone(x, end)

\* The peer has closed and left lines unread: read fails, write raises SIGPIPE.
Reset(x, end) == PeerGone(x, end) /\ conn[x][Out(end)] # <<>>

\* Rio_readlineb returns NextLine(x, end).
Rio_readlineb(x, end) == /\ Available(x, end)
                         /\ conn' = [conn EXCEPT ![x][In(end)] = Tail(@)]

\* Rio_writen returns: there was room, or what is written goes nowhere.
Rio_writen(x, end, line) ==
  \/ /\ ~ PeerGone(x, end) /\ Len(conn[x][Out(end)]) < Cap
     /\ conn' = [conn EXCEPT ![x][Out(end)] = Append(@, line)]
  \/ PeerGone(x, end) /\ UNCHANGED conn

Close(x, end) == conn' = [conn EXCEPT ![x].closed = @ \cup {end}]

\* open_clientfd: connect returns before the server accepts.
Connect(x, server) == /\ conn' = [conn EXCEPT ![x] = Fresh]
                      /\ backlog' = IF server \in DOMAIN backlog
                                    THEN [backlog EXCEPT ![server] = Append(@, x)] ELSE backlog
                      /\ UNCHANGED dead

Accept(server) == /\ backlog[server] # <<>>
                  /\ backlog' = [backlog EXCEPT ![server] = Tail(@)]

\* The kernel closes all the ends of a process that ends.
CloseAll(near, far) ==
  conn' = [x \in Conns |->
            [conn[x] EXCEPT !.closed = @ \cup (IF x \in near THEN {"near"} ELSE {})
                                         \cup (IF x \in far THEN {"far"} ELSE {})]]
=============================================================================
