--------------------------------- MODULE Tiny ---------------------------------
(***************************************************************************)
(* The web server proxy/lab/tiny/tiny.c, which serves one connection after *)
(* the other, and the CGI programs it runs.  Every wrapper of csapp.c ends *)
(* the process when its call fails; calls that fail for want of memory,    *)
(* processes or descriptors are left out.                                  *)
(*                                                                         *)
(* A line is a sequence: <<method, uri, version>>, a header, a status      *)
(* <<status>> with the headers that follow, or line i of a file            *)
(* <<uri, i>>.  An error page has two.                                     *)
(***************************************************************************)
EXTENDS Net

CONSTANT Files   \* what stat, the file and the CGI program at an uri give

ASSUME FilesAssumption ==
  \A u \in DOMAIN Files : /\ Files[u].stat \in {"ok", "missing", "forbidden"}
                          /\ Files[u].cgi \in BOOLEAN
                          /\ Files[u].body \in Seq({"text", "binary"})

VARIABLE tiny   \* its locals: [pc, fd, uri, buf, todo (to be written), then]

Blank == <<"\r\n">>

TinyInit == tiny = [pc |-> "accept", fd |-> "none", uri |-> "/", buf |-> Blank,
                    todo |-> <<>>, then |-> "close"]

clienterror(status) == <<<<status>>, <<"page">>>>
Body(uri) == [i \in DOMAIN Files[uri].body |-> <<uri, i>>]

\* What a request for the uri is answered with.
Answer(uri) == CASE Files[uri].stat = "missing"   -> clienterror("404")
                 [] Files[uri].stat = "forbidden" -> clienterror("403")
                 [] OTHER -> <<<<"200">>>> \o Body(uri)

TinyAccept == /\ tiny.pc = "accept" /\ Accept("tiny")
              /\ tiny' = [tiny EXCEPT !.pc = "request", !.fd = Head(backlog["tiny"])]
              /\ UNCHANGED <<conn, dead>>

\* doit up to the request headers; the array buf of read_requesthdrs holds what
\* the stack held.
TinyRequest ==
  /\ tiny.pc = "request" /\ UNCHANGED listenVars
  /\ \/ /\ AtEOF(tiny.fd, "far") /\ UNCHANGED conn
        /\ tiny' = [tiny EXCEPT !.pc = "close"]
     \/ LET line == NextLine(tiny.fd, "far")
        IN  /\ Rio_readlineb(tiny.fd, "far")
            /\ IF line[1] # "GET"
               THEN tiny' = [tiny EXCEPT !.pc = "write", !.todo = clienterror("501"),
                                         !.then = "close"]
               ELSE \E stale \in {Blank, <<"?">>} :
                      tiny' = [tiny EXCEPT !.pc = "headers", !.uri = line[2], !.buf = stale]

\* Mutant: the answer follows the first header.
read_requesthdrsOne ==
  /\ tiny.pc = "headers" /\ Rio_readlineb(tiny.fd, "far") /\ UNCHANGED listenVars
  /\ tiny' = [tiny EXCEPT !.buf = NextLine(tiny.fd, "far"), !.pc = "serve"]

\* A round of the loop.  At the end of the stream buf stays what it is: the loop
\* goes on for ever, or ends if that is the empty line.
read_requesthdrs ==
  /\ tiny.pc = "headers" /\ UNCHANGED listenVars
  /\ \/ LET line == NextLine(tiny.fd, "far")
        IN  /\ Rio_readlineb(tiny.fd, "far")
            /\ tiny' = [tiny EXCEPT !.buf = line,
                                    !.pc = IF line = Blank THEN "serve" ELSE "headers"]
     \/ /\ AtEOF(tiny.fd, "far") /\ tiny.buf = Blank /\ UNCHANGED conn
        /\ tiny' = [tiny EXCEPT !.pc = "serve"]

\* The rest of doit decides what is written, and what comes then: Mmap of an
\* empty file fails, and a CGI program runs in a child.
serve ==
  LET file == Files[tiny.uri]
  IN  /\ tiny.pc = "serve" /\ UNCHANGED netVars
      /\ tiny' = [tiny EXCEPT
                    !.pc = "write",
                    !.todo = IF file.stat = "ok" /\ file.cgi THEN <<<<"200">>>>
                             ELSE Answer(tiny.uri),
                    !.then = IF file.stat = "ok" /\ file.cgi THEN "fork"
                             ELSE IF file.stat = "ok" /\ file.body = <<>> THEN "exit" ELSE "close"]

\* Rio_writen, by Tiny or, in step "child", by the CGI program.
TinyWrites == /\ tiny.pc \in {"write", "child"} /\ tiny.todo # <<>>
              /\ Rio_writen(tiny.fd, "far", Head(tiny.todo))
              /\ tiny' = [tiny EXCEPT !.todo = Tail(@)]
              /\ UNCHANGED listenVars

\* SIGPIPE, or Mmap has failed.
TinyDies == /\ \/ tiny.pc = "write" /\ tiny.todo # <<>> /\ PeerGone(tiny.fd, "far")
               \/ tiny.pc = "write" /\ tiny.todo = <<>> /\ tiny.then = "exit"
            /\ tiny' = [tiny EXCEPT !.pc = "exit"] /\ dead' = dead \cup {"tiny"}
            /\ CloseAll({}, {x \in Conns : \/ x = tiny.fd
                                           \/ \E i \in DOMAIN backlog["tiny"] : backlog["tiny"][i] = x})
            /\ UNCHANGED backlog

\* After the last write; Fork; and Wait, which returns when the child ends: it
\* has written what it has to say, crashed before it did, or died of SIGPIPE.
TinyGoesOn ==
  /\ UNCHANGED netVars
  /\ \/ /\ tiny.pc = "write" /\ tiny.todo = <<>> /\ tiny.then # "exit"
        /\ tiny' = [tiny EXCEPT !.pc = tiny.then]
     \/ /\ tiny.pc = "fork"
        /\ tiny' = [tiny EXCEPT !.pc = "child", !.todo = Body(tiny.uri)]
     \/ /\ tiny.pc = "child" /\ (tiny.todo = <<>> \/ PeerGone(tiny.fd, "far"))
        /\ tiny' = [tiny EXCEPT !.pc = "close", !.todo = <<>>]

TinyCloses == /\ tiny.pc = "close" /\ Close(tiny.fd, "far")
              /\ tiny' = [tiny EXCEPT !.pc = "accept", !.fd = "none"]
              /\ UNCHANGED listenVars

TinyNext == \/ TinyAccept \/ TinyRequest \/ read_requesthdrs \/ serve
            \/ TinyWrites \/ TinyDies \/ TinyGoesOn \/ TinyCloses
=============================================================================
