-------------------------------- MODULE MCWeb --------------------------------
(***************************************************************************)
(* Web with two clients, whose requests meet in the ways listed below.     *)
(***************************************************************************)
EXTENDS Web, TLC

CONSTANTS c1, c2, w1, w2

MCServers == (<<<<"t">>, <<"8">>>> :> "tiny") @@ (<<<<"w", "w">>, <<"8">>>> :> "tiny")
             @@ (<<<<"n">>, <<"9">>>> :> "hung")

File(stat, cgi, body) == [stat |-> stat, cgi |-> cgi, body |-> body]
Text(n) == File("ok", FALSE, [i \in 1 .. n |-> "text"])
MCFiles == ("/" :> Text(1)) @@ ("/?" :> File("missing", FALSE, <<>>)) @@ ("/a" :> Text(1))
           @@ ("/edge" :> Text(2)) @@ ("/big" :> Text(3)) @@ ("/empty" :> Text(0))
           @@ ("/bin" :> File("ok", FALSE, <<"binary">>))
           @@ ("/add" :> File("ok", TRUE, <<"text">>)) @@ ("/add?" :> File("ok", TRUE, <<>>))
           @@ ("/private" :> File("forbidden", FALSE, <<"text">>))
MCIsBinary(line) == Len(line) = 2 /\ line[1] \in DOMAIN MCFiles
                      /\ MCFiles[line[1]].body[line[2]] = "binary"
MCNewData == {<<>>, <<<<"?">>>>}

Url0(path) == [scheme |-> "http", host |-> <<"t">>, port |-> <<"8">>, path |-> path, colon |-> FALSE]

Asks(to, first, headers) ==
  [to |-> to, lines |-> <<first>> \o headers \o <<CRLF>>, leaves |-> FALSE]
Get(url)   == Asks("proxy", Line("GET", url, "1.1"), <<<<"Proxy-Connection:">>>>)
GetPath(p) == Get(Url0(p))
Direct(m, p) == Asks("tiny", Line(m, p, "1.0"), <<>>)
Leaves(r)  == [r EXCEPT !.leaves = TRUE]

MCPairs == {
  <<GetPath("/a"), GetPath("/a")>>, <<GetPath("/bin"), GetPath("/bin")>>,     \* through the cache
  <<GetPath(""), GetPath("/")>>, <<GetPath("/edge"), GetPath("/add")>>,
  <<GetPath("/big"), GetPath("/a")>>, <<GetPath("/private"), GetPath("/add?")>>,
  <<Get([Url0("/a") EXCEPT !.host = <<"w", "w">>]), GetPath("/a")>>,          \* stale characters
  <<Get([Url0("/a") EXCEPT !.port = <<>>]), GetPath("/a")>>,
  <<Get([Url0("/a") EXCEPT !.port = <<>>, !.colon = TRUE]), GetPath("/a")>>,
  <<Get([Url0("/a") EXCEPT !.scheme = "none"]), GetPath("/a")>>,
  <<Get([Url0("/a") EXCEPT !.scheme = "ftp"]), GetPath("/a")>>,
  <<Get([Url0("/a") EXCEPT !.host = <<"n">>, !.port = <<"9">>]), GetPath("/a")>>,
  <<Asks("proxy", Line("POST", Url0("/a"), "1.1"), <<>>), GetPath("/a")>>,
  <<Asks("proxy", Line("GET", Url0("/a"), "1.0"), <<>>), Leaves(GetPath("/a"))>>,
  <<Leaves(GetPath("/a")), GetPath("/a")>>,
  <<Direct("POST", "/a"), Leaves(Direct("GET", "/add"))>>,                    \* without the proxy
  <<Direct("GET", "/empty"), GetPath("/a")>> }
MCRequests == {[c \in Clients |-> IF c = c1 THEN p[1] ELSE p[2]] : p \in MCPairs}

=============================================================================
