---------------------------- MODULE MCHttpServer ----------------------------
(* Requests for checking HttpServer: each a record of the words the       *)
(* client writes (see HttpServer!Serialize).                              *)
EXTENDS HttpServer

Hdr(f, v, l, r) == [field |-> f, value |-> v, padL |-> l, padR |-> r]
Req(m, p, q, v, hs, b) ==
    [method |-> m, path |-> p, query |-> q, version |-> v, headers |-> hs, body |-> b]

\* std::string::find over the path words below: each contains itself, and
\* "/img/a.jpg" and "/user/login" contain ".jpg" and "/login".
MCPathHas(p, s) ==
    p = s \/ <<p, s>> \in {<<"/img/a.jpg", ".jpg">>, <<"/user/login", "/login">>}

\* Bodiless requests covering the keep-alive rule, the application's
\* routes (a page, a .jpg, a GET and a POST of a login path, an unknown
\* path) and a rejected method.
KeepAliveRequests ==
    { Req("GET", "/user/login", <<>>, "HTTP/1.1", <<Hdr("Host", "x", TRUE, FALSE)>>, <<>>),
      Req("GET", "/a", <<"q">>, "HTTP/1.0", <<Hdr("Connection", "Keep-Alive", TRUE, TRUE)>>, <<>>),
      Req("GET", "/", <<>>, "HTTP/1.1", <<Hdr("Connection", "close", FALSE, TRUE)>>, <<>>),
      Req("GET", "/img/a.jpg", <<>>, "HTTP/1.0", <<>>, <<>>),
      Req("POST", "/user/login", <<>>, "HTTP/1.1", <<>>, <<>>),
      Req("FOO", "/a", <<>>, "HTTP/1.1", <<>>, <<>>) }

\* A request line with a known method and an unknown version, followed by
\* a header.
BadVersionRequests ==
    { Req("GET", "/a", <<>>, "HTTP/2.0", <<Hdr("Host", "x", TRUE, FALSE)>>, <<>>) }

=============================================================================
