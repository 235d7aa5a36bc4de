-------------------------- MODULE MCRequestPipeline --------------------------
(* RequestPipeline for TLC: nested routes that share a backend.              *)
EXTENDS RequestPipeline

CONSTANTS b1, b2, b3

MCBackends == {b1, b2, b3}

\* "/a" comes before the longer "/a/b" in the configuration, which is there
\* twice; b1 only serves the shorter one.
MCRoutes ==
    << [prefix |-> <<"a">>, backends |-> <<b1, b2>>],
       [prefix |-> <<"a", "b">>, backends |-> <<b2>>],
       [prefix |-> <<"a", "b">>, backends |-> <<b3>>] >>

Request(path, connection, version) ==
    [parses |-> TRUE, path |-> path, connection |-> connection, version |-> version]

MCRequests ==
    { Request(<<"a", "b", "c">>, "close", "1.1"), Request(<<"a", "bc">>, "keep-alive", "1.0"),
      Request(<<"ab">>, "none", "1.0"), Request(<<"stats">>, "none", "1.1"), None }

Response(status, headers) == <<status>> \o headers \o <<"CRLF", "CRLF", "body">>

MCResponses ==
    { Response("2xx", <<"CRLF", "Connection: close">>),
      Response("2xx", <<"CRLF", "Connection: keep-alive">>),
      Response("5xx", <<"CRLF", "X-Request-Id", "CRLF", "Connection: Close">>),
      Response("2xx", <<"CRLF", "CONNECTION: close">>),
      <<"2xx", "CRLF", "body">> }
=============================================================================
