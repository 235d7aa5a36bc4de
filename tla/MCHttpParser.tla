----------------------------- MODULE MCHttpParser -----------------------------
(* HttpParser for TLC: requests of every shape, and malformed ones.          *)
EXTENDS HttpParser, TLC

LineOf(t) == <<t>> \o CRLF
Plain == LineOf("GET") \o LineOf("H") \o CRLF
Sized == LineOf("GET") \o LineOf("CL") \o CRLF \o <<"d", "d">>
Chunk1 == LineOf("1") \o <<"d">> \o CRLF
Chunked == LineOf("GET") \o LineOf("TE") \o CRLF \o Chunk1 \o LineOf("0")
Both == LineOf("GET") \o LineOf("CL") \o LineOf("TE") \o CRLF \o Chunk1 \o LineOf("0") \o CRLF

\* The last two are as long as MaxSize and one longer.
MCRequests ==
    { Plain, Sized, CRLF \o Plain, CRLF \o CRLF \o Plain,
      LineOf("GET") \o LineOf("N") \o CRLF,
      Chunked \o CRLF,
      Chunked \o LineOf("H") \o CRLF,
      Both,
      LineOf("GET") \o LineOf("TE") \o CRLF \o Chunk1 \o Chunk1 \o LineOf("0") \o CRLF,
      CRLF \o CRLF \o Both }

MCGarbage ==
    { LineOf("XXX") \o CRLF,
      LineOf("GET") \o LineOf("TE") \o CRLF \o LineOf("zz"),
      LineOf("GET") \o LineOf("TE") \o CRLF \o LineOf("1") \o <<"d", "d">> \o CRLF }

\* The places of m from the one at i on, read item by item.
RECURSIVE Places(_, _, _)
Places(m, i, g) ==
    LET next == {<<n, h>> \in (1..3) \X Place : i + n <= Len(m) /\ Item(m, i, g, n, h)}
    IN  IF next = {} THEN i :> g
        ELSE LET x == CHOOSE x \in next : TRUE
             IN  (i :> g) @@ Places(m, i + x[1], x[2])

MCForm ==
    [m \in MCRequests \cup MCGarbage |->
        LET p == Places(m, 0, Start)
        IN  [i \in 0..Len(m) |-> IF i \in DOMAIN p THEN p[i] ELSE Inside]]
=============================================================================
