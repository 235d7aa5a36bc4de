------------------------------ MODULE HttpParser ------------------------------
(***************************************************************************)
(* The incremental parser (src/src/http/parser.cpp) as Connection drives   *)
(* it: input comes in pieces cut anywhere, also between CR and LF; several *)
(* requests may be in one piece; and after each request the parser waits   *)
(* for its answer.  A step is one turn of a loop of process(),             *)
(* process_headers() or process_chunked().                                 *)
(*                                                                         *)
(* A byte stream is a sequence of tokens.  CR and LF are tokens of their   *)
(* own; the rest of a line is one token: "GET" a good request line, "XXX"  *)
(* a bad one, "TE" Transfer-Encoding: chunked, "CL" Content-Length: 2,     *)
(* "H" another header, "N" a header line without a colon, "0", "1", "2"    *)
(* and "zz" the size line of a chunk.  "d" is a byte of a body.            *)
(***************************************************************************)
EXTENDS Integers, Sequences, FiniteSetsExt

CONSTANTS
    Requests,     \* well-formed requests: sequences of tokens
    Garbage,      \* malformed ones
    Form,         \* where each message is in the grammar after every token
    MaxSize,      \* max_size_, in tokens
    MaxMessages   \* bound: number of messages the client sends

Token == {"CR", "LF", "GET", "XXX", "TE", "CL", "H", "N", "0", "1", "2", "zz", "d"}
CRLF == <<"CR", "LF">>

-----------------------------------------------------------------------------
(* What a request is.  It is read item by item: lines, bytes of a body or  *)
(* of a chunk, and what ends a chunk.  Form[m][i] is the place where the   *)
(* item that begins after i tokens is, or Inside when none begins there.   *)

Message == Requests \cup Garbage
HeaderLine == {"TE", "CL", "H", "N"}

Place ==
    [ at : {"start", "head", "body", "size", "data", "trailer", "done", "inside"},
      headers : SUBSET HeaderLine,   \* header lines read, while at "head"
      left : 0..2 ]                  \* bytes left of a body or a chunk

At(a, hs, n) == [at |-> a, headers |-> hs, left |-> n]
Start == At("start", {}, 0)
Done == At("done", {}, 0)
Inside == At("inside", {}, 0)

ChunkSize == [t \in {"0", "1", "2"} |-> CASE t = "0" -> 0 [] t = "1" -> 1 [] t = "2" -> 2]

AfterHeaders(hs) ==
    CASE "TE" \in hs -> At("size", {}, 0)
      [] "TE" \notin hs /\ "CL" \in hs -> At("body", {}, 2)
      [] OTHER -> Done

Blank(m, i) == m[i + 1] = "CR" /\ m[i + 2] = "LF"
Line(m, i, t) == m[i + 1] = t /\ m[i + 2] = "CR" /\ m[i + 3] = "LF"

\* The n tokens after the first i of m are an item at g, and h follows.
Item(m, i, g, n, h) ==
    \/ g.at = "start" /\ n = 2 /\ Blank(m, i) /\ h = g
    \/ g.at = "start" /\ n = 3 /\ Line(m, i, "GET") /\ h = At("head", {}, 0)
    \/ g.at = "head" /\ n = 2 /\ Blank(m, i) /\ h = AfterHeaders(g.headers)
    \/ /\ g.at = "head" /\ n = 3
       /\ \E t \in HeaderLine : Line(m, i, t) /\ h = At("head", g.headers \cup ({t} \ {"N"}), 0)
    \/ /\ g.at = "body" /\ n = 1 /\ g.left > 0
       /\ h = IF g.left = 1 THEN Done ELSE At("body", {}, g.left - 1)
    \/ /\ g.at = "size" /\ n = 3
       /\ \E t \in DOMAIN ChunkSize :
             /\ Line(m, i, t)
             /\ h = IF t = "0" THEN At("trailer", {}, 0) ELSE At("data", {}, ChunkSize[t])
    \/ g.at = "data" /\ n = 1 /\ g.left > 0 /\ h = At("data", {}, g.left - 1)
    \/ g.at = "data" /\ n = 2 /\ g.left = 0 /\ Blank(m, i) /\ h = At("size", {}, 0)
    \/ g.at = "trailer" /\ n = 2 /\ Blank(m, i) /\ h = Done
    \/ /\ g.at = "trailer" /\ n = 3
       /\ \E t \in Token \ {"CR"} : Line(m, i, t) /\ h = g

\* The n tokens after the first i of m are not what must be at g.
Bad(m, i, g, n) ==
    \/ g.at = "start" /\ n = 3 /\ Line(m, i, "XXX")
    \/ g.at = "size" /\ n = 3 /\ Line(m, i, "zz")
    \/ g.at = "data" /\ n = 2 /\ g.left = 0 /\ ~Blank(m, i)

Reads(m, i) ==
    \E n \in 1..3 : i + n <= Len(m) /\ Item(m, i, Form[m][i], n, Form[m][i + n])

Rejects(m, i) ==
    \E n \in 1..3 : i + n <= Len(m) /\ Bad(m, i, Form[m][i], n)

\* A request is items to its end.  Garbage has an item that is bad.
ASSUME ParserAssumption ==
    /\ MaxSize \in Nat /\ MaxMessages \in Nat
    /\ \A m \in Message :
          /\ m \in Seq(Token) /\ Form[m] \in [0..Len(m) -> Place] /\ Form[m][0] = Start
    /\ \A m \in Requests : \A i \in 0..Len(m) :
          IF i = Len(m) THEN Form[m][i] = Done ELSE Form[m][i] # Inside => Reads(m, i)
    /\ \A m \in Garbage : \A i \in 0..Len(m) :
          Form[m][i] # Inside => Form[m][i] # Done /\ (Reads(m, i) \/ Rejects(m, i))

-----------------------------------------------------------------------------
(* The connection and its parser. *)

VARIABLES
    parser,     \* the members of HttpParser, see Parser
    stage,      \* where the connection is in try_parse_message()
    len,        \* bytes passed to the current call of parse()
    old_raw,    \* size of raw_ when it was called
    messages,   \* what the client has sent, message by message
    stream,     \* the same, byte by byte
    ends,       \* bytes of that up to the end of each message
    fed,        \* bytes of that read so far
    delivered   \* history: raw() of each complete request

client == <<messages, stream, ends>>
parser_vars == <<parser, stage, len, old_raw, client, fed, delivered>>

Parser ==
    [ state     : {"RequestLine", "Headers", "Body", "ChunkedBody", "Complete", "Error"},
      raw       : Seq(Token),     \* raw_
      partial   : Seq(Token),     \* partial_
      headers   : SUBSET Token,   \* request_.headers
      body_read : Nat,            \* body_read_
      phase     : {"SizeLine", "Data", "Trailer", "End"},
      size      : Nat,            \* current_chunk_size_
      read      : Nat,            \* current_chunk_read_
      done      : BOOLEAN ]       \* process() returns

ParserTypeOK ==
    /\ parser \in Parser
    /\ stage \in {"wait", "process", "returned", "busy", "closed"}
    /\ len \in Nat /\ old_raw \in Nat /\ fed \in Nat
    /\ messages \in Seq(Message) /\ stream \in Seq(Token) /\ ends \in Seq(Nat)
    /\ delivered \in Seq(Seq(Token))

\* Mutant: drops the rest of the input.
resetAll(partial) ==
    [ state |-> "RequestLine", raw |-> <<>>, partial |-> <<>>, headers |-> {},
      body_read |-> 0, phase |-> "SizeLine", size |-> 0, read |-> 0, done |-> FALSE ]

\* A fresh parser, and reset(): partial_ is kept.
reset(partial) ==
    [ state |-> "RequestLine", raw |-> <<>>, partial |-> partial, headers |-> {},
      body_read |-> 0, phase |-> "SizeLine", size |-> 0, read |-> 0, done |-> FALSE ]

ParserInit ==
    /\ messages = <<>> /\ stream = <<>> /\ ends = <<>>
    /\ parser = reset(<<>>) /\ stage = "wait"
    /\ len = 0 /\ old_raw = 0 /\ fed = 0
    /\ delivered = <<>>

-----------------------------------------------------------------------------
(* The methods, as operators on the record. *)

Fail(p) == [p EXCEPT !.state = "Error", !.done = TRUE]
Await(p) == [p EXCEPT !.done = TRUE]

consume_partial(p, n) ==
    [p EXCEPT !.raw = @ \o SubSeq(p.partial, 1, n),
              !.partial = SubSeq(@, n + 1, Len(@))]

\* The place of the first CR if an LF follows it, else 0.
extract_line(p) ==
    LET crs == {i \in DOMAIN p.partial : p.partial[i] = "CR"}
    IN  IF crs = {} \/ Min(crs) = Len(p.partial) \/ p.partial[Min(crs) + 1] # "LF"
        THEN 0 ELSE Min(crs)

consume_line(p) == consume_partial(p, extract_line(p) + 1)

check_size_limit(p) == IF Len(p.raw) > MaxSize THEN Fail(p) ELSE p

\* Back in the loop of process() from a body.
Back(p) == [p EXCEPT !.done = p.state \in {"Complete", "Error"} \/ p.partial = <<>>]

StartsWithCRLF(p) == Len(p.partial) >= 2 /\ p.partial[1] = "CR" /\ p.partial[2] = "LF"

process_request_line(p) ==
    CASE extract_line(p) = 0 -> Await(p)
      [] extract_line(p) = 1 -> Await(consume_line(p))
      [] extract_line(p) > 1 ->
            IF p.partial[1] # "GET" THEN Fail(p)
            ELSE [consume_line(p) EXCEPT !.state = "Headers"]

finalize_headers(p) ==
    Back(CASE "TE" \in p.headers ->
                 [p EXCEPT !.state = "ChunkedBody", !.phase = "SizeLine", !.size = 0, !.read = 0]
           [] "TE" \notin p.headers /\ "CL" \in p.headers ->
                 [p EXCEPT !.state = "Body", !.body_read = 0]
           [] OTHER -> [p EXCEPT !.state = "Complete"])

process_headers(p) ==
    CASE Len(p.partial) < 2 -> Await(p)
      [] Len(p.partial) >= 2 /\ StartsWithCRLF(p) -> finalize_headers(consume_partial(p, 2))
      [] Len(p.partial) >= 2 /\ ~StartsWithCRLF(p) ->
            IF extract_line(p) = 0 THEN Await(p)
            ELSE [consume_line(p) EXCEPT !.headers = @ \cup ({p.partial[1]} \ {"N"})]

ContentLength == 2

\* Mutant: takes everything there is for the body.
process_bodyGreedy(p) ==
    LET q == [consume_partial(p, Len(p.partial)) EXCEPT !.body_read = @ + Len(p.partial)]
    IN  Back([q EXCEPT !.state = IF q.body_read >= ContentLength THEN "Complete" ELSE "Body"])

process_body(p) ==
    LET n == Min({Len(p.partial), ContentLength - p.body_read})
        q == [consume_partial(p, n) EXCEPT !.body_read = @ + n]
    IN  Back([q EXCEPT !.state = IF q.body_read >= ContentLength THEN "Complete" ELSE "Body"])

parse_hex(t) == CASE t = "0" -> 0 [] t = "1" -> 1 [] t = "2" -> 2 [] OTHER -> -1

SizeLine(p) ==
    LET sz == parse_hex(p.partial[1])
        q == [consume_line(p) EXCEPT !.size = sz]
    IN  CASE extract_line(p) = 0 -> Back(p)
          [] extract_line(p) > 0 /\ sz = -1 -> Fail(p)
          [] extract_line(p) > 0 /\ sz = 0 -> [q EXCEPT !.phase = "Trailer"]
          [] extract_line(p) > 0 /\ sz > 0 ->
                LET c == check_size_limit(q)
                IN  IF c.done THEN c ELSE [c EXCEPT !.phase = "Data", !.read = 0]

\* Mutant: does not wait for both bytes after a chunk.
DataEager(p) ==
    LET n == Min({Len(p.partial), p.size - p.read})
    IN  CASE p.size = p.read ->
                IF StartsWithCRLF(p) THEN [consume_partial(p, 2) EXCEPT !.phase = "SizeLine"]
                ELSE Fail(p)
          [] OTHER -> Back([consume_partial(p, n) EXCEPT !.read = @ + n])

Data(p) ==
    LET remaining == p.size - p.read
        n == Min({Len(p.partial), remaining})
        q == check_size_limit([consume_partial(p, n) EXCEPT !.read = @ + n])
    IN  CASE remaining = 0 /\ Len(p.partial) < 2 -> Back(p)
          [] remaining = 0 /\ Len(p.partial) >= 2 ->
                IF StartsWithCRLF(p) THEN [consume_partial(p, 2) EXCEPT !.phase = "SizeLine"]
                ELSE Fail(p)
          [] remaining > 0 -> IF q.done \/ q.read >= q.size THEN q ELSE Back(q)

Trailer(p) ==
    CASE Len(p.partial) < 2 -> Back(p)
      [] Len(p.partial) >= 2 /\ StartsWithCRLF(p) -> [consume_partial(p, 2) EXCEPT !.phase = "End"]
      [] Len(p.partial) >= 2 /\ ~StartsWithCRLF(p) ->
            IF extract_line(p) = 0 THEN Back(p) ELSE consume_line(p)

process_chunked(p) ==
    CASE p.phase = "SizeLine" -> SizeLine(p)
      [] p.phase = "Data" -> Data(p)
      [] p.phase = "Trailer" -> Trailer(p)
      [] p.phase = "End" -> Back([p EXCEPT !.state = "Complete"])

process(p) ==
    CASE p.state = "RequestLine" -> process_request_line(p)
      [] p.state = "Headers" -> process_headers(p)
      [] p.state = "Body" -> process_body(p)
      [] p.state = "ChunkedBody" -> process_chunked(p)

-----------------------------------------------------------------------------
(* Connection::try_parse_message around parse(). *)

\* The client sends a message, while the connection is where it may be.
client_sends(m) ==
    /\ Len(messages) < MaxMessages
    /\ messages' = Append(messages, m)
    /\ stream' = stream \o m
    /\ ends' = Append(ends, Len(stream) + Len(m))
    /\ UNCHANGED <<parser, stage, len, old_raw, fed, delivered>>

Call(p, n) ==
    /\ parser' = [p EXCEPT !.done = FALSE]
    /\ len' = n /\ old_raw' = Len(p.raw)
    /\ stage' = "process"

\* Connection::on_read takes what has arrived, k tokens, and calls parse().
on_read(k) ==
    /\ stage = "wait" /\ k \in 1..(Len(stream) - fed)
    /\ Call([parser EXCEPT !.partial = @ \o SubSeq(stream, fed + 1, fed + k)], k)
    /\ fed' = fed + k
    /\ UNCHANGED <<client, delivered>>

step ==
    /\ stage = "process"
    /\ LET p == process(parser)
       IN  /\ parser' = IF p.done THEN check_size_limit(p) ELSE p
           /\ stage' = IF p.done THEN "returned" ELSE "process"
    /\ UNCHANGED <<len, old_raw, client, fed, delivered>>

\* What parse() returned decides whether to call it again, with no new input,
\* for what it still holds.
try_parse_message ==
    LET consumed == IF len > 0 THEN len ELSE Len(parser.raw) - old_raw
    IN  /\ stage = "returned"
        /\ CASE parser.state = "Error" ->
                  stage' = "closed" /\ UNCHANGED <<parser, len, old_raw, delivered>>
             [] parser.state = "Complete" ->
                  /\ delivered' = Append(delivered, parser.raw)
                  /\ parser' = reset(parser.partial)
                  /\ stage' = "busy"
                  /\ UNCHANGED <<len, old_raw>>
             [] OTHER ->
                  /\ IF consumed > 0 /\ parser.partial # <<>>
                     THEN Call(parser, 0)
                     ELSE stage' = "wait" /\ UNCHANGED <<parser, len, old_raw>>
                  /\ UNCHANGED delivered
        /\ UNCHANGED <<client, fed>>

\* The answer has been written and the connection is kept alive.
finish_response ==
    /\ stage = "busy"
    /\ IF parser.partial # <<>> THEN Call(reset(parser.partial), 0)
       ELSE stage' = "wait" /\ parser' = reset(<<>>) /\ UNCHANGED <<len, old_raw>>
    /\ UNCHANGED <<client, fed, delivered>>

ParserNext ==
    \/ \E m \in Message : client_sends(m)
    \/ \E k \in 1..Len(stream) : on_read(k)
    \/ step
    \/ try_parse_message
    \/ finish_response

ParserSpec == ParserInit /\ [][ParserNext]_parser_vars
FairParserSpec == ParserSpec /\ WF_parser_vars(step)

-----------------------------------------------------------------------------
(* parse_http_request(), which the worker applies to raw(). *)

\* Mutant: the first line may be anything.
parse_http_requestLax(raw) ==
    [ok |-> \E i \in DOMAIN raw : raw[i] \notin {"CR", "LF"}, headers |-> {}]

\* The blank line that ends the headers begins after the CRLF at i.
HeadersEnd(raw, i) == i + 3 <= Len(raw) /\ Blank(raw, i - 1) /\ Blank(raw, i + 1)

parse_http_request(raw) ==
    LET ends_at == {i \in DOMAIN raw : HeadersEnd(raw, i)}
        lines == {i \in 1..(Min(ends_at) - 1) : raw[i] \notin {"CR", "LF"}}
        ok == ends_at # {} /\ lines # {} /\ raw[Min(lines)] = "GET"
    IN  [ ok |-> ok,
          headers |-> IF ok THEN {raw[i] : i \in lines \ {Min(lines)}} \ {"N"} ELSE {} ]

-----------------------------------------------------------------------------
(* Properties. *)

\* However the stream is cut, the requests delivered are the first messages of
\* the client, byte for byte: none is lost, merged or split.
DeliversExactly ==
    /\ Len(delivered) <= Len(messages)
    /\ \A n \in DOMAIN delivered : delivered[n] = messages[n]

\* The connection waits for input only if it holds no complete request
\* (parse() must say when it could go on with what it has).
NothingHeldBack ==
    stage = "wait" => \A n \in 1..Len(messages) : ends[n] <= fed => n <= Len(delivered)

\* The parser fails on malformed and oversized messages, which it never
\* delivers, and on no others: one of max_size_ bytes gets through.
FailsExactlyOnBad ==
    /\ \A n \in DOMAIN delivered : delivered[n] \in Requests /\ Len(delivered[n]) <= MaxSize
    /\ stage = "closed" =>
          LET next == messages[Len(delivered) + 1]
          IN  next \in Garbage \/ Len(next) > MaxSize

\* What the incremental parser completes the one-shot parser of the worker
\* reads in the same way, unless it begins with two blank lines, which the
\* first skips and the second takes for the end of the headers.
OneShotAgrees ==
    stage = "returned" /\ parser.state = "Complete" =>
        LET r == parse_http_request(parser.raw)
        IN  IF HeadersEnd(parser.raw, 1) THEN ~r.ok
            ELSE r.ok /\ r.headers = parser.headers

\* parser.h: parse() returns 0 when it needs more data; so it returns.
ParseReturns == stage = "process" ~> stage = "returned"
=============================================================================
