--------------------------- MODULE RequestPipeline ---------------------------
(***************************************************************************)
(* Gateway::process_request (src/src/core/gateway.cpp) run by several      *)
(* workers at once, with what they share: the router's sorted table, the   *)
(* load balancer's counters, the table of circuit breakers and the         *)
(* statistics.  A breaker's verdict, a filter's verdict and a backend's    *)
(* response are chosen freely; CircuitBreaker, RateLimiter and BackendPool *)
(* say how they come about.                                                *)
(*                                                                         *)
(* A path is the sequence of its segments: "/a/b" is <<"a", "b">>, "/" is  *)
(* <<"">>.  A response is a sequence of tokens: a status line "2xx" or     *)
(* "5xx", header lines, "body", and "CRLF", which is two bytes.            *)
(***************************************************************************)
EXTENDS Integers, Sequences, FiniteSetsExt

CONSTANTS
    Workers,      \* threads of the pool
    Backends,     \* backend addresses
    Routes,       \* config.routes: a sequence of [prefix, backends]
    Requests,     \* what clients send: [parses, path, connection, version]
    Responses,    \* what Proxy::forward returns
    MaxRequests   \* bound: requests processed

\* What a response is made of.
ConnectionHeader == {"Connection: close", "Connection: Close", "Connection: keep-alive"}
Token == {"2xx", "5xx", "400", "404", "CRLF", "body", "X-Request-Id", "CONNECTION: close"}
         \cup ConnectionHeader

\* ConfigLoader keeps a route only if it has a prefix and backends.
ASSUME PipelineAssumption ==
    /\ IsFiniteSet(Workers) /\ MaxRequests \in Nat
    /\ Routes \in Seq([prefix : Seq(STRING), backends : Seq(Backends) \ {<<>>}])
    /\ Responses \subseteq Seq(Token)

VARIABLES
    routes,           \* Router::routes_, sorted
    pc,               \* where a worker is in process_request()
    req,              \* its request
    target,           \* the backend selected for it
    breaker,          \* the CircuitBreaker it holds a reference to
    resp,             \* raw_resp
    rr_counter,       \* LoadBalancer::rr_counter_
    conn_counts,      \* LoadBalancer::conn_counts_
    breakers,         \* circuit_breakers_: object made for a backend, 0 if none
    made,             \* number of CircuitBreaker objects made
    stats,            \* GatewayStats: counters by path and global ones
    admitted,         \* history: calls a breaker let through, not yet reported
    started,          \* history: requests taken up
    answered,         \* history: responses sent
    answer            \* history: the last of them, with what it answers

locals == <<req, target, breaker, resp>>
balancer == <<rr_counter, conn_counts>>
table == <<breakers, made>>
sent == <<answered, answer>>
vars == <<routes, pc, locals, balancer, table, stats, admitted, started, sent>>

Paths == {r.path : r \in Requests}
None == [parses |-> FALSE, path |-> <<>>, connection |-> "none", version |-> "1.0"]

Control == {"idle", "filter", "route", "lookup", "create", "allow", "connect", "forward",
            "disconnect", "record", "success", "error", "upstream", "report", "respond"}

-----------------------------------------------------------------------------
(* Router. *)

Arrangements(rs) ==
    {[i \in DOMAIN rs |-> rs[p[i]]] : p \in Bijection(DOMAIN rs, DOMAIN rs)}

\* Mutant: more slashes go last.
sort_routesUp(rs) ==
    {s \in Arrangements(rs) : \A i, j \in DOMAIN s : i < j => Len(s[i].prefix) <= Len(s[j].prefix)}

\* More slashes first.  Prefixes of one path with as many slashes are equal, so
\* their size, the second key, does not matter to a match.  std::sort leaves
\* equal routes in any order.
sort_routes(rs) ==
    {s \in Arrangements(rs) : \A i, j \in DOMAIN s : i < j => Len(s[i].prefix) >= Len(s[j].prefix)}

StartsWith(path, prefix) ==
    Len(path) >= Len(prefix) /\ SubSeq(path, 1, Len(prefix)) = prefix

\* A prefix matches a path that goes on with '/' or ends: whole segments.  The
\* first route that matches is taken.
Matching(path) == {i \in DOMAIN routes : StartsWith(path, routes[i].prefix)}
match(path) == routes[Min(Matching(path))].backends

-----------------------------------------------------------------------------
TypeOK ==
    /\ routes \in sort_routes(Routes)
    /\ pc \in [Workers -> Control]
    /\ req \in [Workers -> Requests \cup {None}]
    /\ target \in [Workers -> Backends \cup {<<>>}]
    /\ breaker \in [Workers -> Nat]
    /\ resp \in [Workers -> Responses \cup {<<>>}]
    /\ rr_counter \in Nat /\ conn_counts \in [Backends -> Nat]
    /\ breakers \in [Backends -> Nat] /\ made \in Nat
    /\ stats \in [total : [Paths -> Nat], success : [Paths -> Nat], error : [Paths -> Nat],
                  upstream_errors : Nat, rate_limited : Nat]
    /\ admitted \subseteq Workers \X Nat
    /\ started \in 0..MaxRequests /\ answered \in Nat

Init ==
    /\ routes \in sort_routes(Routes)
    /\ pc = [w \in Workers |-> "idle"]
    /\ req = [w \in Workers |-> None]
    /\ target = [w \in Workers |-> <<>>]
    /\ breaker = [w \in Workers |-> 0]
    /\ resp = [w \in Workers |-> <<>>]
    /\ rr_counter = 0 /\ conn_counts = [b \in Backends |-> 0]
    /\ breakers = [b \in Backends |-> 0] /\ made = 0
    /\ stats = [ total |-> [p \in Paths |-> 0], success |-> [p \in Paths |-> 0],
                 error |-> [p \in Paths |-> 0], upstream_errors |-> 0, rate_limited |-> 0 ]
    /\ admitted = {} /\ started = 0
    /\ answered = 0 /\ answer = [req |-> None, raw |-> <<>>, out |-> <<>>, ka |-> FALSE]

-----------------------------------------------------------------------------
(* The response sent to the client. *)

CloseHeader == <<"CRLF", "Connection: close">>

\* out.find("\r\n\r\n"), 0 for npos.
find_end(out) ==
    LET ends == {i \in 1..(Len(out) - 1) : out[i] = "CRLF" /\ out[i + 1] = "CRLF"}
    IN  IF ends = {} THEN 0 ELSE Min(ends)

Insert(out, at, extra) == SubSeq(out, 1, at - 1) \o extra \o SubSeq(out, at, Len(out))

\* The name is compared as it is written, "Connection" or "connection", which
\* are one here; "CONNECTION" is another header.
HasConnection(head) ==
    \E i \in DOMAIN head : head[i] \in ConnectionHeader

\* Mutant: goes in after the CRLF that ends the last header line.
add_headersLate(out, hdr_end) ==
    IF "X-Request-Id" \in Range(SubSeq(out, 1, hdr_end - 1)) THEN out
    ELSE Insert(out, hdr_end + 1, <<"CRLF", "X-Request-Id">>)

\* What RequestIdFilter::on_response adds, unless the backend sent it already.
add_headers(out, hdr_end) ==
    IF "X-Request-Id" \in Range(SubSeq(out, 1, hdr_end - 1)) THEN out
    ELSE Insert(out, hdr_end, <<"CRLF", "X-Request-Id">>)

\* "\r\nConnection: close" is 19 bytes long; hdr_end advances by 21, one CRLF
\* more.
rewrite(raw) ==
    LET hdr_end == find_end(raw)
    IN  CASE hdr_end = 0 -> raw
          [] hdr_end > 0 /\ HasConnection(SubSeq(raw, 1, hdr_end)) -> add_headers(raw, hdr_end)
          [] hdr_end > 0 /\ ~HasConnection(SubSeq(raw, 1, hdr_end)) ->
                add_headers(Insert(raw, hdr_end, CloseHeader), hdr_end + Len(CloseHeader) + 1)

\* HTTP/1.1 stays open also when the request says "Connection: close".
request_keep_alive(r) == r.connection = "keep-alive" \/ r.version = "1.1"

\* The value is compared as it is written, anywhere in the response: "Close" is
\* not "close".
keep_alive(r, out) == request_keep_alive(r) /\ "Connection: close" \notin Range(out)

-----------------------------------------------------------------------------
(* process_request(), step by step. *)

Goto(w, from, to) ==
    /\ pc[w] = from
    /\ pc' = [pc EXCEPT ![w] = to]

\* Connection::send and the end of the job.
Send(w, out, ka) ==
    /\ answered' = answered + 1
    /\ answer' = [req |-> req[w], raw |-> resp[w], out |-> out, ka |-> ka]

\* A response the gateway makes itself always announces the close.
Own(code) == <<code, "CRLF", "Connection: close", "CRLF", "CRLF", "body">>

SendErrorAndClose(w, code) == Send(w, Own(code), FALSE)

start(w, r) ==
    /\ Goto(w, "idle", "filter")
    /\ started < MaxRequests
    /\ started' = started + 1
    /\ req' = [req EXCEPT ![w] = r]
    /\ resp' = [resp EXCEPT ![w] = <<>>]
    /\ target' = [target EXCEPT ![w] = <<>>]
    /\ breaker' = [breaker EXCEPT ![w] = 0]
    /\ UNCHANGED <<balancer, table, stats, admitted, sent>>

\* parse_http_request() fails.
bad_request(w) ==
    /\ Goto(w, "filter", "idle")
    /\ ~req[w].parses
    /\ SendErrorAndClose(w, "400")
    /\ UNCHANGED <<locals, balancer, table, stats, admitted, started>>

Internal(path) == path \in {<<"stats">>, <<"stats", "">>, <<"health">>, <<"health", "">>}

handle_internal_endpoint(w) ==
    /\ Goto(w, "filter", "idle")
    /\ req[w].parses /\ Internal(req[w].path)
    /\ Send(w, Own("2xx"), FALSE)
    /\ UNCHANGED <<locals, balancer, table, stats, admitted, started>>

Filtered(w) == req[w].parses /\ ~Internal(req[w].path)

\* Mutant: forgets to return after the error.
filter_rejectsOn(w) ==
    /\ Goto(w, "filter", "route")
    /\ Filtered(w)
    /\ stats' = [stats EXCEPT !.rate_limited = @ + 1]
    /\ SendErrorAndClose(w, "400")
    /\ UNCHANGED <<locals, balancer, table, admitted, started>>

filter_rejects(w) ==
    /\ Goto(w, "filter", "idle")
    /\ Filtered(w)
    /\ stats' = [stats EXCEPT !.rate_limited = @ + 1]
    /\ SendErrorAndClose(w, "400")
    /\ UNCHANGED <<locals, balancer, table, admitted, started>>

filter_passes(w) ==
    /\ Goto(w, "filter", "route")
    /\ Filtered(w)
    /\ UNCHANGED <<locals, balancer, table, stats, admitted, started, sent>>

no_route(w) ==
    /\ Goto(w, "route", "idle")
    /\ Matching(req[w].path) = {}
    /\ SendErrorAndClose(w, "404")
    /\ UNCHANGED <<locals, balancer, table, stats, admitted, started>>

\* LoadBalancer::select: one backend needs no turn.
select(w) ==
    /\ Goto(w, "route", "lookup")
    /\ Matching(req[w].path) # {}
    /\ LET backends == match(req[w].path)
           n == Len(backends)
       IN  /\ target' = [target EXCEPT ![w] = backends[1 + (IF n > 1 THEN rr_counter % n ELSE 0)]]
           /\ rr_counter' = IF n > 1 THEN rr_counter + 1 ELSE rr_counter
    /\ UNCHANGED <<req, breaker, resp, conn_counts, table, stats, admitted, started, sent>>

\* get_circuit_breaker looks without the lock: beside an insertion by another
\* worker it may miss what is there.
find_breaker(w) ==
    /\ Goto(w, "lookup", "allow")
    /\ breakers[target[w]] # 0
    /\ breaker' = [breaker EXCEPT ![w] = breakers[target[w]]]
    /\ UNCHANGED <<req, target, resp, balancer, table, stats, admitted, started, sent>>

miss_breaker(w) ==
    /\ Goto(w, "lookup", "create")
    /\ breakers[target[w]] = 0 \/ \E v \in Workers \ {w} : pc[v] = "create"
    /\ UNCHANGED <<locals, balancer, table, stats, admitted, started, sent>>

\* Mutant: puts a new breaker in place whether or not there is one.
create_breakerAnew(w) ==
    /\ Goto(w, "create", "allow")
    /\ made' = made + 1 /\ breakers' = [breakers EXCEPT ![target[w]] = made + 1]
    /\ breaker' = [breaker EXCEPT ![w] = made + 1]
    /\ UNCHANGED <<req, target, resp, balancer, stats, admitted, started, sent>>

\* try_emplace, under cb_mutex_.
create_breaker(w) ==
    /\ Goto(w, "create", "allow")
    /\ IF breakers[target[w]] = 0
       THEN made' = made + 1 /\ breakers' = [breakers EXCEPT ![target[w]] = made + 1]
       ELSE UNCHANGED table
    /\ breaker' = [breaker EXCEPT ![w] = breakers'[target[w]]]
    /\ UNCHANGED <<req, target, resp, balancer, stats, admitted, started, sent>>

breaker_rejects(w) ==
    /\ Goto(w, "allow", "idle")
    /\ SendErrorAndClose(w, "5xx")
    /\ UNCHANGED <<locals, balancer, table, stats, admitted, started>>

breaker_allows(w) ==
    /\ Goto(w, "allow", "connect")
    /\ admitted' = admitted \cup {<<w, breaker[w]>>}
    /\ UNCHANGED <<locals, balancer, table, stats, started, sent>>

on_connect(w) ==
    /\ Goto(w, "connect", "forward")
    /\ conn_counts' = [conn_counts EXCEPT ![target[w]] = @ + 1]
    /\ UNCHANGED <<locals, rr_counter, table, stats, admitted, started, sent>>

Succeeded(raw) == raw # <<>> /\ Head(raw) # "5xx"

\* Mutant: a failed call skips on_disconnect().
forwardBails(w) ==
    \E r \in Responses :
        /\ Goto(w, "forward", IF Succeeded(r) THEN "disconnect" ELSE "record")
        /\ resp' = [resp EXCEPT ![w] = r]
        /\ UNCHANGED <<req, target, breaker, balancer, table, stats, admitted, started, sent>>

\* Proxy::forward answers 502 itself when there is no response.
forward(w) ==
    \E r \in Responses :
        /\ Goto(w, "forward", "disconnect")
        /\ resp' = [resp EXCEPT ![w] = r]
        /\ UNCHANGED <<req, target, breaker, balancer, table, stats, admitted, started, sent>>

on_disconnect(w) ==
    /\ Goto(w, "disconnect", "record")
    /\ conn_counts' = [conn_counts EXCEPT ![target[w]] = IF @ > 0 THEN @ - 1 ELSE 0]
    /\ UNCHANGED <<locals, rr_counter, table, stats, admitted, started, sent>>

record_request(w) ==
    /\ Goto(w, "record", IF Succeeded(resp[w]) THEN "success" ELSE "error")
    /\ stats' = [stats EXCEPT !.total[req[w].path] = @ + 1]
    /\ UNCHANGED <<locals, balancer, table, admitted, started, sent>>

record_success(w) ==
    /\ Goto(w, "success", "report")
    /\ stats' = [stats EXCEPT !.success[req[w].path] = @ + 1]
    /\ UNCHANGED <<locals, balancer, table, admitted, started, sent>>

record_error(w) ==
    /\ Goto(w, "error", "upstream")
    /\ stats' = [stats EXCEPT !.error[req[w].path] = @ + 1]
    /\ UNCHANGED <<locals, balancer, table, admitted, started, sent>>

\* Mutant: returns without telling the breaker.
inc_upstream_errorsLast(w) ==
    /\ Goto(w, "upstream", "respond")
    /\ stats' = [stats EXCEPT !.upstream_errors = @ + 1]
    /\ UNCHANGED <<locals, balancer, table, admitted, started, sent>>

inc_upstream_errors(w) ==
    /\ Goto(w, "upstream", "report")
    /\ stats' = [stats EXCEPT !.upstream_errors = @ + 1]
    /\ UNCHANGED <<locals, balancer, table, admitted, started, sent>>

\* cb.on_success() or cb.on_failure().
report(w) ==
    /\ Goto(w, "report", "respond")
    /\ admitted' = admitted \ {<<w, breaker[w]>>}
    /\ UNCHANGED <<locals, balancer, table, stats, started, sent>>

respond(w) ==
    LET out == rewrite(resp[w])
    IN  /\ Goto(w, "respond", "idle")
        /\ Send(w, out, keep_alive(req[w], out))
        /\ UNCHANGED <<locals, balancer, table, stats, admitted, started>>

process_request(w) ==
    \/ bad_request(w) \/ handle_internal_endpoint(w)
    \/ filter_rejects(w) \/ filter_passes(w)
    \/ no_route(w) \/ select(w)
    \/ find_breaker(w) \/ miss_breaker(w) \/ create_breaker(w)
    \/ breaker_rejects(w) \/ breaker_allows(w)
    \/ on_connect(w) \/ forward(w) \/ on_disconnect(w)
    \/ record_request(w) \/ record_success(w) \/ record_error(w) \/ inc_upstream_errors(w)
    \/ report(w) \/ respond(w)

Next ==
    /\ \E w \in Workers : process_request(w) \/ \E r \in Requests : start(w, r)
    /\ UNCHANGED routes

Spec == Init /\ [][Next]_vars
-----------------------------------------------------------------------------
(* Properties. *)

At(pcs) == {w \in Workers : pc[w] \in pcs}

\* Every request taken up gets one answer: no path through process_request()
\* ends without one or goes on after it.
OneAnswerEach == started = answered + Cardinality(At(Control \ {"idle"}))

\* A breaker hears of every call it let through, once, and of no other: what
\* CircuitBreaker assumes of its callers.
CallsReported ==
    admitted = {<<w, breaker[w]>> :
        w \in At({"connect", "forward", "disconnect", "record", "success", "error", "upstream", "report"})}

\* Workers that use a backend use the same breaker, although they look for it
\* without the lock and may create it together.
OneBreaker ==
    \A v, w \in Workers :
        target[v] = target[w] /\ breaker[v] # 0 /\ breaker[w] # 0 => breaker[v] = breaker[w]

\* The errors of all paths, one by one: as many as the error counters add up to.
Errors == UNION {{p} \X (1..stats.error[p]) : p \in Paths}

\* The counters add up while several workers change them: the balancer's count
\* for a backend is the number of calls to it under way, and every forwarded
\* request is a success or an error of its path, and an error an upstream
\* error, up to those a worker is just recording.
CountersAddUp ==
    /\ \A b \in Backends :
          conn_counts[b] = Cardinality({w \in At({"forward", "disconnect"}) : target[w] = b})
    /\ \A p \in Paths :
          stats.total[p] = stats.success[p] + stats.error[p]
                           + Cardinality({w \in At({"success", "error"}) : req[w].path = p})
    /\ Cardinality(Errors) = stats.upstream_errors + Cardinality(At({"upstream"}))

\* A request goes to a backend of the longest prefix of its path (Router::match
\* takes the first of the sorted routes; README: longest-prefix matching).
LongestPrefix ==
    \A w \in At({"lookup"}) :
        LET fits == {r \in Range(Routes) : StartsWith(req[w].path, r.prefix)}
        IN  \E r \in fits : /\ \A q \in fits : Len(q.prefix) <= Len(r.prefix)
                            /\ target[w] \in Range(r.backends)

Body(out) == SubSeq(out, find_end(out) + 2, Len(out))
HeaderLines(out) == SubSeq(out, 1, find_end(out) - 1)

\* The client reads the backend's body, and the headers the filters add are
\* read as headers, when the backend sent a Connection header.  When it did
\* not, the header end that rewrite() adjusts by 21 is past the end of the
\* header lines, and the filters' headers become the beginning of the body.
\* And whenever the client reads "Connection: close" (in this spelling of the
\* value, the only one that is recognised), the connection closes.
AnswerAsRead ==
    /\ find_end(answer.raw) > 0 /\ HasConnection(HeaderLines(answer.raw)) =>
          /\ Body(answer.out) = Body(answer.raw)
          /\ "X-Request-Id" \in Range(HeaderLines(answer.out))
    /\ "Connection: close" \in Range(HeaderLines(answer.out)) => ~answer.ka
=============================================================================
