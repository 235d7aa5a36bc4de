-------------------------- MODULE MCGatewayProcess --------------------------
(* GatewayProcess for TLC: files by their structure and damaged ones, a pool of *)
(* at most two threads.  An int has 3 bits, a long 5.                           *)
EXTENDS GatewayProcess, SequencesExt

Tok(type) == [type |-> type, text |-> "", num |-> 0]
Str(s) == << [type |-> "String", text |-> s, num |-> 0] >>
Num(n) == << [type |-> "Number", text |-> "", num |-> n] >>

Between(items) == [i \in DOMAIN items |-> IF i = 1 THEN items[i] ELSE <<Tok("Comma")>> \o items[i]]
Object(members) == <<Tok("ObjectStart")>> \o FlattenSeq(Between(members)) \o <<Tok("ObjectEnd")>>
Array(items) == <<Tok("ArrayStart")>> \o FlattenSeq(Between(items)) \o <<Tok("ArrayEnd")>>
Member(k, v) == Str(k) \o <<Tok("Colon")>> \o v

BackendText(b) == Object(<<Member("host", Str(b.host)), Member("port", Num(b.port))>>)
RouteText(r) ==
    Object(<<Member("prefix", Str(r.prefix)),
             Member("backends", Array([i \in DOMAIN r.backends |-> BackendText(r.backends[i])]))>>)
RoutesMember(routes) == Member("routes", Array([i \in DOMAIN routes |-> RouteText(routes[i])]))

MCInitial == [thread_count |-> 1, max_queue_size |-> 1]

B(p) == [host |-> "h", port |-> p]
R(p, bs) == [prefix |-> p, backends |-> bs]

\* Lists of routes of plain files.
RouteLists == { <<>>, <<R("/a", <<B(1)>>)>>, <<R("/a", <<B(1)>>), R("/b", <<B(2)>>), R("/c", <<B(1)>>)>>,
                <<R("/a", <<>>), R("/b", <<B(2)>>)>> }
Kept(routes) == SelectSeq(routes, LAMBDA r : r.backends # <<>>)

\* Values of a key the loader does not know.
Unknowns == { Num(1), Str("x"), Object(<<>>),
              Object(<<Member("routes", Array(<<Object(<<>>)>>)), Member("thread_count", Num(0))>>),
              Array(<<Array(<<>>), Object(<<Member("y", Array(<<>>))>>)>>) }

Plain(threads, queue, routes, unknown, order) ==
    LET members == << Member("thread_count", Num(threads)), Member("max_queue_size", Num(queue)),
                      Member("other", unknown), RoutesMember(routes) >>
    IN  [ text |-> Object([i \in 1..4 |-> members[order[i]]]), valid |-> TRUE, plain |-> TRUE,
          means |-> [ints |-> [thread_count |-> threads, max_queue_size |-> queue], routes |-> Kept(routes)] ]

Orders == {<<1, 2, 3, 4>>, <<4, 3, 2, 1>>, <<3, 4, 1, 2>>}

OneRoute == <<R("/a", <<B(1)>>)>>

PlainDocs ==
    {Plain(2, 1, rs, Num(1), o) : rs \in RouteLists, o \in Orders}
    \cup {Plain(2, 1, OneRoute, u, o) : u \in Unknowns, o \in Orders}
    \cup {Plain(t, 1, OneRoute, Num(1), <<1, 2, 3, 4>>) : t \in {-1, 0, 1}}

Nothing == [ints |-> MCInitial, routes |-> <<>>]
Odd(text, valid) == [text |-> text, valid |-> valid, plain |-> FALSE, means |-> Nothing]

Base == Plain(1, 1, OneRoute, Object(<<Member("y", Array(<<Num(1)>>))>>), <<1, 3, 4, 2>>)

\* The file with a lexeme put in, or cut off.
Damaged(text) ==
    {Odd(InsertAt(text, i, Tok(t)), FALSE) : i \in 1..Len(text), t \in {"Unexpected", "Slash"}}
    \cup {Odd(SubSeq(text, 1, i), FALSE) : i \in 1..(Len(text) - 1)}
    \cup {Odd(RemoveAt(text, i), FALSE) : i \in 1..Len(text)}

Commented == {[Base EXCEPT !.text = InsertAt(@, i, Tok("Comment"))] : i \in 1..Len(Base.text)}

OddDocs ==
    { Odd(Object(<<Member("thread_count", Num(9)), Member("max_queue_size", Num(20))>>), TRUE),
      Odd(Object(<<Member("thread_count", Str("2")), Member("max_queue_size", Num(-1))>>), TRUE),
      Odd(Object(<<Member("routes", Num(1))>>), FALSE),
      Odd(Object(<<Member("routes", Array(<<Object(<<Member("backends", Num(1))>>)>>))>>), FALSE),
      Odd(Object(<<Member("routes", Array(<<Object(<<Member("prefix", Str("/a")),
            Member("backends", Array(<<Object(<<Member("host", Str("h"))>>)>>))>>)>>))>>), TRUE),
      Odd(Array(<<>>), FALSE), Odd(<<>>, FALSE) }

MCDocuments == PlainDocs \cup Commented \cup Damaged(Base.text) \cup OddDocs

\* The structure the header of the loader shows: an integer, then a route of
\* two backends.
Shown ==
    [ text |-> Object(<<Member("thread_count", Num(2)), RoutesMember(<<R("/a", <<B(1), B(2)>>)>>)>>),
      valid |-> TRUE, plain |-> FALSE,
      means |-> [ints |-> [MCInitial EXCEPT !["thread_count"] = 2], routes |-> <<R("/a", <<B(1), B(2)>>)>>] ]
MCShown == {Shown}
=============================================================================
