------------------------ MODULE RequestPipelineProofs ------------------------
(***************************************************************************)
(* What process_request() promises, for any number of workers, requests,   *)
(* routes, backends and responses.  A worker's step changes only its own   *)
(* locals (Elsewhere), so that a count over the workers changes by the     *)
(* worker that moves (OneMoves).  The inductive invariant says what the    *)
(* locals of a worker are at each place (LocalsOK): in particular that a   *)
(* worker with a breaker has the one the table holds for its backend, and  *)
(* the table never replaces an entry.                                      *)
(***************************************************************************)
EXTENDS RequestPipeline, FiniteSetTheorems, SequenceTheorems, WellFoundedInduction, TLAPS

\* The locals of a worker, by where it is.
LocalsAt(w) ==
    /\ pc[w] # "idle" => req[w] \in Requests
    /\ pc[w] \in {"filter", "route", "lookup", "create"} => breaker[w] = 0
    /\ pc[w] \in {"filter", "route", "lookup", "create", "allow", "connect", "forward"}
          => resp[w] = <<>>
    /\ pc[w] \notin {"idle", "filter", "route"} => target[w] \in Backends
    /\ breaker[w] # 0 => target[w] \in Backends /\ breakers[target[w]] = breaker[w]

LocalsOK == \A w \in Workers : LocalsAt(w)

\* The answers that OneAnswerEach counts are those of workers in a request.
IInv ==
    /\ TypeOK /\ LocalsOK
    /\ OneAnswerEach /\ CallsReported /\ CountersAddUp /\ IsFiniteSet(Errors)
    /\ LongestPrefix /\ AnswerAsRead

-----------------------------------------------------------------------------
(* The operators the model is built from. *)

\* Min, by which the model says "the first", is the least element.
LEMMA LeastNumber ==
    ASSUME NEW S \in SUBSET Nat, S # {}
    PROVE  Min(S) \in S /\ \A n \in S : Min(S) <= n
  <1> DEFINE R == OpToRel(<, Nat)
  <1>1. IsWellFoundedOn(R, Nat)
    BY NatLessThanWellFounded, Zenon
  <1> HIDE DEF R
  <1>2. PICK m \in S : \A n \in S : ~(<<n, m>> \in R)
    BY <1>1, WFMin
  <1>3. \A n \in S : m <= n
    <2> SUFFICES ASSUME NEW n \in S, n < m
                 PROVE  FALSE
      BY <1>2
    <2>1. <<n, m>> \in R
      BY DEF R, OpToRel
    <2> QED
      BY <2>1, <1>2
  <1>4. \E x \in S : \A y \in S : x =< y
    BY <1>3
  <1> QED
    BY <1>4 DEF Min

Route == [prefix : Seq(STRING), backends : Seq(Backends) \ {<<>>}]

\* What sort_routes() does: the same routes, those with more slashes first.
LEMMA SortedRoutes ==
    ASSUME NEW s \in sort_routes(Routes)
    PROVE  /\ s \in Seq(Route)
           /\ \A i \in DOMAIN s : \E j \in DOMAIN Routes : s[i] = Routes[j]
           /\ \A j \in DOMAIN Routes : \E i \in DOMAIN s : s[i] = Routes[j]
           /\ \A i, j \in DOMAIN s : i < j => Len(s[i].prefix) >= Len(s[j].prefix)
  <1>0. Routes \in Seq(Route)
    BY PipelineAssumption DEF Route
  <1> DEFINE D == DOMAIN Routes
  <1>1. PICK p \in Bijection(D, D) : s = [i \in D |-> Routes[p[i]]]
    BY DEF sort_routes, Arrangements
  <1>2. p \in [D -> D] /\ \A t \in D : \E i \in D : p[i] = t
    BY <1>1 DEF Bijection, Injection, Surjection
  <1>3. D = 1..Len(Routes) /\ Len(Routes) \in Nat
    BY <1>0
  <1>4. \A i \in D : Routes[p[i]] \in Route
    BY <1>0, <1>2, <1>3
  <1>5. s \in Seq(Route) /\ DOMAIN s = D
    BY <1>1, <1>3, <1>4
  <1>6. \A i, j \in DOMAIN s : i < j => Len(s[i].prefix) >= Len(s[j].prefix)
    BY DEF sort_routes
  <1> QED
    BY <1>1, <1>2, <1>5, <1>6

\* What Router::match() finds is a route with the longest prefix that fits.
LEMMA MatchIsLongest ==
    ASSUME routes \in sort_routes(Routes), NEW path, Matching(path) # {}
    PROVE  /\ match(path) \in Seq(Backends) \ {<<>>}
           /\ \E r \in Range(Routes) :
                 /\ StartsWith(path, r.prefix) /\ match(path) = r.backends
                 /\ \A q \in Range(Routes) : StartsWith(path, q.prefix) => Len(q.prefix) <= Len(r.prefix)
  <1> DEFINE m == Min(Matching(path))
  <1>1. /\ routes \in Seq(Route)
        /\ \A i \in DOMAIN routes : \E j \in DOMAIN Routes : routes[i] = Routes[j]
        /\ \A j \in DOMAIN Routes : \E i \in DOMAIN routes : routes[i] = Routes[j]
        /\ \A i, j \in DOMAIN routes : i < j => Len(routes[i].prefix) >= Len(routes[j].prefix)
    BY SortedRoutes
  <1>2. Matching(path) \in SUBSET Nat
    BY <1>1 DEF Matching
  <1>3. m \in Matching(path) /\ \A i \in Matching(path) : m <= i
    BY <1>2, LeastNumber
  <1> HIDE DEF m
  <1>4. m \in DOMAIN routes /\ StartsWith(path, routes[m].prefix) /\ match(path) = routes[m].backends
    BY <1>3 DEF Matching, match, m
  <1>5. routes[m] \in Route
    BY <1>1, <1>4
  <1>6. routes[m] \in Range(Routes)
    BY <1>1, <1>4 DEF Range
  <1>7. ASSUME NEW q \in Range(Routes), StartsWith(path, q.prefix)
        PROVE  Len(q.prefix) <= Len(routes[m].prefix)
    <2>1. PICK i \in DOMAIN routes : routes[i] = q
      BY <1>1 DEF Range
    <2>2. i \in Matching(path)
      BY <2>1, <1>7 DEF Matching
    <2>3. m <= i /\ i \in Nat /\ m \in Nat
      BY <2>2, <1>2, <1>3
    <2>4. routes[i] \in Route
      BY <1>1, <2>1
    <2>5. Len(routes[i].prefix) \in Nat /\ Len(routes[m].prefix) \in Nat
      BY <2>4, <1>5 DEF Route
    <2> QED
      BY <2>1, <2>3, <2>5, <1>1, <1>4
  <1> QED
    BY <1>4, <1>5, <1>6, <1>7 DEF Route

\* What find("\r\n\r\n") returns: the first place, 0 if there is none.
LEMMA FirstEnd ==
    ASSUME NEW out \in Seq(Token)
    PROVE  /\ find_end(out) \in 0..(Len(out) - 1) \/ find_end(out) = 0
           /\ find_end(out) > 0 => out[find_end(out)] = "CRLF" /\ out[find_end(out) + 1] = "CRLF"
           /\ \A i \in 1..(Len(out) - 1) :
                 out[i] = "CRLF" /\ out[i + 1] = "CRLF" => find_end(out) > 0 /\ find_end(out) <= i
  <1> DEFINE ends == {i \in 1..(Len(out) - 1) : out[i] = "CRLF" /\ out[i + 1] = "CRLF"}
  <1>1. find_end(out) = IF ends = {} THEN 0 ELSE Min(ends)
    BY DEF find_end
  <1>2. ends \in SUBSET Nat
    OBVIOUS
  <1>5. \A i \in 1..(Len(out) - 1) : out[i] = "CRLF" /\ out[i + 1] = "CRLF" <=> i \in ends
    OBVIOUS
  <1>6. ends \in SUBSET (1..(Len(out) - 1))
    OBVIOUS
  <1> HIDE DEF ends
  <1>3. CASE ends = {}
    BY <1>1, <1>3, <1>5
  <1>4. CASE ends # {}
    <2>1. Min(ends) \in ends /\ \A i \in ends : Min(ends) <= i
      BY <1>2, <1>4, LeastNumber
    <2>2. find_end(out) \in ends /\ \A i \in ends : find_end(out) <= i
      BY <1>1, <1>4, <2>1
    <2>3. find_end(out) \in 1..(Len(out) - 1)
      BY <1>6, <2>2
    <2> QED
      BY <1>5, <2>2, <2>3
  <1> QED
    BY <1>3, <1>4

\* The first end is where it is.
LEMMA FirstEndIs ==
    ASSUME NEW out \in Seq(Token), NEW e \in 1..(Len(out) - 1), out[e] = "CRLF", out[e + 1] = "CRLF",
           \A i \in 1..(e - 1) : ~(out[i] = "CRLF" /\ out[i + 1] = "CRLF")
    PROVE  find_end(out) = e
  <1>1. find_end(out) > 0 /\ find_end(out) <= e /\ find_end(out) \in Int
    BY FirstEnd
  <1>2. find_end(out) \notin 1..(e - 1)
    BY FirstEnd
  <1> QED
    BY <1>1, <1>2

\* Insert() puts its text before the position.
LEMMA Inserted ==
    ASSUME NEW out \in Seq(Token), NEW at \in 1..Len(out), NEW extra \in Seq(Token)
    PROVE  /\ Insert(out, at, extra) \in Seq(Token)
           /\ Len(Insert(out, at, extra)) = Len(out) + Len(extra)
           /\ \A i \in 1..(at - 1) : Insert(out, at, extra)[i] = out[i]
           /\ \A i \in 1..Len(extra) : Insert(out, at, extra)[at - 1 + i] = extra[i]
           /\ \A i \in at..Len(out) : Insert(out, at, extra)[Len(extra) + i] = out[i]
  <1> DEFINE a == SubSeq(out, 1, at - 1)
             b == SubSeq(out, at, Len(out))
             n == Len(out)
             k == Len(extra)
  <1>0. n \in Nat /\ k \in Nat /\ at \in Int
    OBVIOUS
  <1>1. a \in Seq(Token) /\ Len(a) = at - 1 /\ \A i \in 1..(at - 1) : a[i] = out[i]
    OBVIOUS
  <1>2. b \in Seq(Token) /\ Len(b) = n - at + 1 /\ \A i \in 1..(n - at + 1) : b[i] = out[at + i - 1]
    OBVIOUS
  <1>3. Insert(out, at, extra) = (a \o extra) \o b
    BY DEF Insert
  <1> HIDE DEF a, b
  <1> DEFINE c == a \o extra
  <1>4. /\ c \in Seq(Token) /\ Len(c) = Len(a) + k
        /\ \A i \in 1..(Len(a) + k) : c[i] = IF i <= Len(a) THEN a[i] ELSE extra[i - Len(a)]
    BY <1>1, ConcatProperties, Zenon
  <1>5. Len(c) = at - 1 + k
    BY <1>4, <1>1, <1>0
  <1>11. \A i \in 1..(at - 1) : i \in 1..(Len(a) + k) /\ c[i] = a[i]
    BY <1>4, <1>1, <1>0
  <1>12. \A i \in 1..k : c[at - 1 + i] = extra[i]
    BY <1>4, <1>1, <1>0
  <1> HIDE DEF c
  <1>13. /\ c \o b \in Seq(Token) /\ Len(c \o b) = Len(c) + Len(b)
         /\ \A i \in 1..(Len(c) + Len(b)) : (c \o b)[i] = IF i <= Len(c) THEN c[i] ELSE b[i - Len(c)]
    <2>1. c \in Seq(Token) /\ b \in Seq(Token)
      BY <1>4, <1>2
    <2> QED
      BY <2>1, ConcatProperties, Zenon
  <1>6. Len(c) + Len(b) = n + k
    BY <1>5, <1>2, <1>0
  <1>7. Insert(out, at, extra) = c \o b
    BY <1>3 DEF c
  <1>8. ASSUME NEW i \in 1..(at - 1)
        PROVE  (c \o b)[i] = out[i]
    <2>1. i \in 1..(n + k) /\ i <= at - 1 + k
      BY <1>0
    <2> QED
      BY <2>1, <1>13, <1>5, <1>6, <1>11, <1>1
  <1>9. ASSUME NEW i \in 1..k
        PROVE  (c \o b)[at - 1 + i] = extra[i]
    <2>1. at - 1 + i \in 1..(n + k) /\ at - 1 + i <= at - 1 + k
      BY <1>0
    <2> QED
      BY <2>1, <1>13, <1>5, <1>6, <1>12
  <1>10. ASSUME NEW i \in at..n
         PROVE  (c \o b)[k + i] = out[i]
    <2>1. k + i \in 1..(n + k) /\ ~(k + i <= at - 1 + k) /\ k + i - (at - 1 + k) = i - at + 1
      BY <1>0
    <2>2. i - at + 1 \in 1..(n - at + 1) /\ at + (i - at + 1) - 1 = i
      BY <1>0
    <2>3. (c \o b)[k + i] = b[k + i - Len(c)]
      BY <2>1, <1>13, <1>5, <1>6
    <2>4. b[i - at + 1] = out[i]
      BY <2>2, <1>2
    <2> QED
      BY <2>1, <2>3, <2>4, <1>5
  <1> QED
    BY <1>13, <1>6, <1>7, <1>8, <1>9, <1>10

\* A sequence holds what it holds at its places.
LEMMA InRange ==
    ASSUME NEW S, NEW s \in Seq(S), NEW x
    PROVE  x \in Range(s) <=> \E i \in 1..Len(s) : s[i] = x
  BY DEF Range

\* The header lines are among the lines.
LEMMA HeaderLinesAre ==
    ASSUME NEW out \in Seq(Token)
    PROVE  /\ HeaderLines(out) \in Seq(Token)
           /\ Len(HeaderLines(out)) = IF find_end(out) > 0 THEN find_end(out) - 1 ELSE 0
           /\ \A i \in 1..(find_end(out) - 1) : HeaderLines(out)[i] = out[i]
           /\ \A x \in Range(HeaderLines(out)) : x \in Range(out)
  <1> DEFINE e == find_end(out) - 1
  <1>1. e \in Int /\ e < Len(out) /\ e >= -1 /\ Len(out) \in Nat
    BY FirstEnd
  <1>2. HeaderLines(out) = SubSeq(out, 1, e)
    BY DEF HeaderLines
  <1> HIDE DEF e
  <1>3. \A i \in 1..e : out[i] \in Token
    BY <1>1
  <1>4. /\ SubSeq(out, 1, e) \in Seq(Token)
        /\ Len(SubSeq(out, 1, e)) = IF 1 <= e THEN e - 1 + 1 ELSE 0
        /\ \A i \in 1..(e - 1 + 1) : SubSeq(out, 1, e)[i] = out[1 + i - 1]
    BY <1>1, <1>3, SubSeqProperties
  <1>5. \A i \in 1..e : SubSeq(out, 1, e)[i] = out[i]
    BY <1>1, <1>4
  <1>6. Len(SubSeq(out, 1, e)) = IF e > -1 THEN e ELSE 0
    BY <1>1, <1>4
  <1>7. ASSUME NEW x \in Range(HeaderLines(out))
        PROVE  x \in Range(out)
    <2>1. PICK i \in 1..Len(SubSeq(out, 1, e)) : SubSeq(out, 1, e)[i] = x
      BY <1>2, <1>4, InRange
    <2>2. i \in 1..e /\ i \in 1..Len(out)
      BY <1>1, <1>6
    <2> QED
      BY <2>1, <2>2, <1>5, InRange
  <1>8. e = find_end(out) - 1 /\ find_end(out) \in Int
    BY <1>1, FirstEnd DEF e
  <1> QED
    BY <1>2, <1>4, <1>5, <1>6, <1>7, <1>8

\* Nothing has no end and no header lines.
LEMMA NothingToRead ==
    ASSUME NEW out \in Seq(Token), Len(out) = 0
    PROVE  find_end(out) = 0 /\ Range(HeaderLines(out)) = {}
  <1>1. find_end(out) = 0
    <2>1. find_end(out) \in 0..(Len(out) - 1) \/ find_end(out) = 0
      BY FirstEnd, Zenon
    <2> QED
      BY <2>1
  <1>2. HeaderLines(out) \in Seq(Token) /\ Len(HeaderLines(out)) = 0
    <2>1. /\ HeaderLines(out) \in Seq(Token)
          /\ Len(HeaderLines(out)) = IF find_end(out) > 0 THEN find_end(out) - 1 ELSE 0
      BY HeaderLinesAre, Zenon
    <2> QED
      BY <1>1, <2>1
  <1>3. \A x : x \notin Range(HeaderLines(out))
    BY <1>2, InRange
  <1> QED
    BY <1>1, <1>3

\* What rewrite() makes is a response.
LEMMA RewriteIsResponse ==
    ASSUME NEW raw \in Seq(Token)
    PROVE  rewrite(raw) \in Seq(Token)
  <1> DEFINE e == find_end(raw)
             n == Len(raw)
             X == <<"CRLF", "X-Request-Id">>
  <1>1. e = 0 \/ (e \in 1..(n - 1) /\ raw[e] = "CRLF" /\ raw[e + 1] = "CRLF")
    BY FirstEnd
  <1>2. X \in Seq(Token) /\ CloseHeader \in Seq(Token) /\ Len(CloseHeader) = 2
    <2>1. "CRLF" \in Token /\ "X-Request-Id" \in Token /\ "Connection: close" \in Token
      BY DEF Token, ConnectionHeader
    <2>2. \A a, b \in Token : <<a, b>> \in Seq(Token) /\ Len(<<a, b>>) = 2
      OBVIOUS
    <2> QED
      BY <2>1, <2>2 DEF CloseHeader
  <1> HIDE DEF e, n, X
  <1>3. ASSUME NEW out \in Seq(Token), NEW at \in 1..Len(out)
        PROVE  add_headers(out, at) \in Seq(Token)
    <2>1. Insert(out, at, X) \in Seq(Token)
      BY <1>2, Inserted
    <2> QED
      BY <2>1 DEF add_headers, X
  <1>4. CASE e = 0
    BY <1>4 DEF rewrite, e
  <1>5. CASE e > 0 /\ HasConnection(SubSeq(raw, 1, e))
    <2>1. rewrite(raw) = add_headers(raw, e)
      BY <1>5 DEF rewrite, e
    <2>2. e \in 1..Len(raw)
      BY <1>1, <1>5 DEF n
    <2> QED
      BY <2>1, <2>2, <1>3
  <1>6. CASE e > 0 /\ ~HasConnection(SubSeq(raw, 1, e))
    <2> DEFINE out == Insert(raw, e, CloseHeader)
    <2>1. rewrite(raw) = add_headers(out, e + Len(CloseHeader) + 1)
      BY <1>6 DEF rewrite, e
    <2>2. e \in 1..Len(raw) /\ e \in 1..(n - 1) /\ n \in Nat
      BY <1>1, <1>6 DEF n
    <2>3. out \in Seq(Token) /\ Len(out) = n + Len(CloseHeader)
      BY <2>2, <1>2, Inserted DEF n
    <2> HIDE DEF out
    <2>4. e + Len(CloseHeader) + 1 \in 1..Len(out)
      BY <2>2, <2>3, <1>2
    <2> QED
      BY <2>1, <2>3, <2>4, <1>3, Zenon
  <1> QED
    BY <1>1, <1>4, <1>5, <1>6

\* rewrite() keeps the body of a response with a Connection header, and puts
\* the header the filters add among its headers.
LEMMA RewriteKeepsBody ==
    ASSUME NEW raw \in Seq(Token), find_end(raw) > 0, HasConnection(HeaderLines(raw))
    PROVE  /\ rewrite(raw) \in Seq(Token)
           /\ Body(rewrite(raw)) = Body(raw)
           /\ "X-Request-Id" \in Range(HeaderLines(rewrite(raw)))
  <1> DEFINE e == find_end(raw)
             n == Len(raw)
             X == <<"CRLF", "X-Request-Id">>
             out == Insert(raw, e, X)
  <1>1. /\ e \in 1..(n - 1) /\ n \in Nat /\ raw[e] = "CRLF" /\ raw[e + 1] = "CRLF"
        /\ \A i \in 1..(e - 1) : ~(raw[i] = "CRLF" /\ raw[i + 1] = "CRLF")
    BY FirstEnd
  <1>7. /\ HeaderLines(raw) \in Seq(Token) /\ Len(HeaderLines(raw)) = e - 1
        /\ \A j \in 1..(e - 1) : HeaderLines(raw)[j] = raw[j]
    BY HeaderLinesAre
  <1>8. e = find_end(raw) /\ n = Len(raw)
    OBVIOUS
  <1> HIDE DEF e, n
  <1>2. HasConnection(SubSeq(raw, 1, e))
    <2>1. PICK i \in DOMAIN HeaderLines(raw) :
                  HeaderLines(raw)[i] \in ConnectionHeader
      BY DEF HasConnection
    <2>2. i \in 1..(e - 1) /\ HeaderLines(raw)[i] = raw[i]
      <3>1. DOMAIN HeaderLines(raw) = 1..(e - 1)
        BY <1>7
      <3> QED
        BY <2>1, <3>1, <1>7
    <2>3. i \in 1..e /\ DOMAIN SubSeq(raw, 1, e) = 1..e /\ SubSeq(raw, 1, e)[i] = raw[i]
      BY <2>2, <1>1, <1>8
    <2> QED
      BY <2>1, <2>2, <2>3 DEF HasConnection
  <1>3. rewrite(raw) = add_headers(raw, e)
    BY <1>1, <1>2, <1>8 DEF rewrite
  <1>4. SubSeq(raw, 1, e - 1) = HeaderLines(raw)
    BY <1>8 DEF HeaderLines
  <1>5. CASE "X-Request-Id" \in Range(HeaderLines(raw))
    <2>1. rewrite(raw) = raw
      BY <1>3, <1>4, <1>5 DEF add_headers
    <2> QED
      BY <2>1, <1>5
  <1>6. CASE "X-Request-Id" \notin Range(HeaderLines(raw))
    <2>1. rewrite(raw) = out
      BY <1>3, <1>4, <1>6 DEF add_headers
    <2>2. X \in Seq(Token) /\ Len(X) = 2 /\ X[1] = "CRLF" /\ X[2] = "X-Request-Id"
      <3>1. "CRLF" \in Token /\ "X-Request-Id" \in Token
        BY DEF Token
      <3>2. \A a, b \in Token : <<a, b>> \in Seq(Token) /\ Len(<<a, b>>) = 2
        OBVIOUS
      <3> QED
        BY <3>1, <3>2
    <2> HIDE DEF X
    <2>3. /\ out \in Seq(Token) /\ Len(out) = n + 2
          /\ \A i \in 1..(e - 1) : out[i] = raw[i]
          /\ out[e] = "CRLF" /\ out[e + 1] = "X-Request-Id"
          /\ \A i \in e..n : out[i + 2] = raw[i]
      <3>1. e \in 1..Len(raw)
        BY <1>1, <1>8
      <3>2. /\ out \in Seq(Token) /\ Len(out) = n + Len(X)
            /\ \A i \in 1..(e - 1) : out[i] = raw[i]
            /\ \A i \in 1..Len(X) : out[e - 1 + i] = X[i]
            /\ \A i \in e..n : out[Len(X) + i] = raw[i]
        BY <3>1, <2>2, <1>8, Inserted
      <3> HIDE DEF out
      <3>3. out[e - 1 + 1] = X[1] /\ out[e - 1 + 2] = X[2]
        BY <3>2, <2>2
      <3>4. e - 1 + 1 = e /\ e - 1 + 2 = e + 1
        BY <1>1
      <3>5. \A i \in e..n : out[i + 2] = raw[i]
        BY <3>2, <2>2, <1>1
      <3> QED
        BY <3>2, <3>3, <3>4, <3>5, <2>2
    <2> HIDE DEF out
    <2>4. find_end(out) = e + 2
      <3>1. e + 2 \in 1..(Len(out) - 1)
        BY <1>1, <2>3
      <3>2. out[e + 2] = "CRLF" /\ out[e + 3] = "CRLF"
        BY <1>1, <2>3
      <3>3. ASSUME NEW i \in 1..(e + 1), out[i] = "CRLF", out[i + 1] = "CRLF"
            PROVE  FALSE
        <4>1. CASE i < e - 1
          <5>1. i \in 1..(e - 1) /\ i + 1 \in 1..(e - 1)
            BY <4>1, <1>1
          <5>2. out[i] = raw[i] /\ out[i + 1] = raw[i + 1]
            BY <5>1, <2>3
          <5> QED
            BY <5>1, <5>2, <3>3, <1>1
        <4>2. CASE i = e - 1
          <5>1. raw[i] = "CRLF" /\ raw[i + 1] = "CRLF" /\ i \in 1..(e - 1)
            BY <4>2, <3>3, <1>1, <2>3
          <5> QED
            BY <5>1, <1>1
        <4>3. CASE i = e \/ i = e + 1
          BY <4>3, <3>3, <2>3, <1>1
        <4> QED
          BY <4>1, <4>2, <4>3, <1>1
      <3>4. e + 2 + 1 = e + 3 /\ e + 2 - 1 = e + 1
        BY <1>1
      <3> QED
        <4>1. PICK f \in 1..(Len(out) - 1) : f = e + 2
          BY <3>1
        <4>2. out[f] = "CRLF" /\ out[f + 1] = "CRLF"
          BY <4>1, <3>2, <3>4
        <4>3. \A i \in 1..(f - 1) : ~(out[i] = "CRLF" /\ out[i + 1] = "CRLF")
          <5> SUFFICES ASSUME NEW i \in 1..(f - 1), out[i] = "CRLF", out[i + 1] = "CRLF"
                       PROVE  FALSE
            OBVIOUS
          <5>1. i \in 1..(e + 1)
            BY <4>1, <3>4, <1>1
          <5> QED
            BY <5>1, <3>3
        <4>4. out \in Seq(Token)
          BY <2>3
        <4>5. find_end(out) = f
          BY <4>2, <4>3, <4>4, FirstEndIs
        <4> QED
          BY <4>1, <4>5
    <2>5. Body(out) = Body(raw)
      <3>1. Body(out) = SubSeq(out, e + 4, n + 2) /\ Body(raw) = SubSeq(raw, e + 2, n)
        <4>1. find_end(out) + 2 = e + 4 /\ Len(out) = n + 2
          BY <2>3, <2>4, <1>1
        <4> QED
          BY <4>1, <1>8, Zenon DEF Body
      <3>0. n \in Nat /\ e \in 1..(n - 1)
        BY <1>1
      <3> DEFINE b == SubSeq(out, e + 4, n + 2)
                 c == SubSeq(raw, e + 2, n)
      <3>2. /\ b \in Seq(Token) /\ Len(b) = n - e - 1
            /\ \A i \in 1..(n - e - 1) : b[i] = out[e + 3 + i]
        <4>1. \A i \in (e + 4)..(n + 2) : out[i] \in Token
          BY <2>3, <3>0
        <4>2. /\ b \in Seq(Token)
              /\ Len(b) = IF e + 4 <= n + 2 THEN n + 2 - (e + 4) + 1 ELSE 0
              /\ \A i \in 1..(n + 2 - (e + 4) + 1) : b[i] = out[e + 4 + i - 1]
          BY <4>1, <3>0, SubSeqProperties
        <4> HIDE DEF b
        <4>3. Len(b) = n - e - 1
          BY <4>2, <3>0
        <4>4. ASSUME NEW i \in 1..(n - e - 1)
              PROVE  b[i] = out[e + 3 + i]
          <5>1. i \in 1..(n + 2 - (e + 4) + 1) /\ e + 4 + i - 1 = e + 3 + i
            BY <3>0
          <5> QED
            BY <5>1, <4>2
        <4> QED
          BY <4>2, <4>3, <4>4
      <3>3. /\ c \in Seq(Token) /\ Len(c) = n - e - 1
            /\ \A i \in 1..(n - e - 1) : c[i] = raw[e + 1 + i]
        <4>1. \A i \in (e + 2)..n : raw[i] \in Token
          BY <3>0, <1>8
        <4>2. /\ c \in Seq(Token)
              /\ Len(c) = IF e + 2 <= n THEN n - (e + 2) + 1 ELSE 0
              /\ \A i \in 1..(n - (e + 2) + 1) : c[i] = raw[e + 2 + i - 1]
          BY <4>1, <3>0, SubSeqProperties
        <4> HIDE DEF c
        <4>3. Len(c) = n - e - 1
          BY <4>2, <3>0
        <4>4. ASSUME NEW i \in 1..(n - e - 1)
              PROVE  c[i] = raw[e + 1 + i]
          <5>1. i \in 1..(n - (e + 2) + 1) /\ e + 2 + i - 1 = e + 1 + i
            BY <3>0
          <5> QED
            BY <5>1, <4>2
        <4> QED
          BY <4>2, <4>3, <4>4
      <3>4. \A i \in 1..(n - e - 1) : out[e + 3 + i] = raw[e + 1 + i]
        <4> SUFFICES ASSUME NEW i \in 1..(n - e - 1)
                     PROVE  out[e + 3 + i] = raw[e + 1 + i]
          OBVIOUS
        <4>1. e + 1 + i \in e..n /\ e + 1 + i + 2 = e + 3 + i
          BY <3>0
        <4> QED
          BY <4>1, <2>3
      <3> HIDE DEF b, c
      <3>5. b = c
        BY <3>2, <3>3, <3>4, SeqEqual
      <3> QED
        BY <3>1, <3>5 DEF b, c
    <2>6. "X-Request-Id" \in Range(HeaderLines(out))
      <3>1. e + 1 \in 1..(find_end(out) - 1) /\ Len(HeaderLines(out)) = e + 1
        BY <2>3, <2>4, <1>1, HeaderLinesAre
      <3>2. HeaderLines(out)[e + 1] = "X-Request-Id" /\ HeaderLines(out) \in Seq(Token)
        BY <3>1, <2>3, HeaderLinesAre
      <3> QED
        BY <3>1, <3>2, <2>4, <1>1, InRange
    <2> QED
      BY <2>1, <2>3, <2>5, <2>6
  <1> QED
    BY <1>5, <1>6

-----------------------------------------------------------------------------
(* Counting workers. *)

\* A group of workers is finite; when one worker may join or leave it, the
\* number changes by that worker.
LEMMA OneMoves ==
    ASSUME NEW w \in Workers, NEW A \in SUBSET Workers, NEW B \in SUBSET Workers,
           A \ {w} = B \ {w}
    PROVE  /\ Cardinality(A) \in Nat /\ Cardinality(B) \in Nat
           /\ (w \in A <=> w \in B) => Cardinality(B) = Cardinality(A)
           /\ w \notin A /\ w \in B => Cardinality(B) = Cardinality(A) + 1
           /\ w \in A /\ w \notin B => Cardinality(B) = Cardinality(A) - 1
  <1>1. IsFiniteSet(A) /\ IsFiniteSet(B)
    BY PipelineAssumption, FS_Subset
  <1>2. Cardinality(A) \in Nat /\ Cardinality(B) \in Nat
    BY <1>1, FS_CardinalityType
  <1>3. CASE w \in A <=> w \in B
    <2>1. A = B
      BY <1>3
    <2> QED
      BY <2>1, <1>2, <1>3
  <1>4. CASE w \notin A /\ w \in B
    <2>1. B = A \cup {w}
      BY <1>4
    <2>2. Cardinality(A \cup {w}) = Cardinality(A) + 1
      BY <1>1, <1>4, FS_AddElement
    <2> QED
      BY <2>1, <2>2, <1>2, <1>4
  <1>5. CASE w \in A /\ w \notin B
    <2>1. B = A \ {w}
      BY <1>5
    <2>2. Cardinality(A \ {w}) = Cardinality(A) - 1
      BY <1>1, <1>5, FS_RemoveElement
    <2> QED
      BY <2>1, <2>2, <1>2, <1>5
  <1> QED
    BY <1>3, <1>4, <1>5

\* A step of worker w.
Step(w) == process_request(w) \/ \E r \in Requests : start(w, r)

\* What a worker's step leaves alone: the locals of the others.
Elsewhere(w) ==
    \A u \in Workers \ {w} :
        /\ pc'[u] = pc[u] /\ req'[u] = req[u] /\ target'[u] = target[u]
        /\ breaker'[u] = breaker[u] /\ resp'[u] = resp[u]

-----------------------------------------------------------------------------
(* The inductive invariant, conjunct by conjunct. *)

\* Initially.
LEMMA InitIInv == Init => IInv
  <1> SUFFICES ASSUME Init
               PROVE  IInv
    OBVIOUS
  <1>1. TypeOK
    BY PipelineAssumption DEF Init, TypeOK, Control
  <1>2. LocalsOK
    BY DEF Init, LocalsOK, LocalsAt
  <1>3. ASSUME NEW A \in SUBSET Control, "idle" \notin A
        PROVE  At(A) = {}
    BY <1>3 DEF Init, At
  <1>4. Cardinality({}) = 0 /\ IsFiniteSet({})
    BY FS_EmptySet
  <1>5. OneAnswerEach
    <2>1. At(Control \ {"idle"}) = {}
      BY <1>3
    <2>2. started = 0 /\ answered = 0
      BY DEF Init
    <2> QED
      BY <2>1, <2>2, <1>4 DEF OneAnswerEach
  <1>6. CallsReported
    BY DEF Init, CallsReported, At
  <1>7. Errors = {}
    BY DEF Init, Errors
  <1>8. CountersAddUp
    <2>1. At({"upstream"}) = {} /\ At({"success", "error"}) = {} /\ At({"forward", "disconnect"}) = {}
      BY DEF Init, At
    <2>2. \A b \in Backends : {w \in At({"forward", "disconnect"}) : target[w] = b} = {}
      BY <2>1
    <2>3. \A p \in Paths : {w \in At({"success", "error"}) : req[w].path = p} = {}
      BY <2>1
    <2>4. Cardinality(Errors) = stats.upstream_errors + Cardinality(At({"upstream"}))
      <3>1. stats.upstream_errors = 0
        BY DEF Init
      <3> QED
        BY <1>4, <1>7, <2>1, <3>1
    <2>5. \A b \in Backends : conn_counts[b] = 0
      BY DEF Init
    <2>6. \A p \in Paths : stats.total[p] = 0 /\ stats.success[p] = 0 /\ stats.error[p] = 0
      BY DEF Init
    <2> QED
      <3>1. ASSUME NEW b \in Backends
            PROVE  conn_counts[b] = Cardinality({w \in At({"forward", "disconnect"}) : target[w] = b})
        BY <1>4, <2>2, <2>5
      <3>2. ASSUME NEW p \in Paths
            PROVE  stats.total[p] = stats.success[p] + stats.error[p]
                           + Cardinality({w \in At({"success", "error"}) : req[w].path = p})
        <4>1. Cardinality({w \in At({"success", "error"}) : req[w].path = p}) = 0
          BY <1>4, <2>3
        <4> QED
          BY <4>1, <2>6
      <3> QED
        BY <2>4, <3>1, <3>2 DEF CountersAddUp
  <1>9. LongestPrefix
    <2>1. At({"lookup"}) = {}
      BY DEF Init, At
    <2> QED
      BY <2>1 DEF LongestPrefix
  <1>10. AnswerAsRead
    <2>1. answer.raw = <<>> /\ answer.out = <<>>
      BY DEF Init
    <2>2. find_end(<<>>) = 0 /\ Range(HeaderLines(<<>>)) = {}
      <3>1. <<>> \in Seq(Token) /\ Len(<<>>) = 0
        BY EmptySeq, Zenon
      <3> QED
        BY <3>1, NothingToRead
    <2>3. find_end(answer.raw) = 0 /\ Range(HeaderLines(answer.out)) = {}
      BY <2>1, <2>2, Zenon
    <2>4. ~(find_end(answer.raw) > 0)
      BY <2>3
    <2> QED
      BY <2>3, <2>4, Zenon DEF AnswerAsRead
  <1> QED
    BY <1>1, <1>2, <1>4, <1>5, <1>6, <1>7, <1>8, <1>9, <1>10 DEF IInv

\* The types, by what they are about.
LocalsTyped ==
    /\ pc \in [Workers -> Control] /\ req \in [Workers -> Requests \cup {None}]
    /\ target \in [Workers -> Backends \cup {<<>>}] /\ breaker \in [Workers -> Nat]
    /\ resp \in [Workers -> Responses \cup {<<>>}]
SharedTyped ==
    /\ rr_counter \in Nat /\ conn_counts \in [Backends -> Nat]
    /\ breakers \in [Backends -> Nat] /\ made \in Nat
    /\ admitted \subseteq Workers \X Nat
    /\ started \in 0..MaxRequests /\ answered \in Nat
StatsType ==
    [total : [Paths -> Nat], success : [Paths -> Nat], error : [Paths -> Nat],
     upstream_errors : Nat, rate_limited : Nat]

\* A step takes up a request, answers one, or does neither.
Answers(w) ==
    \/ pc[w] = "idle" /\ pc'[w] # "idle" /\ started' = started + 1 /\ answered' = answered
    \/ pc[w] # "idle" /\ pc'[w] = "idle" /\ started' = started /\ answered' = answered + 1
    \/ pc[w] # "idle" /\ pc'[w] # "idle" /\ started' = started /\ answered' = answered

\* Where a worker has been let through by the breaker and has not reported yet.
Calling == {"connect", "forward", "disconnect", "record", "success", "error", "upstream", "report"}

\* A step is let through, reports, or changes nothing of this.
Reports(w) ==
    \/ /\ pc[w] \notin Calling /\ pc'[w] \in Calling /\ breaker' = breaker
       /\ admitted' = admitted \cup {<<w, breaker[w]>>}
    \/ /\ pc[w] \in Calling /\ pc'[w] \notin Calling /\ breaker' = breaker
       /\ admitted' = admitted \ {<<w, breaker[w]>>}
    \/ /\ pc[w] \in Calling /\ pc'[w] \in Calling /\ breaker' = breaker
       /\ admitted' = admitted
    \/ pc[w] \notin Calling /\ pc'[w] \notin Calling /\ admitted' = admitted

\* A step begins a call, ends one, or changes nothing of this.
Calls(w) ==
    \/ /\ pc[w] = "connect" /\ pc'[w] = "forward" /\ target' = target
       /\ conn_counts' = [conn_counts EXCEPT ![target[w]] = @ + 1]
    \/ /\ pc[w] = "disconnect" /\ pc'[w] = "record" /\ target' = target
       /\ conn_counts' = [conn_counts EXCEPT ![target[w]] = IF @ > 0 THEN @ - 1 ELSE 0]
    \/ pc[w] = "forward" /\ pc'[w] = "disconnect" /\ target' = target /\ conn_counts' = conn_counts
    \/ /\ pc[w] \notin {"forward", "disconnect"} /\ pc'[w] \notin {"forward", "disconnect"}
       /\ conn_counts' = conn_counts

\* A step counts a request, then its outcome, then an upstream error, or nothing.
Records(w) ==
    \/ /\ pc[w] = "record" /\ pc'[w] \in {"success", "error"} /\ req' = req
       /\ stats' = [stats EXCEPT !.total[req[w].path] = @ + 1]
    \/ /\ pc[w] = "success" /\ pc'[w] = "report" /\ req' = req
       /\ stats' = [stats EXCEPT !.success[req[w].path] = @ + 1]
    \/ /\ pc[w] = "error" /\ pc'[w] = "upstream" /\ req' = req
       /\ stats' = [stats EXCEPT !.error[req[w].path] = @ + 1]
    \/ /\ pc[w] = "upstream" /\ pc'[w] = "report" /\ req' = req
       /\ stats' = [stats EXCEPT !.upstream_errors = @ + 1]
    \/ /\ pc[w] \notin {"success", "error", "upstream"} /\ pc'[w] \notin {"success", "error", "upstream"}
       /\ stats' = stats \/ stats' = [stats EXCEPT !.rate_limited = @ + 1]

\* A step sends a response of the gateway's own, or the backend's, or none.
Sends(w) ==
    \/ UNCHANGED answer
    \/ /\ pc[w] \in {"filter", "route", "allow"}
       /\ answer'.raw = resp[w] /\ answer'.ka = FALSE
    \/ respond(w)

\* A worker's step changes the locals of that worker only, replaces no breaker
\* that is there, and is of these kinds.
Shape(w) ==
    /\ Elsewhere(w)
    /\ \A b \in Backends : breakers[b] # 0 => breakers'[b] = breakers[b]
    /\ pc'[w] = "lookup" => select(w)
    /\ Answers(w) /\ Reports(w) /\ Calls(w) /\ Records(w) /\ Sends(w)

\* Each step of process_request() has this shape.
LEMMA StepShape ==
    ASSUME TypeOK, NEW w \in Workers, Step(w)
    PROVE  Shape(w)
  <1> USE DEF Shape, Elsewhere, Answers, Reports, Calling, Calls, Records,
              Sends, Goto, locals, balancer, table, sent, Send, SendErrorAndClose
  <1>0. LocalsTyped /\ breakers \in [Backends -> Nat]
    BY DEF TypeOK, LocalsTyped
  <1> USE DEF LocalsTyped
  <1>1. ASSUME NEW r \in Requests, start(w, r)
        PROVE  Shape(w)
    BY <1>1, <1>0 DEF start
  <1>2. CASE bad_request(w)
    BY <1>2, <1>0 DEF bad_request
  <1>3. CASE handle_internal_endpoint(w)
    BY <1>3, <1>0 DEF handle_internal_endpoint
  <1>4. CASE filter_rejects(w)
    BY <1>4, <1>0 DEF filter_rejects
  <1>5. CASE filter_passes(w)
    BY <1>5, <1>0 DEF filter_passes
  <1>6. CASE no_route(w)
    BY <1>6, <1>0 DEF no_route
  <1>7. CASE select(w)
    BY <1>7, <1>0 DEF select
  <1>8. CASE find_breaker(w)
    BY <1>8, <1>0 DEF find_breaker
  <1>9. CASE miss_breaker(w)
    BY <1>9, <1>0 DEF miss_breaker
  <1>10. CASE create_breaker(w)
    BY <1>10, <1>0 DEF create_breaker
  <1>11. CASE breaker_rejects(w)
    BY <1>11, <1>0 DEF breaker_rejects
  <1>12. CASE breaker_allows(w)
    BY <1>12, <1>0 DEF breaker_allows
  <1>13. CASE on_connect(w)
    BY <1>13, <1>0 DEF on_connect
  <1>14. CASE forward(w)
    BY <1>14, <1>0 DEF forward
  <1>15. CASE on_disconnect(w)
    BY <1>15, <1>0 DEF on_disconnect
  <1>16. CASE record_request(w)
    BY <1>16, <1>0 DEF record_request
  <1>17. CASE record_success(w)
    BY <1>17, <1>0 DEF record_success
  <1>18. CASE record_error(w)
    BY <1>18, <1>0 DEF record_error
  <1>19. CASE inc_upstream_errors(w)
    BY <1>19, <1>0 DEF inc_upstream_errors
  <1>20. CASE report(w)
    BY <1>20, <1>0 DEF report
  <1>21. CASE respond(w)
    BY <1>21, <1>0 DEF respond
  <1> QED
    BY <1>1, <1>2, <1>3, <1>4, <1>5, <1>6, <1>7, <1>8, <1>9, <1>10, <1>11, <1>12, <1>13, <1>14, <1>15, <1>16, <1>17, <1>18, <1>19, <1>20, <1>21 DEF Step, process_request

\* LoadBalancer::select returns one of the backends it is given.
LEMMA SelectedIsBackend ==
    ASSUME TypeOK, NEW w \in Workers, select(w)
    PROVE  /\ target'[w] \in Range(match(req[w].path)) /\ target'[w] \in Backends
           /\ target' = [target EXCEPT ![w] = target'[w]]
           /\ rr_counter' \in Nat
  <1> DEFINE bs == match(req[w].path)
             n == Len(bs)
             i == 1 + (IF n > 1 THEN rr_counter % n ELSE 0)
  <1>1. bs \in Seq(Backends) \ {<<>>}
    BY MatchIsLongest DEF select, TypeOK
  <1>2. rr_counter \in Nat
    BY DEF TypeOK
  <1>3. target' = [target EXCEPT ![w] = bs[i]] /\ rr_counter' = IF n > 1 THEN rr_counter + 1 ELSE rr_counter
    BY DEF select
  <1>4. target \in [Workers -> Backends \cup {<<>>}]
    BY DEF TypeOK
  <1> HIDE DEF bs
  <1>5. n \in Nat /\ n > 0
    BY <1>1
  <1>6. i \in 1..n
    <2>1. n > 1 => rr_counter % n \in 0..(n - 1)
      BY <1>5, <1>2
    <2> QED
      BY <2>1, <1>5
  <1>7. bs[i] \in Backends /\ bs[i] \in Range(bs)
    BY <1>1, <1>6, InRange
  <1> HIDE DEF i
  <1>8. target'[w] = bs[i]
    BY <1>3, <1>4
  <1>9. rr_counter' \in Nat
    BY <1>2, <1>3
  <1> QED
    BY <1>3, <1>7, <1>8, <1>9 DEF bs

\* Every step keeps the types of the locals.
LEMMA StepLocalsTyped ==
    ASSUME TypeOK, LocalsOK, NEW w \in Workers, Step(w)
    PROVE  LocalsTyped'
  <1> USE DEF LocalsTyped, Goto, locals
  <1>0. LocalsTyped /\ breakers \in [Backends -> Nat] /\ made \in Nat
    BY DEF TypeOK
  <1>1. ASSUME NEW r \in Requests, start(w, r)
        PROVE  LocalsTyped'
    BY <1>1, <1>0 DEF start, Control
  <1>2. CASE bad_request(w)
    BY <1>2, <1>0 DEF bad_request, Control
  <1>3. CASE handle_internal_endpoint(w)
    BY <1>3, <1>0 DEF handle_internal_endpoint, Control
  <1>4. CASE filter_rejects(w)
    BY <1>4, <1>0 DEF filter_rejects, Control
  <1>5. CASE filter_passes(w)
    BY <1>5, <1>0 DEF filter_passes, Control
  <1>6. CASE no_route(w)
    BY <1>6, <1>0 DEF no_route, Control
  <1>7. CASE select(w)
    <2>1. target'[w] \in Backends /\ target' = [target EXCEPT ![w] = target'[w]]
      BY <1>7, SelectedIsBackend
    <2>2. UNCHANGED <<req, breaker, resp>> /\ pc' = [pc EXCEPT ![w] = "lookup"]
      BY <1>7 DEF select
    <2> QED
      BY <1>0, <2>1, <2>2 DEF Control
  <1>8. CASE find_breaker(w)
    <2>1. target[w] \in Backends
      BY <1>8 DEF find_breaker, LocalsOK, LocalsAt
    <2> QED
      BY <1>8, <1>0, <2>1 DEF find_breaker, Control
  <1>9. CASE miss_breaker(w)
    BY <1>9, <1>0 DEF miss_breaker, Control
  <1>10. CASE create_breaker(w)
    <2>1. target[w] \in Backends
      BY <1>10 DEF create_breaker, LocalsOK, LocalsAt
    <2>2. breakers'[target[w]] \in Nat
      BY <1>10, <1>0, <2>1 DEF create_breaker, table
    <2>3. /\ UNCHANGED <<req, target, resp>> /\ pc' = [pc EXCEPT ![w] = "allow"]
          /\ breaker' = [breaker EXCEPT ![w] = breakers'[target[w]]]
      BY <1>10 DEF create_breaker
    <2> QED
      BY <1>0, <2>2, <2>3 DEF Control
  <1>11. CASE breaker_rejects(w)
    BY <1>11, <1>0 DEF breaker_rejects, Control
  <1>12. CASE breaker_allows(w)
    BY <1>12, <1>0 DEF breaker_allows, Control
  <1>13. CASE on_connect(w)
    BY <1>13, <1>0 DEF on_connect, Control
  <1>14. CASE forward(w)
    BY <1>14, <1>0 DEF forward, Control
  <1>15. CASE on_disconnect(w)
    BY <1>15, <1>0 DEF on_disconnect, Control
  <1>16. CASE record_request(w)
    BY <1>16, <1>0 DEF record_request, Control
  <1>17. CASE record_success(w)
    BY <1>17, <1>0 DEF record_success, Control
  <1>18. CASE record_error(w)
    BY <1>18, <1>0 DEF record_error, Control
  <1>19. CASE inc_upstream_errors(w)
    BY <1>19, <1>0 DEF inc_upstream_errors, Control
  <1>20. CASE report(w)
    BY <1>20, <1>0 DEF report, Control
  <1>21. CASE respond(w)
    BY <1>21, <1>0 DEF respond, Control
  <1> QED
    BY <1>1, <1>2, <1>3, <1>4, <1>5, <1>6, <1>7, <1>8, <1>9, <1>10, <1>11, <1>12, <1>13, <1>14, <1>15, <1>16, <1>17, <1>18, <1>19, <1>20, <1>21 DEF Step, process_request

\* Every step keeps the types of what the workers share.
LEMMA StepSharedTyped ==
    ASSUME TypeOK, LocalsOK, NEW w \in Workers, Step(w)
    PROVE  SharedTyped'
  <1> USE DEF SharedTyped, Goto, balancer, table, sent, Send, SendErrorAndClose
  <1>0. SharedTyped
    BY DEF TypeOK
  <1>1. ASSUME NEW r \in Requests, start(w, r)
        PROVE  SharedTyped'
    BY <1>1, <1>0, PipelineAssumption DEF start
  <1>2. CASE bad_request(w)
    BY <1>2, <1>0 DEF bad_request
  <1>3. CASE handle_internal_endpoint(w)
    BY <1>3, <1>0 DEF handle_internal_endpoint
  <1>4. CASE filter_rejects(w)
    BY <1>4, <1>0 DEF filter_rejects
  <1>5. CASE filter_passes(w)
    BY <1>5, <1>0 DEF filter_passes
  <1>6. CASE no_route(w)
    BY <1>6, <1>0 DEF no_route
  <1>7. CASE select(w)
    BY <1>7, <1>0, SelectedIsBackend DEF select
  <1>8. CASE find_breaker(w)
    BY <1>8, <1>0 DEF find_breaker
  <1>9. CASE miss_breaker(w)
    BY <1>9, <1>0 DEF miss_breaker
  <1>10. CASE create_breaker(w)
    <2>1. target[w] \in Backends
      BY <1>10 DEF create_breaker, LocalsOK, LocalsAt
    <2> QED
      BY <1>10, <1>0, <2>1 DEF create_breaker
  <1>11. CASE breaker_rejects(w)
    BY <1>11, <1>0 DEF breaker_rejects
  <1>12. CASE breaker_allows(w)
    <2>1. <<w, breaker[w]>> \in Workers \X Nat
      BY DEF TypeOK
    <2> QED
      BY <1>12, <1>0, <2>1 DEF breaker_allows
  <1>13. CASE on_connect(w)
    <2>1. target[w] \in Backends
      BY <1>13 DEF on_connect, LocalsOK, LocalsAt
    <2> QED
      BY <1>13, <1>0, <2>1 DEF on_connect
  <1>14. CASE forward(w)
    BY <1>14, <1>0 DEF forward
  <1>15. CASE on_disconnect(w)
    <2>1. target[w] \in Backends
      BY <1>15 DEF on_disconnect, LocalsOK, LocalsAt
    <2> QED
      BY <1>15, <1>0, <2>1 DEF on_disconnect
  <1>16. CASE record_request(w)
    BY <1>16, <1>0 DEF record_request
  <1>17. CASE record_success(w)
    BY <1>17, <1>0 DEF record_success
  <1>18. CASE record_error(w)
    BY <1>18, <1>0 DEF record_error
  <1>19. CASE inc_upstream_errors(w)
    BY <1>19, <1>0 DEF inc_upstream_errors
  <1>20. CASE report(w)
    BY <1>20, <1>0 DEF report
  <1>21. CASE respond(w)
    BY <1>21, <1>0 DEF respond
  <1> QED
    BY <1>1, <1>2, <1>3, <1>4, <1>5, <1>6, <1>7, <1>8, <1>9, <1>10, <1>11, <1>12, <1>13, <1>14, <1>15, <1>16, <1>17, <1>18, <1>19, <1>20, <1>21 DEF Step, process_request

\* And of the statistics.
LEMMA StepStatsTyped ==
    ASSUME TypeOK, LocalsOK, NEW w \in Workers, Step(w)
    PROVE  stats' \in StatsType
  <1> USE DEF Goto
  <1>0. stats \in StatsType
    BY DEF TypeOK, StatsType
  <1>1. ASSUME NEW r \in Requests, start(w, r)
        PROVE  stats' \in StatsType
    BY <1>1, <1>0 DEF start
  <1>2. CASE bad_request(w)
    BY <1>2, <1>0 DEF bad_request
  <1>3. CASE handle_internal_endpoint(w)
    BY <1>3, <1>0 DEF handle_internal_endpoint
  <1>4. CASE filter_rejects(w)
    BY <1>4, <1>0 DEF filter_rejects, StatsType
  <1>5. CASE filter_passes(w)
    BY <1>5, <1>0 DEF filter_passes
  <1>6. CASE no_route(w)
    BY <1>6, <1>0 DEF no_route
  <1>7. CASE select(w)
    BY <1>7, <1>0 DEF select
  <1>8. CASE find_breaker(w)
    BY <1>8, <1>0 DEF find_breaker
  <1>9. CASE miss_breaker(w)
    BY <1>9, <1>0 DEF miss_breaker
  <1>10. CASE create_breaker(w)
    BY <1>10, <1>0 DEF create_breaker
  <1>11. CASE breaker_rejects(w)
    BY <1>11, <1>0 DEF breaker_rejects
  <1>12. CASE breaker_allows(w)
    BY <1>12, <1>0 DEF breaker_allows
  <1>13. CASE on_connect(w)
    BY <1>13, <1>0 DEF on_connect
  <1>14. CASE forward(w)
    BY <1>14, <1>0 DEF forward
  <1>15. CASE on_disconnect(w)
    BY <1>15, <1>0 DEF on_disconnect
  <1>16. CASE record_request(w)
    <2>1. req[w].path \in Paths
      BY <1>16 DEF record_request, LocalsOK, LocalsAt, Paths
    <2> QED
      BY <1>16, <1>0, <2>1 DEF record_request, StatsType
  <1>17. CASE record_success(w)
    <2>1. req[w].path \in Paths
      BY <1>17 DEF record_success, LocalsOK, LocalsAt, Paths
    <2> QED
      BY <1>17, <1>0, <2>1 DEF record_success, StatsType
  <1>18. CASE record_error(w)
    <2>1. req[w].path \in Paths
      BY <1>18 DEF record_error, LocalsOK, LocalsAt, Paths
    <2> QED
      BY <1>18, <1>0, <2>1 DEF record_error, StatsType
  <1>19. CASE inc_upstream_errors(w)
    BY <1>19, <1>0 DEF inc_upstream_errors, StatsType
  <1>20. CASE report(w)
    BY <1>20, <1>0 DEF report
  <1>21. CASE respond(w)
    BY <1>21, <1>0 DEF respond
  <1> QED
    BY <1>1, <1>2, <1>3, <1>4, <1>5, <1>6, <1>7, <1>8, <1>9, <1>10, <1>11, <1>12, <1>13, <1>14, <1>15, <1>16, <1>17, <1>18, <1>19, <1>20, <1>21 DEF Step, process_request

\* Every step keeps the types.
LEMMA StepTypeOK ==
    ASSUME TypeOK, LocalsOK, NEW w \in Workers, Step(w), UNCHANGED routes
    PROVE  TypeOK'
  <1>1. routes' \in sort_routes(Routes)
    BY DEF TypeOK
  <1> QED
    BY <1>1, StepLocalsTyped, StepSharedTyped, StepStatsTyped
    DEF TypeOK, LocalsTyped, SharedTyped, StatsType

\* A worker's step leaves its locals as they must be where it goes.
LEMMA StepLocalsAt ==
    ASSUME TypeOK, LocalsOK, NEW w \in Workers, Step(w)
    PROVE  LocalsAt(w)'
  <1> USE DEF LocalsAt, Goto, locals, table
  <1>0. LocalsAt(w) /\ LocalsTyped /\ breakers \in [Backends -> Nat] /\ made \in Nat
    BY DEF TypeOK, LocalsTyped, LocalsOK
  <1> USE DEF LocalsTyped
  <1>1. ASSUME NEW r \in Requests, start(w, r)
        PROVE  LocalsAt(w)'
    BY <1>1, <1>0 DEF start
  <1>2. CASE bad_request(w)
    BY <1>2, <1>0 DEF bad_request
  <1>3. CASE handle_internal_endpoint(w)
    BY <1>3, <1>0 DEF handle_internal_endpoint
  <1>4. CASE filter_rejects(w)
    BY <1>4, <1>0 DEF filter_rejects
  <1>5. CASE filter_passes(w)
    BY <1>5, <1>0 DEF filter_passes
  <1>6. CASE no_route(w)
    BY <1>6, <1>0 DEF no_route
  <1>7. CASE select(w)
    <2>1. target'[w] \in Backends
      BY <1>7, SelectedIsBackend
    <2> QED
      BY <1>7, <1>0, <2>1 DEF select
  <1>8. CASE find_breaker(w)
    BY <1>8, <1>0 DEF find_breaker
  <1>9. CASE miss_breaker(w)
    BY <1>9, <1>0 DEF miss_breaker
  <1>10. CASE create_breaker(w)
    BY <1>10, <1>0 DEF create_breaker
  <1>11. CASE breaker_rejects(w)
    BY <1>11, <1>0 DEF breaker_rejects
  <1>12. CASE breaker_allows(w)
    BY <1>12, <1>0 DEF breaker_allows
  <1>13. CASE on_connect(w)
    BY <1>13, <1>0 DEF on_connect
  <1>14. CASE forward(w)
    BY <1>14, <1>0 DEF forward
  <1>15. CASE on_disconnect(w)
    BY <1>15, <1>0 DEF on_disconnect
  <1>16. CASE record_request(w)
    BY <1>16, <1>0 DEF record_request
  <1>17. CASE record_success(w)
    BY <1>17, <1>0 DEF record_success
  <1>18. CASE record_error(w)
    BY <1>18, <1>0 DEF record_error
  <1>19. CASE inc_upstream_errors(w)
    BY <1>19, <1>0 DEF inc_upstream_errors
  <1>20. CASE report(w)
    BY <1>20, <1>0 DEF report
  <1>21. CASE respond(w)
    BY <1>21, <1>0 DEF respond
  <1> QED
    BY <1>1, <1>2, <1>3, <1>4, <1>5, <1>6, <1>7, <1>8, <1>9, <1>10, <1>11, <1>12, <1>13, <1>14, <1>15, <1>16, <1>17, <1>18, <1>19, <1>20, <1>21 DEF Step, process_request

\* And those of the others.
LEMMA StepLocalsOK ==
    ASSUME TypeOK, LocalsOK, NEW w \in Workers, Step(w)
    PROVE  LocalsOK'
  <1>1. LocalsAt(w)'
    BY StepLocalsAt
  <1>2. ASSUME NEW u \in Workers \ {w}
        PROVE  LocalsAt(u)'
    <2>1. /\ pc'[u] = pc[u] /\ req'[u] = req[u] /\ target'[u] = target[u]
          /\ breaker'[u] = breaker[u] /\ resp'[u] = resp[u]
      BY StepShape DEF Shape, Elsewhere
    <2>2. LocalsAt(u)
      BY DEF LocalsOK
    <2>3. breaker[u] # 0 => breakers'[target[u]] = breaker[u]
      BY <2>2, StepShape DEF Shape, LocalsAt
    <2> QED
      BY <2>1, <2>2, <2>3 DEF LocalsAt
  <1> QED
    BY <1>1, <1>2 DEF LocalsOK

\* OneAnswerEach is kept: the worker that moves is the one that is counted.
LEMMA StepOneAnswerEach ==
    ASSUME TypeOK, TypeOK', OneAnswerEach, NEW w \in Workers, Step(w)
    PROVE  OneAnswerEach'
  <1>1. PICK A : A = At(Control \ {"idle"})
    OBVIOUS
  <1>2. PICK B : B = At(Control \ {"idle"})'
    OBVIOUS
  <1>3. A \in SUBSET Workers /\ B \in SUBSET Workers /\ A \ {w} = B \ {w}
    BY <1>1, <1>2, StepShape DEF Shape, At, Elsewhere
  <1>4. /\ w \in A <=> pc[w] # "idle"
        /\ w \in B <=> pc'[w] # "idle"
    BY <1>1, <1>2 DEF At, TypeOK
  <1>5. /\ Cardinality(A) \in Nat /\ Cardinality(B) \in Nat
        /\ (w \in A <=> w \in B) => Cardinality(B) = Cardinality(A)
        /\ w \notin A /\ w \in B => Cardinality(B) = Cardinality(A) + 1
        /\ w \in A /\ w \notin B => Cardinality(B) = Cardinality(A) - 1
    BY <1>3, OneMoves
  <1>6. started \in Nat /\ answered \in Nat
    BY DEF TypeOK
  <1>7. started = answered + Cardinality(A)
    BY <1>1 DEF OneAnswerEach
  <1>8. started' = answered' + Cardinality(B)
    BY <1>4, <1>5, <1>6, <1>7, StepShape, SMTT(60) DEF Shape, Answers
  <1> QED
    BY <1>2, <1>8 DEF OneAnswerEach

\* CallsReported is kept.
LEMMA StepCallsReported ==
    ASSUME TypeOK, CallsReported, NEW w \in Workers, Step(w)
    PROVE  CallsReported'
  <1>0. /\ admitted = {<<u, breaker[u]>> : u \in At(Calling)}
        /\ CallsReported' <=> admitted' = {<<u, breaker'[u]>> : u \in At(Calling)'}
    BY DEF CallsReported, Calling, At
  <1>1. \A u \in Workers \ {w} : breaker'[u] = breaker[u] /\ pc'[u] = pc[u]
    BY StepShape DEF Shape, Elsewhere
  <1>2. \A u \in Workers : /\ u \in At(Calling) <=> pc[u] \in Calling
                           /\ u \in At(Calling)' <=> pc'[u] \in Calling
    BY DEF At
  <1>3. At(Calling) \subseteq Workers /\ At(Calling)' \subseteq Workers
    BY DEF At
  <1>4. Reports(w)
    BY StepShape DEF Shape
  <1>5. PICK A : A = At(Calling)
    OBVIOUS
  <1>6. PICK B : B = At(Calling)'
    OBVIOUS
  <1>7. CASE /\ pc[w] \notin Calling /\ pc'[w] \in Calling /\ breaker' = breaker
             /\ admitted' = admitted \cup {<<w, breaker[w]>>}
    <2>1. B = A \cup {w}
      BY <1>1, <1>2, <1>3, <1>5, <1>6, <1>7
    <2> QED
      BY <2>1, <1>0, <1>5, <1>6, <1>7
  <1>8. CASE /\ pc[w] \in Calling /\ pc'[w] \notin Calling /\ breaker' = breaker
             /\ admitted' = admitted \ {<<w, breaker[w]>>}
    <2>1. B = A \ {w}
      BY <1>1, <1>2, <1>3, <1>5, <1>6, <1>8
    <2> QED
      BY <2>1, <1>0, <1>5, <1>6, <1>8
  <1>9. CASE /\ pc[w] \in Calling /\ pc'[w] \in Calling /\ breaker' = breaker
             /\ admitted' = admitted
    <2>1. B = A
      BY <1>1, <1>2, <1>3, <1>5, <1>6, <1>9
    <2> QED
      BY <2>1, <1>0, <1>5, <1>6, <1>9
  <1>10. CASE pc[w] \notin Calling /\ pc'[w] \notin Calling /\ admitted' = admitted
    <2>1. B = A /\ w \notin A /\ A \subseteq Workers
      BY <1>1, <1>2, <1>3, <1>5, <1>6, <1>10
    <2>2. \A u \in A : breaker'[u] = breaker[u]
      BY <2>1, <1>1
    <2> QED
      BY <2>1, <2>2, <1>0, <1>5, <1>6, <1>10
  <1> QED
    BY <1>4, <1>7, <1>8, <1>9, <1>10 DEF Reports

\* Calls to a backend under way.
UnderWay(b) == {w \in At({"forward", "disconnect"}) : target[w] = b}

\* The balancer's counts stay exact; on_disconnect() never finds a zero.
LEMMA StepCallsCounted ==
    ASSUME TypeOK, LocalsOK, NEW w \in Workers, Step(w), NEW b \in Backends,
           conn_counts[b] = Cardinality(UnderWay(b))
    PROVE  conn_counts'[b] = Cardinality(UnderWay(b)')
  <1>1. PICK A : A = UnderWay(b)
    OBVIOUS
  <1>2. PICK B : B = UnderWay(b)'
    OBVIOUS
  <1>3. A \in SUBSET Workers /\ B \in SUBSET Workers /\ A \ {w} = B \ {w}
    BY <1>1, <1>2, StepShape DEF Shape, At, UnderWay, Elsewhere
  <1>4. /\ w \in A <=> pc[w] \in {"forward", "disconnect"} /\ target[w] = b
        /\ w \in B <=> pc'[w] \in {"forward", "disconnect"} /\ target'[w] = b
    BY <1>1, <1>2 DEF At, UnderWay
  <1>5. /\ Cardinality(A) \in Nat /\ Cardinality(B) \in Nat
        /\ (w \in A <=> w \in B) => Cardinality(B) = Cardinality(A)
        /\ w \notin A /\ w \in B => Cardinality(B) = Cardinality(A) + 1
        /\ w \in A /\ w \notin B => Cardinality(B) = Cardinality(A) - 1
    BY <1>3, OneMoves
  <1>6. conn_counts \in [Backends -> Nat] /\ conn_counts[b] = Cardinality(A)
    BY <1>1 DEF TypeOK
  <1>7. Calls(w)
    BY StepShape DEF Shape
  <1>8. CASE /\ pc[w] = "connect" /\ pc'[w] = "forward" /\ target' = target
             /\ conn_counts' = [conn_counts EXCEPT ![target[w]] = @ + 1]
    <2>1. w \notin A /\ (w \in B <=> target[w] = b)
      BY <1>4, <1>8
    <2>2. conn_counts'[b] = IF target[w] = b THEN conn_counts[b] + 1 ELSE conn_counts[b]
      BY <1>6, <1>8
    <2> QED
      BY <2>1, <2>2, <1>2, <1>5, <1>6
  <1>9. CASE /\ pc[w] = "disconnect" /\ pc'[w] = "record" /\ target' = target
             /\ conn_counts' = [conn_counts EXCEPT ![target[w]] = IF @ > 0 THEN @ - 1 ELSE 0]
    <2>1. w \notin B /\ (w \in A <=> target[w] = b)
      BY <1>4, <1>9
    <2>2. conn_counts'[b] = IF target[w] = b
                            THEN IF conn_counts[b] > 0 THEN conn_counts[b] - 1 ELSE 0
                            ELSE conn_counts[b]
      BY <1>6, <1>9
    <2> QED
      BY <2>1, <2>2, <1>2, <1>5, <1>6
  <1>10. CASE pc[w] = "forward" /\ pc'[w] = "disconnect" /\ target' = target /\ conn_counts' = conn_counts
    BY <1>2, <1>4, <1>5, <1>6, <1>10
  <1>11. CASE /\ pc[w] \notin {"forward", "disconnect"} /\ pc'[w] \notin {"forward", "disconnect"}
              /\ conn_counts' = conn_counts
    BY <1>2, <1>4, <1>5, <1>6, <1>11
  <1> QED
    BY <1>7, <1>8, <1>9, <1>10, <1>11 DEF Calls

\* Requests of a path that are counted and not yet as a success or an error.
Recording(p) == {w \in At({"success", "error"}) : req[w].path = p}

\* The counters of a path add up.
LEMMA StepPathsAddUp ==
    ASSUME TypeOK, LocalsOK, NEW w \in Workers, Step(w), NEW p \in Paths,
           stats.total[p] = stats.success[p] + stats.error[p] + Cardinality(Recording(p))
    PROVE  stats'.total[p] = stats'.success[p] + stats'.error[p] + Cardinality(Recording(p)')
  <1>1. PICK A : A = Recording(p)
    OBVIOUS
  <1>2. PICK B : B = Recording(p)'
    OBVIOUS
  <1>3. A \in SUBSET Workers /\ B \in SUBSET Workers /\ A \ {w} = B \ {w}
    BY <1>1, <1>2, StepShape DEF Shape, At, Recording, Elsewhere
  <1>4. /\ w \in A <=> pc[w] \in {"success", "error"} /\ req[w].path = p
        /\ w \in B <=> pc'[w] \in {"success", "error"} /\ req'[w].path = p
    BY <1>1, <1>2 DEF At, Recording
  <1>5. /\ Cardinality(A) \in Nat /\ Cardinality(B) \in Nat
        /\ (w \in A <=> w \in B) => Cardinality(B) = Cardinality(A)
        /\ w \notin A /\ w \in B => Cardinality(B) = Cardinality(A) + 1
        /\ w \in A /\ w \notin B => Cardinality(B) = Cardinality(A) - 1
    BY <1>3, OneMoves
  <1>6. /\ stats \in StatsType
        /\ stats.total[p] \in Nat /\ stats.success[p] \in Nat /\ stats.error[p] \in Nat
        /\ stats.total[p] = stats.success[p] + stats.error[p] + Cardinality(A)
    BY <1>1 DEF TypeOK, StatsType
  <1>7. Records(w)
    BY StepShape DEF Shape
  <1> DEFINE hit == req[w].path = p
  <1>8. CASE /\ pc[w] = "record" /\ pc'[w] \in {"success", "error"} /\ req' = req
             /\ stats' = [stats EXCEPT !.total[req[w].path] = @ + 1]
    <2>1. w \notin A /\ (w \in B <=> hit)
      BY <1>4, <1>8
    <2>2. /\ stats'.total[p] = IF hit THEN stats.total[p] + 1 ELSE stats.total[p]
          /\ stats'.success[p] = stats.success[p] /\ stats'.error[p] = stats.error[p]
      BY <1>6, <1>8 DEF StatsType
    <2> QED
      BY <2>1, <2>2, <1>2, <1>5, <1>6, SMTT(60)
  <1>9. CASE /\ pc[w] = "success" /\ pc'[w] = "report" /\ req' = req
             /\ stats' = [stats EXCEPT !.success[req[w].path] = @ + 1]
    <2>1. w \notin B /\ (w \in A <=> hit)
      BY <1>4, <1>9
    <2>2. /\ stats'.success[p] = IF hit THEN stats.success[p] + 1 ELSE stats.success[p]
          /\ stats'.total[p] = stats.total[p] /\ stats'.error[p] = stats.error[p]
      BY <1>6, <1>9 DEF StatsType
    <2> QED
      BY <2>1, <2>2, <1>2, <1>5, <1>6
  <1>10. CASE /\ pc[w] = "error" /\ pc'[w] = "upstream" /\ req' = req
              /\ stats' = [stats EXCEPT !.error[req[w].path] = @ + 1]
    <2>1. w \notin B /\ (w \in A <=> hit)
      BY <1>4, <1>10
    <2>2. /\ stats'.error[p] = IF hit THEN stats.error[p] + 1 ELSE stats.error[p]
          /\ stats'.total[p] = stats.total[p] /\ stats'.success[p] = stats.success[p]
      BY <1>6, <1>10 DEF StatsType
    <2> QED
      BY <2>1, <2>2, <1>2, <1>5, <1>6
  <1>11. CASE /\ pc[w] = "upstream" /\ pc'[w] = "report" /\ req' = req
              /\ stats' = [stats EXCEPT !.upstream_errors = @ + 1]
    <2>1. stats'.total = stats.total /\ stats'.success = stats.success /\ stats'.error = stats.error
      BY <1>6, <1>11 DEF StatsType
    <2> QED
      BY <2>1, <1>2, <1>4, <1>5, <1>6, <1>11
  <1>12. CASE /\ pc[w] \notin {"success", "error", "upstream"} /\ pc'[w] \notin {"success", "error", "upstream"}
              /\ stats' = stats \/ stats' = [stats EXCEPT !.rate_limited = @ + 1]
    <2>1. stats'.total = stats.total /\ stats'.success = stats.success /\ stats'.error = stats.error
      BY <1>6, <1>12 DEF StatsType
    <2>2. w \notin A /\ w \notin B
      BY <1>4, <1>12, Zenon
    <2> QED
      BY <2>1, <2>2, <1>2, <1>5, <1>6
  <1> QED
    BY <1>7, <1>8, <1>9, <1>10, <1>11, <1>12 DEF Records

\* The errors of all paths are the upstream errors: an error counted for a path
\* is one more, whichever path it is.
LEMMA StepErrorsAddUp ==
    ASSUME TypeOK, LocalsOK, NEW w \in Workers, Step(w), IsFiniteSet(Errors),
           Cardinality(Errors) = stats.upstream_errors + Cardinality(At({"upstream"}))
    PROVE  /\ IsFiniteSet(Errors')
           /\ Cardinality(Errors') = stats'.upstream_errors + Cardinality(At({"upstream"})')
  <1>1. PICK A : A = At({"upstream"})
    OBVIOUS
  <1>2. PICK B : B = At({"upstream"})'
    OBVIOUS
  <1>3. A \in SUBSET Workers /\ B \in SUBSET Workers /\ A \ {w} = B \ {w}
    BY <1>1, <1>2, StepShape DEF Shape, At, Elsewhere
  <1>4. /\ w \in A <=> pc[w] = "upstream"
        /\ w \in B <=> pc'[w] = "upstream"
    BY <1>1, <1>2 DEF At
  <1>5. /\ Cardinality(A) \in Nat /\ Cardinality(B) \in Nat
        /\ (w \in A <=> w \in B) => Cardinality(B) = Cardinality(A)
        /\ w \notin A /\ w \in B => Cardinality(B) = Cardinality(A) + 1
        /\ w \in A /\ w \notin B => Cardinality(B) = Cardinality(A) - 1
    BY <1>3, OneMoves
  <1>6. /\ stats \in StatsType /\ stats.upstream_errors \in Nat
        /\ \A p \in Paths : stats.error[p] \in Nat
        /\ Cardinality(Errors) = stats.upstream_errors + Cardinality(A)
    BY <1>1 DEF TypeOK, StatsType
  <1>7. Records(w)
    BY StepShape DEF Shape
  <1>8. ASSUME stats'.error = stats.error
        PROVE  Errors' = Errors
    BY <1>8 DEF Errors
  <1>9. CASE /\ pc[w] = "error" /\ pc'[w] = "upstream" /\ req' = req
             /\ stats' = [stats EXCEPT !.error[req[w].path] = @ + 1]
    <2> DEFINE q == req[w].path
               x == <<q, stats.error[q] + 1>>
    <2>1. q \in Paths
      BY <1>9 DEF LocalsOK, LocalsAt, Paths
    <2>2. \A p \in Paths : stats'.error[p] = IF p = q THEN stats.error[p] + 1 ELSE stats.error[p]
      BY <1>6, <1>9, <2>1 DEF StatsType
    <2>3. Errors' = Errors \cup {x} /\ x \notin Errors
      BY <2>1, <2>2, <1>6 DEF Errors
    <2>4. stats'.upstream_errors = stats.upstream_errors
      BY <1>6, <1>9 DEF StatsType
    <2> HIDE DEF x
    <2>5. IsFiniteSet(Errors \cup {x}) /\ Cardinality(Errors \cup {x}) = Cardinality(Errors) + 1
      BY <2>3, FS_AddElement
    <2>6. w \notin A /\ w \in B
      BY <1>4, <1>9
    <2> QED
      BY <2>3, <2>4, <2>5, <2>6, <1>2, <1>5, <1>6
  <1>10. CASE /\ pc[w] = "upstream" /\ pc'[w] = "report" /\ req' = req
              /\ stats' = [stats EXCEPT !.upstream_errors = @ + 1]
    <2>1. stats'.error = stats.error /\ stats'.upstream_errors = stats.upstream_errors + 1
      BY <1>6, <1>10 DEF StatsType
    <2>2. w \in A /\ w \notin B
      BY <1>4, <1>10
    <2> QED
      BY <2>1, <2>2, <1>2, <1>5, <1>6, <1>8
  <1>11. CASE /\ pc[w] = "record" /\ pc'[w] \in {"success", "error"} /\ req' = req
              /\ stats' = [stats EXCEPT !.total[req[w].path] = @ + 1]
    <2>1. stats'.error = stats.error /\ stats'.upstream_errors = stats.upstream_errors
      BY <1>6, <1>11 DEF StatsType
    <2> QED
      BY <2>1, <1>2, <1>4, <1>5, <1>6, <1>8, <1>11
  <1>12. CASE /\ pc[w] = "success" /\ pc'[w] = "report" /\ req' = req
              /\ stats' = [stats EXCEPT !.success[req[w].path] = @ + 1]
    <2>1. stats'.error = stats.error /\ stats'.upstream_errors = stats.upstream_errors
      BY <1>6, <1>12 DEF StatsType
    <2> QED
      BY <2>1, <1>2, <1>4, <1>5, <1>6, <1>8, <1>12
  <1>13. CASE /\ pc[w] \notin {"success", "error", "upstream"} /\ pc'[w] \notin {"success", "error", "upstream"}
              /\ stats' = stats \/ stats' = [stats EXCEPT !.rate_limited = @ + 1]
    <2>1. stats'.error = stats.error /\ stats'.upstream_errors = stats.upstream_errors
      BY <1>6, <1>13 DEF StatsType
    <2>2. w \notin A /\ w \notin B
      BY <1>4, <1>13, Zenon
    <2> QED
      BY <2>1, <2>2, <1>2, <1>5, <1>6, <1>8
  <1> QED
    BY <1>7, <1>9, <1>10, <1>11, <1>12, <1>13 DEF Records

\* All the counters add up.
LEMMA StepCountersAddUp ==
    ASSUME TypeOK, LocalsOK, NEW w \in Workers, Step(w), IsFiniteSet(Errors), CountersAddUp
    PROVE  IsFiniteSet(Errors') /\ CountersAddUp'
  <1>1. ASSUME NEW b \in Backends
        PROVE  conn_counts'[b] = Cardinality(UnderWay(b)')
    BY StepCallsCounted DEF CountersAddUp, UnderWay
  <1>2. ASSUME NEW p \in Paths
        PROVE  stats'.total[p] = stats'.success[p] + stats'.error[p] + Cardinality(Recording(p)')
    BY StepPathsAddUp DEF CountersAddUp, Recording
  <1>3. /\ IsFiniteSet(Errors')
        /\ Cardinality(Errors') = stats'.upstream_errors + Cardinality(At({"upstream"})')
    BY StepErrorsAddUp DEF CountersAddUp
  <1> QED
    BY <1>1, <1>2, <1>3 DEF CountersAddUp, UnderWay, Recording

\* A worker that has been routed has a backend of the longest prefix.
LEMMA StepLongestPrefix ==
    ASSUME TypeOK, LongestPrefix, NEW w \in Workers, Step(w)
    PROVE  LongestPrefix'
  <1> DEFINE Good(path, t) ==
               \E r \in {q \in Range(Routes) : StartsWith(path, q.prefix)} :
                  /\ \A q \in {q \in Range(Routes) : StartsWith(path, q.prefix)} : Len(q.prefix) <= Len(r.prefix)
                  /\ t \in Range(r.backends)
  <1>1. \A u \in Workers : pc[u] = "lookup" => Good(req[u].path, target[u])
    BY DEF LongestPrefix, At
  <1>2. (\A u \in Workers : pc'[u] = "lookup" => Good(req'[u].path, target'[u])) => LongestPrefix'
    BY DEF LongestPrefix, At
  <1>3. ASSUME pc'[w] = "lookup"
        PROVE  Good(req'[w].path, target'[w])
    <2>1. select(w)
      BY <1>3, StepShape DEF Shape
    <2>2. req' = req /\ Matching(req[w].path) # {} /\ routes \in sort_routes(Routes)
      BY <2>1 DEF select, TypeOK
    <2>3. target'[w] \in Range(match(req[w].path))
      BY <2>1, SelectedIsBackend
    <2>4. PICK r \in Range(Routes) :
             /\ StartsWith(req[w].path, r.prefix) /\ match(req[w].path) = r.backends
             /\ \A q \in Range(Routes) : StartsWith(req[w].path, q.prefix) => Len(q.prefix) <= Len(r.prefix)
      BY <2>2, MatchIsLongest
    <2> QED
      BY <2>2, <2>3, <2>4
  <1>4. ASSUME NEW u \in Workers \ {w}, pc'[u] = "lookup"
        PROVE  Good(req'[u].path, target'[u])
    <2>1. pc[u] = "lookup" /\ req'[u] = req[u] /\ target'[u] = target[u]
      BY <1>4, StepShape DEF Shape, Elsewhere
    <2> QED
      BY <2>1, <1>1
  <1> HIDE DEF Good
  <1> QED
    BY <1>2, <1>3, <1>4

\* The answer is read as it was meant.
LEMMA StepAnswerAsRead ==
    ASSUME TypeOK, LocalsOK, AnswerAsRead, NEW w \in Workers, Step(w)
    PROVE  AnswerAsRead'
  <1>1. Sends(w)
    BY StepShape DEF Shape
  <1>2. CASE UNCHANGED answer
    BY <1>2 DEF AnswerAsRead
  <1>3. CASE /\ pc[w] \in {"filter", "route", "allow"}
             /\ answer'.raw = resp[w] /\ answer'.ka = FALSE
    <2>1. resp[w] = <<>>
      BY <1>3 DEF LocalsOK, LocalsAt
    <2>2. find_end(<<>>) = 0
      <3>1. <<>> \in Seq(Token) /\ Len(<<>>) = 0
        BY EmptySeq, Zenon
      <3> QED
        BY <3>1, NothingToRead
    <2>3. find_end(answer'.raw) = 0 /\ ~answer'.ka
      BY <1>3, <2>1, <2>2, Zenon
    <2>4. ~(find_end(answer'.raw) > 0)
      BY <2>3
    <2> QED
      BY <2>3, <2>4, Zenon DEF AnswerAsRead
  <1>4. CASE respond(w)
    <2>1. PICK raw : raw = resp[w]
      OBVIOUS
    <2>2. PICK out : out = rewrite(raw)
      OBVIOUS
    <2>3. answer'.raw = raw /\ answer'.out = out /\ answer'.ka = keep_alive(req[w], out)
      BY <1>4, <2>1, <2>2 DEF respond, Send
    <2>4. raw \in Seq(Token)
      BY <2>1, PipelineAssumption, EmptySeq DEF TypeOK
    <2>5. out \in Seq(Token)
      BY <2>2, <2>4, RewriteIsResponse
    <2>6. find_end(raw) > 0 /\ HasConnection(HeaderLines(raw)) =>
             Body(out) = Body(raw) /\ "X-Request-Id" \in Range(HeaderLines(out))
      BY <2>2, <2>4, RewriteKeepsBody
    <2>7. "Connection: close" \in Range(HeaderLines(out)) => ~keep_alive(req[w], out)
      BY <2>5, HeaderLinesAre DEF keep_alive
    <2> QED
      BY <2>3, <2>6, <2>7, Zenon DEF AnswerAsRead
  <1> QED
    BY <1>1, <1>2, <1>3, <1>4 DEF Sends

-----------------------------------------------------------------------------
\* The invariant is inductive.
LEMMA NextIInv == IInv /\ [Next]_vars => IInv'
  <1> SUFFICES ASSUME IInv, [Next]_vars
               PROVE  IInv'
    OBVIOUS
  <1>1. ASSUME NEW w \in Workers, Step(w), UNCHANGED routes
        PROVE  IInv'
    <2>1. TypeOK' /\ LocalsOK'
      BY <1>1, StepTypeOK, StepLocalsOK DEF IInv
    <2>2. OneAnswerEach' /\ CallsReported'
      BY <1>1, <2>1, StepOneAnswerEach, StepCallsReported DEF IInv
    <2>3. IsFiniteSet(Errors') /\ CountersAddUp'
      BY <1>1, StepCountersAddUp DEF IInv
    <2>4. LongestPrefix' /\ AnswerAsRead'
      BY <1>1, StepLongestPrefix, StepAnswerAsRead DEF IInv
    <2> QED
      BY <2>1, <2>2, <2>3, <2>4 DEF IInv
  <1>2. CASE UNCHANGED vars
    <2>1. TypeOK' /\ LocalsOK'
      BY <1>2 DEF vars, locals, balancer, table, sent, IInv, TypeOK, LocalsOK, LocalsAt
    <2>2. OneAnswerEach' /\ CallsReported'
      BY <1>2, Zenon DEF vars, locals, balancer, table, sent, IInv, OneAnswerEach, CallsReported, At
    <2>3. IsFiniteSet(Errors') /\ CountersAddUp'
      <3>1. /\ pc' = pc /\ req' = req /\ target' = target /\ breaker' = breaker
            /\ conn_counts' = conn_counts /\ stats' = stats
        BY <1>2 DEF vars, locals, balancer
      <3>2. Errors' = Errors /\ At({"upstream"})' = At({"upstream"})
        BY <3>1 DEF Errors, At
      <3>3. \A b \in Backends : UnderWay(b)' = UnderWay(b)
        BY <3>1 DEF UnderWay, At
      <3>4. \A p \in Paths : Recording(p)' = Recording(p)
        BY <3>1 DEF Recording, At
      <3>5. CountersAddUp /\ IsFiniteSet(Errors)
        BY DEF IInv
      <3>6. IsFiniteSet(Errors')
        BY <3>2, <3>5, Zenon
      <3>7. \A b \in Backends : conn_counts'[b] = Cardinality(UnderWay(b)')
        BY <3>1, <3>3, <3>5, Zenon DEF CountersAddUp, UnderWay
      <3>8. \A p \in Paths : stats'.total[p] = stats'.success[p] + stats'.error[p]
                                              + Cardinality(Recording(p)')
        BY <3>1, <3>4, <3>5, Zenon DEF CountersAddUp, Recording
      <3>9. Cardinality(Errors') = stats'.upstream_errors + Cardinality(At({"upstream"})')
        BY <3>1, <3>2, <3>5, Zenon DEF CountersAddUp
      <3> QED
        BY <3>6, <3>7, <3>8, <3>9 DEF CountersAddUp, UnderWay, Recording
    <2>4. LongestPrefix' /\ AnswerAsRead'
      BY <1>2, Zenon DEF vars, locals, balancer, table, sent, IInv, LongestPrefix, AnswerAsRead, At
    <2> QED
      BY <2>1, <2>2, <2>3, <2>4 DEF IInv
  <1> QED
    BY <1>1, <1>2 DEF Next, Step

\* So it holds always.
LEMMA Invariance == Spec => []IInv
  BY InitIInv, NextIInv, PTL DEF Spec

\* Every request that process_request() takes up is answered once, by any
\* number of workers: no way through it ends without an answer, and none goes
\* on after one.
THEOREM AnsweredOnce == Spec => []OneAnswerEach
  BY Invariance, PTL DEF IInv

\* A breaker hears of every call it let through, exactly once.
THEOREM CallsAreReported == Spec => []CallsReported
  BY Invariance, PTL DEF IInv

\* Workers that use a backend use the same breaker, although they look for it
\* without the lock: the first one put into the table stays there.
THEOREM BreakersAreShared == Spec => []OneBreaker
  <1>1. IInv => OneBreaker
    BY DEF IInv, LocalsOK, LocalsAt, OneBreaker
  <1> QED
    BY <1>1, Invariance, PTL

\* The balancer's counts and the statistics add up.
THEOREM CountersAreExact == Spec => []CountersAddUp
  BY Invariance, PTL DEF IInv

\* A request goes to a backend of the longest prefix of its path, in whatever
\* order std::sort leaves equal routes.
THEOREM LongestPrefixWins == Spec => []LongestPrefix
  BY Invariance, PTL DEF IInv

\* The client reads the backend's body and the headers of the filters, when the
\* backend sent a Connection header, and is not told of a close that does not
\* come.
THEOREM AnswersAreRead == Spec => []AnswerAsRead
  BY Invariance, PTL DEF IInv
=============================================================================
