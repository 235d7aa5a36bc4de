-------------------------- MODULE HttpParserProofs --------------------------
(***************************************************************************)
(* However the stream of a client is cut, the parser delivers its messages *)
(* byte for byte, holds back none that is complete, fails only at one that *)
(* is malformed or too long, and agrees with the worker's one-shot parser, *)
(* for any messages that the grammar of HttpParser describes.              *)
(*                                                                         *)
(* The parser reads message m when it is where Form[m] says it is after    *)
(* the bytes in raw_.  The items of the grammar are looked up first; then  *)
(* every method of the parser has a lemma: it consumes an item if all of   *)
(* it is there, stays otherwise, and fails only at an item that is bad.    *)
(* The lemmas about the request line and the headers also say what the     *)
(* one-shot parser would make of raw_.                                     *)
(*                                                                         *)
(* The invariant: what was delivered and what the parser has is what was   *)
(* read; the parser reads the message after the last one delivered; and    *)
(* when the connection waits, the parser has nothing or no complete line,  *)
(* so that the message is not all there.                                   *)
(***************************************************************************)
EXTENDS HttpParser, SequenceTheorems, WellFoundedInduction, TLAPS

\* Bytes before message n.
Before(n) == IF n = 1 THEN 0 ELSE ends[n - 1]

\* The stream is the messages, one after the other.
StreamOK ==
    /\ Len(ends) = Len(messages) /\ Len(stream) = Before(Len(messages) + 1)
    /\ \A n \in 1..Len(messages) :
          /\ ends[n] = Before(n) + Len(messages[n]) /\ ends[n] <= Len(stream)
          /\ \A i \in 1..Len(messages[n]) : stream[Before(n) + i] = messages[n][i]
          /\ \A i \in 1..n : ends[i] <= ends[n]

\* What the parser has of the message under way and of those after it.
Text(p) == p.raw \o p.partial

\* The requests delivered and what the parser has are what was read.
InputOK ==
    /\ DeliversExactly
    /\ fed <= Len(stream) /\ Before(Len(delivered) + 1) <= fed
    /\ Text(parser) = SubSeq(stream, Before(Len(delivered) + 1) + 1, fed)

\* The parser is at place g of the grammar.
Matches(p, g) ==
    \/ g.at = "start" /\ p.state = "RequestLine"
    \/ g.at = "head" /\ p.state = "Headers" /\ p.headers = g.headers
    \/ g.at = "body" /\ p.state = "Body" /\ g.left > 0 /\ p.body_read + g.left = ContentLength
    \/ g.at = "size" /\ p.state = "ChunkedBody" /\ p.phase = "SizeLine"
    \/ g.at = "data" /\ p.state = "ChunkedBody" /\ p.phase = "Data" /\ p.read + g.left = p.size
    \/ g.at = "trailer" /\ p.state = "ChunkedBody" /\ p.phase = "Trailer"
    \/ g.at = "done" /\ (p.state = "Complete" \/ (p.state = "ChunkedBody" /\ p.phase = "End"))

\* What the one-shot parser finds in raw is what the headers are.
Agrees(raw, headers) ==
    LET r == parse_http_request(raw)
    IN  IF HeadersEnd(raw, 1) THEN ~r.ok ELSE r.ok /\ r.headers = headers

Lines(raw) == {i \in DOMAIN raw : raw[i] \notin {"CR", "LF"}}

\* The request line and some headers, each ended by CRLF, and no blank line
\* but at most one before them, unless two come first.
HeadSoFar(raw, headers) ==
    /\ Len(raw) >= 3 /\ Len(raw) - 2 \in Lines(raw) /\ Blank(raw, Len(raw) - 2)
    /\ HeadersEnd(raw, 1) \/
          /\ \A i \in DOMAIN raw : ~HeadersEnd(raw, i)
          /\ raw[Min(Lines(raw))] = "GET"
          /\ headers = {raw[i] : i \in Lines(raw) \ {Min(Lines(raw))}} \ {"N"}

\* What may come before the request line: nothing, a blank line, or two and more.
NoLineYet(r) == r = <<>> \/ r = CRLF \/ HeadersEnd(r, 1)

Shape(p) ==
    /\ p.state = "RequestLine" => p.headers = {} /\ NoLineYet(p.raw)
    /\ p.state = "Headers" => HeadSoFar(p.raw, p.headers)
    /\ p.state \in {"Body", "ChunkedBody", "Complete"} =>
          Agrees(p.raw, p.headers) /\ \E i \in DOMAIN p.raw : HeadersEnd(p.raw, i)

\* The parser is reading m.
Reading(p, m) ==
    /\ Len(p.raw) <= Len(m)
    /\ p.state # "Error" => Matches(p, Form[m][Len(p.raw)]) /\ Shape(p)
    /\ p.state = "Error" => m \in Garbage \/ Len(m) > MaxSize

\* The parser has no complete line.
Blocked(p) ==
    \/ p.state = "RequestLine" /\ extract_line(p) = 0
    \/ p.state = "Headers" /\ ~StartsWithCRLF(p) /\ (Len(p.partial) < 2 \/ extract_line(p) = 0)

Settled(p) == ~(p.state = "ChunkedBody" /\ p.phase = "End")
Ended(p) == p.state \in {"Complete", "Error"}

\* What a turn of the loop makes of p, which is reading m.
Progress(p, q, m) ==
    /\ q \in Parser /\ Text(q) = Text(p) /\ Len(p.raw) <= Len(q.raw) /\ Reading(q, m)
    /\ ~q.done => ~Ended(q)
    /\ q.done => Settled(q) /\ (Ended(q) \/ q.partial = <<>> \/ Blocked(q) \/ Len(q.raw) > Len(p.raw))

Fresh(p) == p.state = "RequestLine" /\ p.raw = <<>> /\ p.headers = {}

StageOK ==
    /\ stage = "process" => ~parser.done /\ ~Ended(parser) /\ old_raw <= Len(parser.raw)
    /\ stage = "returned" =>
          /\ Settled(parser) /\ old_raw <= Len(parser.raw)
          /\ Ended(parser) \/ parser.partial = <<>> \/ Blocked(parser) \/ Len(parser.raw) > old_raw
    /\ stage = "wait" => ~Ended(parser) /\ Settled(parser) /\ (parser.partial = <<>> \/ Blocked(parser))
    /\ stage = "busy" => Fresh(parser)
    /\ stage = "closed" => parser.state = "Error"

UnderWay ==
    /\ Len(delivered) < Len(messages) => Reading(parser, messages[Len(delivered) + 1])
    /\ Len(delivered) = Len(messages) => Fresh(parser) /\ stage \in {"wait", "busy"}

ParserIInv == ParserTypeOK /\ StreamOK /\ InputOK /\ UnderWay /\ StageOK

-----------------------------------------------------------------------------

\* A set of numbers that is not empty has a least element, its Min.
LEMMA LeastOf ==
    ASSUME NEW S \in SUBSET Nat, S # {}
    PROVE  Min(S) \in S /\ \A n \in S : Min(S) <= n
PROOF
<1> DEFINE R == OpToRel(<, Nat)
<1>1. IsWellFoundedOn(R, Nat)
  BY NatLessThanWellFounded, Zenon
<1> HIDE DEF R
<1>2. PICK m \in S : \A n \in S : ~(<<n, m>> \in R)
  BY <1>1, WFMin, Zenon
<1>3. \A n \in S : m <= n
  <2> SUFFICES ASSUME NEW n \in S, n < m
               PROVE  FALSE
    BY <1>2
  <2>1. <<n, m>> \in R
    BY DEF R, OpToRel
  <2> QED BY <2>1, <1>2
<1>4. \E x \in S : \A y \in S : x =< y
  BY <1>3
<1> QED BY <1>4, Zenon DEF Min

\* The least of two numbers.
LEMMA LesserOf ==
    ASSUME NEW a \in Nat, NEW b \in Nat
    PROVE  Min({a, b}) = IF a <= b THEN a ELSE b
PROOF
<1>1. Min({a, b}) \in {a, b} /\ \A y \in {a, b} : Min({a, b}) <= y
  BY LeastOf
<1> QED BY <1>1

\* Concatenation is associative.
LEMMA Associates ==
    ASSUME NEW a \in Seq(Token), NEW b \in Seq(Token), NEW c \in Seq(Token)
    PROVE  (a \o b) \o c = a \o (b \o c)
BY ConcatAssociative

\* Lengths and members of a concatenation.
LEMMA Concatenates ==
    ASSUME NEW a \in Seq(Token), NEW b \in Seq(Token)
    PROVE  a \o b \in Seq(Token) /\ Len(a \o b) = Len(a) + Len(b)
BY ConcatProperties

\* A sequence is its first n members and the rest.
LEMMA SplitAt ==
    ASSUME NEW b \in Seq(Token), NEW n \in 0..Len(b)
    PROVE  /\ SubSeq(b, 1, n) \in Seq(Token) /\ Len(SubSeq(b, 1, n)) = n
           /\ \A i \in 1..n : SubSeq(b, 1, n)[i] = b[i]
           /\ SubSeq(b, n + 1, Len(b)) \in Seq(Token)
           /\ Len(SubSeq(b, n + 1, Len(b))) = Len(b) - n
           /\ SubSeq(b, 1, n) \o SubSeq(b, n + 1, Len(b)) = b
PROOF
<1>0. Len(b) \in Nat /\ n \in Nat
  OBVIOUS
<1>1. /\ SubSeq(b, 1, n) \in Seq(Token) /\ Len(SubSeq(b, 1, n)) = n
      /\ \A i \in 1..n : SubSeq(b, 1, n)[i] = b[i]
  OBVIOUS
<1>2. /\ SubSeq(b, n + 1, Len(b)) \in Seq(Token)
      /\ Len(SubSeq(b, n + 1, Len(b))) = Len(b) - n
  OBVIOUS
<1>3. 1 \in 1..(Len(b) + 1) /\ n \in (1 - 1)..Len(b) /\ Len(b) \in n..Len(b)
  BY <1>0
<1>4. SubSeq(b, 1, n) \o SubSeq(b, n + 1, Len(b)) = SubSeq(b, 1, Len(b))
  BY <1>3, ConcatAdjacentSubSeq, Zenon
<1>5. SubSeq(b, 1, Len(b)) = b
  BY SubSeqFull, Zenon
<1> QED BY <1>1, <1>2, <1>4, <1>5, Zenon

\* consume_partial() moves n tokens from partial_ to raw_ and nothing else.
LEMMA Consumes ==
    ASSUME NEW p \in Parser, NEW n \in 0..Len(p.partial)
    PROVE  LET q == consume_partial(p, n)
               front == SubSeq(p.partial, 1, n)
           IN  /\ q \in Parser /\ Text(q) = Text(p)
               /\ Len(q.raw) = Len(p.raw) + n /\ Len(q.partial) = Len(p.partial) - n
               /\ q.raw = p.raw \o front
               /\ front \in Seq(Token) /\ Len(front) = n /\ \A i \in 1..n : front[i] = p.partial[i]
               /\ q.state = p.state /\ q.headers = p.headers /\ q.body_read = p.body_read
               /\ q.phase = p.phase /\ q.size = p.size /\ q.read = p.read /\ q.done = p.done
PROOF
<1> DEFINE q == consume_partial(p, n)
           front == SubSeq(p.partial, 1, n)
           rest == SubSeq(p.partial, n + 1, Len(p.partial))
<1>1. p.raw \in Seq(Token) /\ p.partial \in Seq(Token)
  BY DEF Parser
<1>2. /\ front \in Seq(Token) /\ Len(front) = n /\ \A i \in 1..n : front[i] = p.partial[i]
      /\ rest \in Seq(Token) /\ Len(rest) = Len(p.partial) - n /\ front \o rest = p.partial
  BY <1>1, SplitAt, Zenon
<1>3. q = [p EXCEPT !.raw = p.raw \o front, !.partial = rest]
  BY DEF consume_partial, Parser
<1> HIDE DEF q, front, rest
<1>9. p.raw \o front \in Seq(Token) /\ Len(p.raw \o front) = Len(p.raw) + n
  BY <1>1, <1>2, Concatenates, Zenon
<1>10. (p.raw \o front) \o rest = p.raw \o p.partial
  <2>1. p.raw \in Seq(Token) /\ front \in Seq(Token) /\ rest \in Seq(Token)
    BY <1>1, <1>2, Zenon
  <2>2. (p.raw \o front) \o rest = p.raw \o (front \o rest)
    BY <2>1, Associates, Zenon
  <2> QED BY <1>2, <2>2, Zenon
<1>4. q \in Parser /\ q.raw = p.raw \o front /\ q.partial = rest
  BY <1>2, <1>3, <1>9, Zenon DEF Parser
<1>5. /\ q.state = p.state /\ q.headers = p.headers /\ q.body_read = p.body_read
      /\ q.phase = p.phase /\ q.size = p.size /\ q.read = p.read /\ q.done = p.done
  BY <1>3 DEF Parser
<1>6. Text(q) = Text(p)
  BY <1>10, <1>4, Zenon DEF Text
<1>7. Len(q.raw) = Len(p.raw) + n /\ Len(q.partial) = Len(p.partial) - n
  BY <1>2, <1>9, <1>4, Zenon
<1>8. /\ q \in Parser /\ Text(q) = Text(p)
      /\ Len(q.raw) = Len(p.raw) + n /\ Len(q.partial) = Len(p.partial) - n
      /\ q.raw = p.raw \o front
      /\ front \in Seq(Token) /\ Len(front) = n /\ \A i \in 1..n : front[i] = p.partial[i]
      /\ q.state = p.state /\ q.headers = p.headers /\ q.body_read = p.body_read
      /\ q.phase = p.phase /\ q.size = p.size /\ q.read = p.read /\ q.done = p.done
  BY <1>2, <1>4, <1>5, <1>6, <1>7, Zenon
<1> QED BY <1>8, Zenon DEF q, front

\* The place of the first CR of s if an LF follows it, else 0.
LineEnd(s) ==
    LET crs == {i \in DOMAIN s : s[i] = "CR"}
    IN  IF crs = {} \/ Min(crs) = Len(s) \/ s[Min(crs) + 1] # "LF" THEN 0 ELSE Min(crs)

\* Where a line of at most one token ends, which may not be all there.
LEMMA LineEnds ==
    ASSUME NEW s \in Seq(Token)
    PROVE  /\ Len(s) = 0 => LineEnd(s) = 0
           /\ Len(s) >= 1 /\ s[1] = "CR" =>
                 LineEnd(s) = IF Len(s) >= 2 /\ s[2] = "LF" THEN 1 ELSE 0
           /\ /\ Len(s) >= 1 /\ s[1] # "CR"
              /\ Len(s) >= 2 => s[2] = "CR"
              /\ Len(s) >= 3 => s[3] = "LF"
              => LineEnd(s) = IF Len(s) >= 3 THEN 2 ELSE 0
PROOF
<1> DEFINE crs == {i \in DOMAIN s : s[i] = "CR"}
<1>0. Len(s) \in Nat /\ DOMAIN s = 1..Len(s)
  OBVIOUS
<1>1. LineEnd(s) = IF crs = {} \/ Min(crs) = Len(s) \/ s[Min(crs) + 1] # "LF" THEN 0 ELSE Min(crs)
  BY DEF LineEnd
<1>2. ASSUME NEW k \in crs
      PROVE  Min(crs) \in crs /\ Min(crs) \in Nat /\ 1 <= Min(crs) /\ Min(crs) <= k
  <2>1. crs \in SUBSET Nat /\ \A i \in crs : 1 <= i
    BY <1>0
  <2> HIDE DEF crs
  <2>2. Min(crs) \in crs /\ Min(crs) <= k
    BY <2>1, LeastOf
  <2> QED BY <2>1, <2>2, Zenon
<1>3. CASE Len(s) = 0
  BY <1>0, <1>1, <1>3
<1>4. CASE Len(s) >= 1 /\ s[1] = "CR"
  <2>1. 1 \in crs
    BY <1>0, <1>4
  <2> HIDE DEF crs
  <2>2. Min(crs) = 1
    BY <1>2, <2>1
  <2> QED BY <1>0, <1>1, <1>4, <2>1, <2>2
<1>5. CASE /\ Len(s) >= 1 /\ s[1] # "CR"
           /\ Len(s) >= 2 => s[2] = "CR"
           /\ Len(s) >= 3 => s[3] = "LF"
  <2>1. CASE Len(s) = 1
    <3>1. crs = {}
      BY <1>0, <1>5, <2>1
    <3> QED BY <3>1, <1>1, <2>1, <1>5
  <2>2. CASE Len(s) >= 2
    <3>1. 2 \in crs /\ 1 \notin crs
      BY <1>0, <1>5, <2>2
    <3> HIDE DEF crs
    <3>3. Min(crs) = 2
      BY <1>2, <3>1
    <3> QED BY <1>0, <1>1, <1>5, <2>2, <3>1, <3>3
  <2> QED BY <1>0, <1>5, <2>1, <2>2
<1> QED BY <1>0, <1>3, <1>4, <1>5

\* The tokens of p.partial are those of m from where p.raw ends.
Follows(p, m) == \A j \in 1..Len(p.partial) : Len(p.raw) + j <= Len(m) => p.partial[j] = m[Len(p.raw) + j]

\* An item begins at every place that is not Inside, until the message is done.
LEMMA PlaceHasItem ==
    ASSUME NEW m \in Message, NEW i \in 0..Len(m), Form[m][i].at # "inside"
    PROVE  /\ m \in Seq(Token) /\ Form[m][i] \in Place
           /\ Form[m][i].at = "done" => i = Len(m)
           /\ Form[m][i].at # "done" => Reads(m, i) \/ (m \in Garbage /\ Rejects(m, i))
PROOF
<1>1. m \in Seq(Token) /\ Form[m] \in [0..Len(m) -> Place]
  BY ParserAssumption, Zenon
<1>2. Form[m][i] \in Place
  BY <1>1, Zenon
<1>3. Form[m][i] # Inside
  BY DEF Inside, At
<1>4. Form[m][i].at = "done" => ~Reads(m, i) /\ ~Rejects(m, i)
  BY DEF Reads, Rejects, Item, Bad
<1>5. CASE m \in Requests
  <2>1. IF i = Len(m) THEN Form[m][i] = Done ELSE Form[m][i] # Inside => Reads(m, i)
    BY <1>5, ParserAssumption, Zenon
  <2>2. Done.at = "done"
    BY DEF Done, At
  <2> QED BY <1>1, <1>2, <1>3, <1>4, <2>1, <2>2, Zenon
<1>6. CASE m \in Garbage
  <2>1. Reads(m, i) \/ Rejects(m, i)
    BY <1>6, <1>3, ParserAssumption, Zenon
  <2> QED BY <1>1, <1>2, <1>4, <1>6, <2>1, Zenon
<1> QED BY <1>5, <1>6 DEF Message

\* What is at the start of a message.
LEMMA StartItem ==
    ASSUME NEW m \in Message, NEW i \in 0..Len(m), Form[m][i].at = "start"
    PROVE  \/ i + 2 <= Len(m) /\ Blank(m, i) /\ Form[m][i + 2] = Form[m][i]
           \/ i + 3 <= Len(m) /\ Line(m, i, "GET") /\ Form[m][i + 3] = At("head", {}, 0)
           \/ m \in Garbage /\ i + 3 <= Len(m) /\ Line(m, i, "XXX")
PROOF
<1>1. Reads(m, i) \/ (m \in Garbage /\ Rejects(m, i))
  BY PlaceHasItem
<1>2. CASE Reads(m, i)
  <2>1. PICK n \in 1..3 : i + n <= Len(m) /\ Item(m, i, Form[m][i], n, Form[m][i + n])
    BY <1>2, Zenon DEF Reads
  <2> QED BY <2>1 DEF Item
<1>3. CASE m \in Garbage /\ Rejects(m, i)
  <2>1. PICK n \in 1..3 : i + n <= Len(m) /\ Bad(m, i, Form[m][i], n)
    BY <1>3, Zenon DEF Rejects
  <2> QED BY <2>1, <1>3 DEF Bad
<1> QED BY <1>1, <1>2, <1>3

\* What is among the headers.
LEMMA HeadItem ==
    ASSUME NEW m \in Message, NEW i \in 0..Len(m), Form[m][i].at = "head"
    PROVE  \/ i + 2 <= Len(m) /\ Blank(m, i) /\ Form[m][i + 2] = AfterHeaders(Form[m][i].headers)
           \/ \E t \in HeaderLine :
                 /\ i + 3 <= Len(m) /\ Line(m, i, t)
                 /\ Form[m][i + 3] = At("head", Form[m][i].headers \cup ({t} \ {"N"}), 0)
PROOF
<1>1. Reads(m, i) \/ (m \in Garbage /\ Rejects(m, i))
  BY PlaceHasItem
<1>2. CASE Reads(m, i)
  <2>1. PICK n \in 1..3 : i + n <= Len(m) /\ Item(m, i, Form[m][i], n, Form[m][i + n])
    BY <1>2, Zenon DEF Reads
  <2> QED BY <2>1 DEF Item
<1>3. CASE m \in Garbage /\ Rejects(m, i)
  <2>1. PICK n \in 1..3 : i + n <= Len(m) /\ Bad(m, i, Form[m][i], n)
    BY <1>3, Zenon DEF Rejects
  <2> QED BY <2>1, <1>3 DEF Bad
<1> QED BY <1>1, <1>2, <1>3, Zenon

\* What is in a body.
LEMMA BodyItem ==
    ASSUME NEW m \in Message, NEW i \in 0..Len(m), Form[m][i].at = "body", Form[m][i].left > 0
    PROVE  /\ i + 1 <= Len(m)
           /\ Form[m][i + 1] = IF Form[m][i].left = 1 THEN Done ELSE At("body", {}, Form[m][i].left - 1)
PROOF
<1>1. Reads(m, i) \/ (m \in Garbage /\ Rejects(m, i))
  BY PlaceHasItem
<1>2. CASE Reads(m, i)
  <2>1. PICK n \in 1..3 : i + n <= Len(m) /\ Item(m, i, Form[m][i], n, Form[m][i + n])
    BY <1>2, Zenon DEF Reads
  <2> QED BY <2>1 DEF Item
<1>3. CASE m \in Garbage /\ Rejects(m, i)
  <2>1. PICK n \in 1..3 : i + n <= Len(m) /\ Bad(m, i, Form[m][i], n)
    BY <1>3, Zenon DEF Rejects
  <2> QED BY <2>1, <1>3 DEF Bad
<1> QED BY <1>1, <1>2, <1>3

\* What is where a chunk begins.
LEMMA SizeItem ==
    ASSUME NEW m \in Message, NEW i \in 0..Len(m), Form[m][i].at = "size"
    PROVE  \/ \E t \in DOMAIN ChunkSize :
                 /\ i + 3 <= Len(m) /\ Line(m, i, t)
                 /\ Form[m][i + 3] = IF t = "0" THEN At("trailer", {}, 0) ELSE At("data", {}, ChunkSize[t])
           \/ m \in Garbage /\ i + 3 <= Len(m) /\ Line(m, i, "zz")
PROOF
<1>1. Reads(m, i) \/ (m \in Garbage /\ Rejects(m, i))
  BY PlaceHasItem
<1>2. CASE Reads(m, i)
  <2>1. PICK n \in 1..3 : i + n <= Len(m) /\ Item(m, i, Form[m][i], n, Form[m][i + n])
    BY <1>2, Zenon DEF Reads
  <2> QED BY <2>1 DEF Item
<1>3. CASE m \in Garbage /\ Rejects(m, i)
  <2>1. PICK n \in 1..3 : i + n <= Len(m) /\ Bad(m, i, Form[m][i], n)
    BY <1>3, Zenon DEF Rejects
  <2> QED BY <2>1, <1>3 DEF Bad
<1> QED BY <1>1, <1>2, <1>3

\* What is in a chunk.
LEMMA DataItem ==
    ASSUME NEW m \in Message, NEW i \in 0..Len(m), Form[m][i].at = "data", Form[m][i].left > 0
    PROVE  i + 1 <= Len(m) /\ Form[m][i + 1] = At("data", {}, Form[m][i].left - 1)
PROOF
<1>1. Reads(m, i) \/ (m \in Garbage /\ Rejects(m, i))
  BY PlaceHasItem
<1>2. CASE Reads(m, i)
  <2>1. PICK n \in 1..3 : i + n <= Len(m) /\ Item(m, i, Form[m][i], n, Form[m][i + n])
    BY <1>2, Zenon DEF Reads
  <2> QED BY <2>1 DEF Item
<1>3. CASE m \in Garbage /\ Rejects(m, i)
  <2>1. PICK n \in 1..3 : i + n <= Len(m) /\ Bad(m, i, Form[m][i], n)
    BY <1>3, Zenon DEF Rejects
  <2> QED BY <2>1, <1>3 DEF Bad
<1> QED BY <1>1, <1>2, <1>3

\* What is after a chunk.
LEMMA ChunkEndItem ==
    ASSUME NEW m \in Message, NEW i \in 0..Len(m), Form[m][i].at = "data", Form[m][i].left = 0
    PROVE  /\ i + 2 <= Len(m)
           /\ \/ Blank(m, i) /\ Form[m][i + 2] = At("size", {}, 0)
              \/ m \in Garbage /\ ~Blank(m, i)
PROOF
<1>1. Reads(m, i) \/ (m \in Garbage /\ Rejects(m, i))
  BY PlaceHasItem
<1>2. CASE Reads(m, i)
  <2>1. PICK n \in 1..3 : i + n <= Len(m) /\ Item(m, i, Form[m][i], n, Form[m][i + n])
    BY <1>2, Zenon DEF Reads
  <2> QED BY <2>1 DEF Item
<1>3. CASE m \in Garbage /\ Rejects(m, i)
  <2>1. PICK n \in 1..3 : i + n <= Len(m) /\ Bad(m, i, Form[m][i], n)
    BY <1>3, Zenon DEF Rejects
  <2> QED BY <2>1, <1>3 DEF Bad
<1> QED BY <1>1, <1>2, <1>3

\* What is in the trailer.
LEMMA TrailerItem ==
    ASSUME NEW m \in Message, NEW i \in 0..Len(m), Form[m][i].at = "trailer"
    PROVE  \/ i + 2 <= Len(m) /\ Blank(m, i) /\ Form[m][i + 2] = Done
           \/ \E t \in Token \ {"CR"} :
                 i + 3 <= Len(m) /\ Line(m, i, t) /\ Form[m][i + 3] = Form[m][i]
PROOF
<1>1. Reads(m, i) \/ (m \in Garbage /\ Rejects(m, i))
  BY PlaceHasItem
<1>2. CASE Reads(m, i)
  <2>1. PICK n \in 1..3 : i + n <= Len(m) /\ Item(m, i, Form[m][i], n, Form[m][i + n])
    BY <1>2, Zenon DEF Reads
  <2> QED BY <2>1 DEF Item
<1>3. CASE m \in Garbage /\ Rejects(m, i)
  <2>1. PICK n \in 1..3 : i + n <= Len(m) /\ Bad(m, i, Form[m][i], n)
    BY <1>3, Zenon DEF Rejects
  <2> QED BY <2>1, <1>3 DEF Bad
<1> QED BY <1>1, <1>2, <1>3

-----------------------------------------------------------------------------
(* What raw_ looks like as it grows. *)

\* c begins with r.
Begins(c, r) == Len(r) <= Len(c) /\ \A i \in 1..Len(r) : c[i] = r[i]

\* The blank line found in r is found in what begins with r.
LEMMA EndsStay ==
    ASSUME NEW r \in Seq(Token), NEW c \in Seq(Token), Begins(c, r), NEW i \in Nat, i >= 1
    PROVE  /\ HeadersEnd(r, i) => HeadersEnd(c, i)
           /\ HeadersEnd(c, i) /\ i + 3 <= Len(r) => HeadersEnd(r, i)
PROOF
<1>1. Len(r) \in Nat /\ Len(c) \in Nat
  OBVIOUS
<1>2. ASSUME i + 3 <= Len(r)
      PROVE  c[i] = r[i] /\ c[i + 1] = r[i + 1] /\ c[i + 2] = r[i + 2] /\ c[i + 3] = r[i + 3]
  <2>1. i \in 1..Len(r) /\ i + 1 \in 1..Len(r) /\ i + 2 \in 1..Len(r) /\ i + 3 \in 1..Len(r)
    BY <1>1, <1>2
  <2> QED BY <2>1 DEF Begins
<1>3. (i - 1) + 1 = i /\ (i - 1) + 2 = i + 1 /\ (i + 1) + 1 = i + 2 /\ (i + 1) + 2 = i + 3
  OBVIOUS
<1>4. \A x \in {r, c} : HeadersEnd(x, i) <=> /\ i + 3 <= Len(x)
                                            /\ x[i] = "CR" /\ x[i + 1] = "LF"
                                            /\ x[i + 2] = "CR" /\ x[i + 3] = "LF"
  BY <1>3 DEF HeadersEnd, Blank
<1>5. i + 3 <= Len(r) => i + 3 <= Len(c)
  BY <1>1 DEF Begins
<1>6. HeadersEnd(r, i) => i + 3 <= Len(r)
  BY <1>4
<1> QED BY <1>2, <1>4, <1>5, <1>6

\* So once the headers have ended, the one-shot parser gives the same result
\* whatever follows.
LEMMA AgreesStays ==
    ASSUME NEW r \in Seq(Token), NEW c \in Seq(Token), Begins(c, r), NEW headers,
           Agrees(r, headers), \E i \in DOMAIN r : HeadersEnd(r, i)
    PROVE  Agrees(c, headers) /\ \E i \in DOMAIN c : HeadersEnd(c, i)
PROOF
<1> DEFINE E(x) == {i \in DOMAIN x : HeadersEnd(x, i)}
           L(x) == {i \in 1..(Min(E(x)) - 1) : x[i] \notin {"CR", "LF"}}
<1>0. /\ Len(r) \in Nat /\ Len(c) \in Nat /\ DOMAIN r = 1..Len(r) /\ DOMAIN c = 1..Len(c)
      /\ Len(r) <= Len(c) /\ \A i \in 1..Len(r) : c[i] = r[i]
  BY DEF Begins
<1>1. \A i \in E(r) : i \in Nat /\ i >= 1 /\ i + 3 <= Len(r)
  BY <1>0 DEF HeadersEnd
<1>2. E(r) # {} /\ E(r) \in SUBSET Nat /\ E(c) \in SUBSET Nat
  BY <1>0
<1>3. \A i \in E(r) : i \in E(c)
  BY <1>0, <1>1, EndsStay
<1>4. \A i \in E(c) : i + 3 <= Len(r) => i \in E(r)
  <2> SUFFICES ASSUME NEW i \in E(c), i + 3 <= Len(r) PROVE i \in E(r)
    OBVIOUS
  <2>1. i \in Nat /\ i >= 1 /\ HeadersEnd(c, i) /\ i \in 1..Len(r)
    BY <1>0
  <2>2. HeadersEnd(r, i)
    BY <2>1, EndsStay
  <2> QED BY <1>0, <2>1, <2>2
<1>5. Min(E(r)) \in E(r) /\ \A i \in E(r) : Min(E(r)) <= i
  <2> HIDE DEF E
  <2> QED BY <1>2, LeastOf
<1>6. E(c) # {} /\ Min(E(c)) \in E(c) /\ \A i \in E(c) : Min(E(c)) <= i
  <2>1. E(c) # {}
    BY <1>3, <1>5
  <2> HIDE DEF E
  <2> QED BY <1>2, <2>1, LeastOf
<1>7. Min(E(c)) = Min(E(r))
  <2> HIDE DEF E
  <2>1. Min(E(c)) <= Min(E(r)) /\ Min(E(r)) \in Nat /\ Min(E(c)) \in Nat
    BY <1>2, <1>3, <1>5, <1>6
  <2>2. Min(E(r)) + 3 <= Len(r)
    BY <1>1, <1>5
  <2>3. Min(E(c)) + 3 <= Len(r)
    BY <1>0, <2>1, <2>2
  <2>4. Min(E(r)) <= Min(E(c))
    BY <1>4, <1>5, <1>6, <2>3
  <2> QED BY <2>1, <2>4
<1>8. L(c) = L(r)
  <2>1. \A i \in 1..(Min(E(r)) - 1) : i \in 1..Len(r)
    BY <1>0, <1>1, <1>5
  <2> HIDE DEF E
  <2> QED BY <1>0, <1>7, <2>1
<1>9. \A i \in L(r) : c[i] = r[i]
  <2>1. \A i \in 1..(Min(E(r)) - 1) : i \in 1..Len(r)
    BY <1>0, <1>1, <1>5
  <2> HIDE DEF E
  <2> QED BY <1>0, <2>1
<1>10. L(r) # {} => Min(L(r)) \in L(r)
  <2>1. L(r) \in SUBSET Nat
    BY <1>1, <1>5
  <2> HIDE DEF L
  <2> QED BY <2>1, LeastOf
<1>11. \A x : parse_http_request(x) =
              LET ok == E(x) # {} /\ L(x) # {} /\ x[Min(L(x))] = "GET"
              IN  [ ok |-> ok,
                    headers |-> IF ok THEN {x[i] : i \in L(x) \ {Min(L(x))}} \ {"N"} ELSE {} ]
  BY DEF parse_http_request
<1>12. {c[i] : i \in L(r) \ {Min(L(r))}} = {r[i] : i \in L(r) \ {Min(L(r))}}
  <2> HIDE DEF L
  <2> QED BY <1>9
<1>13. parse_http_request(c) = parse_http_request(r)
  <2> HIDE DEF L, E
  <2>1. (E(c) # {} /\ L(c) # {} /\ c[Min(L(c))] = "GET") <=> (E(r) # {} /\ L(r) # {} /\ r[Min(L(r))] = "GET")
    BY <1>2, <1>6, <1>8, <1>9, <1>10
  <2> QED BY <1>11, <1>8, <1>12, <2>1, Zenon
<1>14. HeadersEnd(c, 1) <=> HeadersEnd(r, 1)
  <2>1. 1 + 3 <= Len(r)
    BY <1>0, <1>1, <1>5
  <2> QED BY <2>1, EndsStay
<1>15. Agrees(c, headers)
  BY <1>13, <1>14 DEF Agrees
<1> QED BY <1>6, <1>15

\* HeadersEnd, token by token.
LEMMA EndTokens ==
    ASSUME NEW r, NEW i \in Nat
    PROVE  HeadersEnd(r, i) <=> /\ i + 3 <= Len(r)
                                /\ r[i] = "CR" /\ r[i + 1] = "LF"
                                /\ r[i + 2] = "CR" /\ r[i + 3] = "LF"
PROOF
<1>1. (i - 1) + 1 = i /\ (i - 1) + 2 = i + 1 /\ (i + 1) + 1 = i + 2 /\ (i + 1) + 2 = i + 3
  OBVIOUS
<1> QED BY <1>1 DEF HeadersEnd, Blank

\* Another blank line before the request line.
LEMMA BlankBefore ==
    ASSUME NEW r \in Seq(Token), NEW c \in Seq(Token), Begins(c, r), NoLineYet(r),
           Len(c) = Len(r) + 2, c[Len(r) + 1] = "CR", c[Len(r) + 2] = "LF"
    PROVE  NoLineYet(c)
PROOF
<1>1. CASE r = <<>>
  <2>1. Len(c) = 2 /\ c[1] = "CR" /\ c[2] = "LF"
    BY <1>1
  <2>2. c = CRLF
    BY <2>1 DEF CRLF
  <2> QED BY <2>2 DEF NoLineYet
<1>2. CASE r = CRLF
  <2>1. Len(r) = 2 /\ r[1] = "CR" /\ r[2] = "LF"
    BY <1>2 DEF CRLF
  <2>2. c[1] = "CR" /\ c[2] = "LF" /\ c[3] = "CR" /\ c[4] = "LF" /\ Len(c) = 4
    BY <2>1 DEF Begins
  <2>3. HeadersEnd(c, 1)
    BY <2>2, EndTokens
  <2> QED BY <2>3 DEF NoLineYet
<1>3. CASE HeadersEnd(r, 1)
  BY <1>3, EndsStay DEF NoLineYet
<1> QED BY <1>1, <1>2, <1>3 DEF NoLineYet

\* The request line.
LEMMA RequestLineRead ==
    ASSUME NEW r \in Seq(Token), NEW c \in Seq(Token), Begins(c, r), NoLineYet(r),
           Len(c) = Len(r) + 3, c[Len(r) + 1] = "GET", c[Len(r) + 2] = "CR", c[Len(r) + 3] = "LF"
    PROVE  HeadSoFar(c, {})
PROOF
<1>0. Len(r) \in Nat /\ Len(c) \in Nat /\ DOMAIN c = 1..Len(c)
  OBVIOUS
<1>1. Len(c) >= 3 /\ Len(c) - 2 \in Lines(c) /\ Blank(c, Len(c) - 2)
  <2>1. Len(c) - 2 = Len(r) + 1 /\ Len(r) + 1 \in 1..Len(c)
    BY <1>0
  <2>2. Len(r) + 1 \in Lines(c)
    BY <1>0, <2>1 DEF Lines
  <2>3. Blank(c, Len(r) + 1)
    BY <1>0 DEF Blank
  <2> QED BY <1>0, <2>1, <2>2, <2>3
<1>2. CASE r = <<>> \/ r = CRLF
  <2>1. \/ Len(r) = 0 /\ Len(c) = 3
        \/ Len(r) = 2 /\ Len(c) = 5 /\ c[1] = "CR" /\ c[2] = "LF"
    <3>1. CASE r = <<>>
      BY <3>1
    <3>2. CASE r = CRLF
      <4>1. Len(r) = 2 /\ r[1] = "CR" /\ r[2] = "LF"
        BY <3>2 DEF CRLF
      <4> QED BY <4>1 DEF Begins
    <3> QED BY <1>2, <3>1, <3>2
  <2>2. \A i \in DOMAIN c : ~HeadersEnd(c, i)
    <3> SUFFICES ASSUME NEW i \in DOMAIN c, HeadersEnd(c, i) PROVE FALSE
      OBVIOUS
    <3>1. i \in Nat /\ i >= 1 /\ i + 3 <= Len(c) /\ c[i] = "CR" /\ c[i + 2] = "CR"
      BY <1>0, EndTokens
    <3>2. Len(c) = 5 /\ (i = 1 \/ i = 2)
      BY <2>1, <3>1
    <3> QED BY <2>1, <3>1, <3>2
  <2>3. Lines(c) = {Len(r) + 1}
    BY <1>0, <2>1 DEF Lines
  <2>4. Min(Lines(c)) = Len(r) + 1
    <3>1. Lines(c) \in SUBSET Nat /\ Lines(c) # {}
      BY <2>3
    <3>2. Min(Lines(c)) \in Lines(c)
      BY <3>1, LeastOf
    <3> QED BY <3>2, <2>3
  <2>5. c[Min(Lines(c))] = "GET"
    BY <2>4
  <2>6. {} = {c[i] : i \in Lines(c) \ {Min(Lines(c))}} \ {"N"}
    BY <2>3, <2>4
  <2> QED BY <1>1, <2>2, <2>5, <2>6, Zenon DEF HeadSoFar
<1>3. CASE HeadersEnd(r, 1)
  BY <1>1, <1>3, EndsStay DEF HeadSoFar
<1> QED BY <1>2, <1>3 DEF NoLineYet

\* A header line.
LEMMA HeaderLineRead ==
    ASSUME NEW r \in Seq(Token), NEW c \in Seq(Token), Begins(c, r), NEW headers, HeadSoFar(r, headers),
           NEW t \in HeaderLine,
           Len(c) = Len(r) + 3, c[Len(r) + 1] = t, c[Len(r) + 2] = "CR", c[Len(r) + 3] = "LF"
    PROVE  HeadSoFar(c, headers \cup ({t} \ {"N"}))
PROOF
<1>0. /\ Len(r) \in Nat /\ Len(c) \in Nat /\ DOMAIN c = 1..Len(c) /\ DOMAIN r = 1..Len(r)
      /\ t \notin {"CR", "LF"} /\ \A i \in 1..Len(r) : c[i] = r[i]
  BY DEF HeaderLine, Begins
<1>1. Len(c) >= 3 /\ Len(c) - 2 \in Lines(c) /\ Blank(c, Len(c) - 2)
  <2>1. Len(c) - 2 = Len(r) + 1 /\ Len(r) + 1 \in 1..Len(c)
    BY <1>0
  <2>2. Len(r) + 1 \in Lines(c)
    BY <1>0, <2>1 DEF Lines
  <2>3. Blank(c, Len(r) + 1)
    BY <1>0 DEF Blank
  <2> QED BY <1>0, <2>1, <2>2, <2>3
<1>2. CASE HeadersEnd(r, 1)
  BY <1>1, <1>2, EndsStay DEF HeadSoFar
<1>3. CASE ~HeadersEnd(r, 1)
  <2>1. /\ Len(r) >= 3 /\ Len(r) - 2 \in Lines(r) /\ Blank(r, Len(r) - 2)
        /\ \A i \in DOMAIN r : ~HeadersEnd(r, i)
        /\ r[Min(Lines(r))] = "GET"
        /\ headers = {r[i] : i \in Lines(r) \ {Min(Lines(r))}} \ {"N"}
    BY <1>3, Zenon DEF HeadSoFar
  <2>2. c[Len(r) - 2] # "CR" /\ c[Len(r) - 1] = "CR" /\ c[Len(r)] = "LF"
    <3>1. r[Len(r) - 2] # "CR"
      BY <2>1 DEF Lines
    <3>2. r[Len(r) - 1] = "CR" /\ r[Len(r)] = "LF"
      <4>1. (Len(r) - 2) + 1 = Len(r) - 1 /\ (Len(r) - 2) + 2 = Len(r)
        BY <1>0
      <4> QED BY <4>1, <2>1 DEF Blank
    <3> QED BY <1>0, <2>1, <3>1, <3>2
  <2>3. \A i \in DOMAIN c : ~HeadersEnd(c, i)
    <3> SUFFICES ASSUME NEW i \in DOMAIN c, HeadersEnd(c, i) PROVE FALSE
      OBVIOUS
    <3>1. /\ i \in Nat /\ i >= 1 /\ i + 3 <= Len(c)
          /\ c[i] = "CR" /\ c[i + 1] = "LF" /\ c[i + 2] = "CR" /\ c[i + 3] = "LF"
      BY <1>0, EndTokens
    <3>2. ~(i + 3 <= Len(r))
      <4> SUFFICES ASSUME i + 3 <= Len(r) PROVE FALSE
        OBVIOUS
      <4>1. i \in DOMAIN r
        BY <1>0, <3>1
      <4>2. HeadersEnd(r, i)
        BY <3>1, EndsStay
      <4> QED BY <4>1, <4>2, <2>1
    <3>3. i = Len(r) - 2 \/ i = Len(r) - 1 \/ i = Len(r)
      BY <1>0, <3>1, <3>2
    <3>4. i # Len(r) - 2 /\ i # Len(r)
      BY <2>2, <3>1
    <3>5. i = Len(r) - 1 => i + 2 = Len(r) + 1
      BY <1>0
    <3> QED BY <1>0, <3>1, <3>3, <3>4, <3>5
  <2>4. Lines(c) = Lines(r) \cup {Len(r) + 1}
    BY <1>0 DEF Lines
  <2>5. /\ Lines(r) \in SUBSET Nat /\ Lines(r) # {} /\ Lines(c) \in SUBSET Nat /\ Lines(c) # {}
        /\ \A i \in Lines(r) : i \in 1..Len(r) /\ i < Len(r) + 1 /\ c[i] = r[i]
    BY <1>0, <2>1 DEF Lines
  <2>6. /\ Min(Lines(r)) \in Lines(r) /\ \A i \in Lines(r) : Min(Lines(r)) <= i
        /\ Min(Lines(c)) \in Lines(c) /\ \A i \in Lines(c) : Min(Lines(c)) <= i
    BY <2>5, LeastOf
  <2>7. Min(Lines(c)) = Min(Lines(r))
    <3> DEFINE a == Min(Lines(r))
               b == Min(Lines(c))
    <3>1. a \in Nat /\ b \in Nat /\ b <= a /\ a < Len(r) + 1
      BY <2>4, <2>5, <2>6, Zenon
    <3>2. b \in Lines(r)
      BY <1>0, <2>4, <2>6, <3>1
    <3>3. a <= b
      BY <2>6, <3>2
    <3> HIDE DEF a, b
    <3>4. a = b
      BY <3>1, <3>3
    <3> QED BY <3>4 DEF a, b
  <2>8. c[Min(Lines(c))] = "GET" /\ Len(r) + 1 # Min(Lines(r))
    BY <1>0, <2>1, <2>5, <2>6, <2>7
  <2>9. headers \cup ({t} \ {"N"}) = {c[i] : i \in Lines(c) \ {Min(Lines(c))}} \ {"N"}
    <3> DEFINE A == Lines(r) \ {Min(Lines(r))}
    <3>1. Lines(c) \ {Min(Lines(c))} = A \cup {Len(r) + 1}
      BY <2>4, <2>7, <2>8
    <3>2. \A i \in A : c[i] = r[i]
      BY <2>5
    <3>3. {c[i] : i \in A \cup {Len(r) + 1}} = {r[i] : i \in A} \cup {t}
      <4> HIDE DEF A
      <4> QED BY <3>2
    <3> HIDE DEF A
    <3>4. {c[i] : i \in Lines(c) \ {Min(Lines(c))}} = {r[i] : i \in A} \cup {t}
      BY <3>1, <3>3, Zenon
    <3>5. headers = {r[i] : i \in A} \ {"N"}
      BY <2>1, Zenon DEF A
    <3> QED BY <3>4, <3>5, Zenon
  <2> QED BY <1>1, <2>3, <2>8, <2>9 DEF HeadSoFar
<1> QED BY <1>2, <1>3

\* The blank line after the headers.
LEMMA HeadersRead ==
    ASSUME NEW r \in Seq(Token), NEW c \in Seq(Token), Begins(c, r), NEW headers, HeadSoFar(r, headers),
           Len(c) = Len(r) + 2, c[Len(r) + 1] = "CR", c[Len(r) + 2] = "LF"
    PROVE  Agrees(c, headers) /\ \E i \in DOMAIN c : HeadersEnd(c, i)
PROOF
<1> DEFINE E == {i \in DOMAIN c : HeadersEnd(c, i)}
           L == {i \in 1..(Min(E) - 1) : c[i] \notin {"CR", "LF"}}
           ok == E # {} /\ L # {} /\ c[Min(L)] = "GET"
<1>0. /\ Len(r) \in Nat /\ Len(c) \in Nat /\ DOMAIN c = 1..Len(c) /\ DOMAIN r = 1..Len(r)
      /\ \A i \in 1..Len(r) : c[i] = r[i]
  BY DEF Begins
<1>1. parse_http_request(c) =
          [ok |-> ok, headers |-> IF ok THEN {c[i] : i \in L \ {Min(L)}} \ {"N"} ELSE {}]
  BY DEF parse_http_request
<1>2. Len(r) >= 3 /\ Len(r) - 2 \in Lines(r) /\ Blank(r, Len(r) - 2)
  BY DEF HeadSoFar
<1>3. c[Len(r) - 2] # "CR" /\ c[Len(r) - 1] = "CR" /\ c[Len(r)] = "LF"
  <2>1. r[Len(r) - 2] # "CR"
    BY <1>2 DEF Lines
  <2>2. r[Len(r) - 1] = "CR" /\ r[Len(r)] = "LF"
    <3>1. (Len(r) - 2) + 1 = Len(r) - 1 /\ (Len(r) - 2) + 2 = Len(r)
      BY <1>0
    <3> QED BY <3>1, <1>2 DEF Blank
  <2> QED BY <1>0, <1>2, <2>1, <2>2
<1>4. Len(r) - 1 \in E
  <2>1. /\ Len(r) - 1 \in Nat /\ Len(r) - 1 \in 1..Len(c) /\ (Len(r) - 1) + 3 <= Len(c)
        /\ (Len(r) - 1) + 1 = Len(r) /\ (Len(r) - 1) + 2 = Len(r) + 1 /\ (Len(r) - 1) + 3 = Len(r) + 2
    BY <1>0, <1>2
  <2>2. HeadersEnd(c, Len(r) - 1)
    BY <2>1, <1>3, EndTokens
  <2> QED BY <1>0, <2>1, <2>2
<1>5. E \in SUBSET Nat /\ \A i \in E : i >= 1
  BY <1>0
<1>6. Min(E) \in E /\ \A i \in E : Min(E) <= i
  <2> HIDE DEF E
  <2> QED BY <1>4, <1>5, LeastOf
<1>7. CASE HeadersEnd(r, 1)
  <2>1. HeadersEnd(c, 1) /\ 1 \in E
    BY <1>0, <1>2, <1>7, EndsStay
  <2>2. Min(E) = 1
    <3> HIDE DEF E
    <3>1. Min(E) \in Nat /\ Min(E) >= 1 /\ Min(E) <= 1
      BY <1>5, <1>6, <2>1, Zenon
    <3> QED BY <3>1
  <2>3. L = {}
    <3> HIDE DEF E
    <3> QED BY <2>2
  <2>4. ~ok
    BY <2>3, Zenon
  <2> HIDE DEF ok, L
  <2>5. ~parse_http_request(c).ok
    BY <1>1, <2>4
  <2> QED BY <1>4, <2>1, <2>5 DEF Agrees
<1>8. CASE ~HeadersEnd(r, 1)
  <2>1. /\ \A i \in DOMAIN r : ~HeadersEnd(r, i)
        /\ r[Min(Lines(r))] = "GET"
        /\ headers = {r[i] : i \in Lines(r) \ {Min(Lines(r))}} \ {"N"}
    BY <1>8, Zenon DEF HeadSoFar
  <2>2. \A i \in E : i = Len(r) - 1
    <3> SUFFICES ASSUME NEW i \in E PROVE i = Len(r) - 1
      OBVIOUS
    <3>1. /\ i \in Nat /\ i >= 1 /\ i + 3 <= Len(c) /\ HeadersEnd(c, i) /\ c[i] = "CR"
      BY <1>0, EndTokens
    <3>2. ~(i + 3 <= Len(r))
      <4> SUFFICES ASSUME i + 3 <= Len(r) PROVE FALSE
        OBVIOUS
      <4>1. i \in DOMAIN r
        BY <1>0, <3>1
      <4>2. HeadersEnd(r, i)
        BY <3>1, EndsStay
      <4> QED BY <4>1, <4>2, <2>1
    <3>3. i = Len(r) - 2 \/ i = Len(r) - 1
      <4>1. Len(r) \in Nat /\ i \in Nat /\ i + 3 <= Len(r) + 2
        BY <1>0, <3>1
      <4> QED BY <4>1, <3>2
    <3> QED BY <1>3, <3>1, <3>3
  <2>3. Min(E) = Len(r) - 1
    BY <1>6, <2>2
  <2>4. L = Lines(r)
    <3> HIDE DEF E
    <3>1. L = {i \in 1..(Len(r) - 2) : c[i] \notin {"CR", "LF"}}
      BY <1>0, <2>3
    <3>2. 1..Len(r) = (1..(Len(r) - 2)) \cup {Len(r) - 1, Len(r)}
      BY <1>0, <1>2
    <3>3. r[Len(r) - 1] = "CR" /\ r[Len(r)] = "LF"
      BY <1>0, <1>2, <1>3
    <3> HIDE DEF L
    <3>4. \A i \in 1..(Len(r) - 2) : c[i] = r[i]
      BY <1>0
    <3> QED BY <1>0, <3>1, <3>2, <3>3, <3>4 DEF Lines
  <2>5. Lines(r) # {} /\ Min(Lines(r)) \in Lines(r) /\ \A i \in Lines(r) : c[i] = r[i]
    <3>1. Lines(r) # {} /\ Lines(r) \in SUBSET Nat /\ \A i \in Lines(r) : c[i] = r[i]
      BY <1>0, <1>2 DEF Lines
    <3> QED BY <3>1, LeastOf
  <2>6. ok
    <3> HIDE DEF E, L
    <3> QED BY <1>4, <2>1, <2>4, <2>5
  <2>7. {c[i] : i \in L \ {Min(L)}} = {r[i] : i \in Lines(r) \ {Min(Lines(r))}}
    <3> HIDE DEF E, L
    <3> QED BY <2>4, <2>5
  <2> HIDE DEF ok, L
  <2>8. parse_http_request(c).ok /\ parse_http_request(c).headers = headers
    <3>1. parse_http_request(c) = [ok |-> TRUE, headers |-> {c[i] : i \in L \ {Min(L)}} \ {"N"}]
      BY <1>1, <2>6, Zenon
    <3>2. {c[i] : i \in L \ {Min(L)}} \ {"N"} = headers
      BY <2>1, <2>7, Zenon
    <3>3. parse_http_request(c) = [ok |-> TRUE, headers |-> headers]
      BY <3>1, <3>2, Zenon
    <3> QED BY <3>3
  <2>9. ~HeadersEnd(c, 1)
    <3> SUFFICES ASSUME HeadersEnd(c, 1) PROVE FALSE
      OBVIOUS
    <3>1. 1 \in E
      BY <1>0
    <3>2. 1 = Len(r) - 1
      BY <2>2, <3>1, Zenon
    <3> QED BY <3>2, <1>0, <1>2
  <2> QED BY <1>4, <2>8, <2>9 DEF Agrees
<1> QED BY <1>7, <1>8

-----------------------------------------------------------------------------
(* A turn of the loop. *)

\* consume_partial() takes the next tokens of the message.
LEMMA Takes ==
    ASSUME NEW p \in Parser, NEW m \in Message, Follows(p, m),
           NEW n \in 0..Len(p.partial), Len(p.raw) + n <= Len(m)
    PROVE  LET q == consume_partial(p, n)
           IN  /\ q \in Parser /\ Text(q) = Text(p) /\ Begins(q.raw, p.raw)
               /\ Len(q.raw) = Len(p.raw) + n /\ Len(q.partial) = Len(p.partial) - n
               /\ \A j \in 1..n : q.raw[Len(p.raw) + j] = m[Len(p.raw) + j]
               /\ q.state = p.state /\ q.headers = p.headers /\ q.body_read = p.body_read
               /\ q.phase = p.phase /\ q.size = p.size /\ q.read = p.read /\ q.done = p.done
PROOF
<1> DEFINE q == consume_partial(p, n)
           front == SubSeq(p.partial, 1, n)
           raw == p.raw
           partial == p.partial
<1>1. /\ q \in Parser /\ Text(q) = Text(p)
      /\ Len(q.raw) = Len(p.raw) + n /\ Len(q.partial) = Len(p.partial) - n
      /\ q.raw = p.raw \o front
      /\ front \in Seq(Token) /\ Len(front) = n /\ \A i \in 1..n : front[i] = p.partial[i]
      /\ q.state = p.state /\ q.headers = p.headers /\ q.body_read = p.body_read
      /\ q.phase = p.phase /\ q.size = p.size /\ q.read = p.read /\ q.done = p.done
  BY Consumes, Zenon
<1>2. raw \in Seq(Token) /\ partial \in Seq(Token) /\ Len(raw) \in Nat /\ Len(partial) \in Nat /\ Len(m) \in Nat
  <2>1. m \in Seq(Token)
    BY ParserAssumption
  <2>2. raw \in Seq(Token) /\ partial \in Seq(Token)
    BY DEF Parser
  <2> HIDE DEF raw, partial
  <2> QED BY <2>1, <2>2
<1>3. q.raw = raw \o front /\ Len(raw) + n <= Len(m) /\ n \in 0..Len(partial)
  BY <1>1
<1>4. \A j \in 1..Len(partial) : Len(raw) + j <= Len(m) => partial[j] = m[Len(raw) + j]
  BY DEF Follows
<1>5. front \in Seq(Token) /\ Len(front) = n /\ \A i \in 1..n : front[i] = partial[i]
  BY <1>1
<1>6. SUFFICES /\ Begins(q.raw, raw)
               /\ \A j \in 1..n : q.raw[Len(raw) + j] = m[Len(raw) + j]
  BY <1>1, Zenon
<1> HIDE DEF raw, partial, front, q
<1>7. ASSUME NEW j \in 1..n
      PROVE  (raw \o front)[Len(raw) + j] = m[Len(raw) + j]
  <2>1. (raw \o front)[Len(raw) + j] = front[j]
    BY <1>2, <1>5
  <2>2. j \in 1..Len(partial) /\ Len(raw) + j <= Len(m)
    BY <1>2, <1>3
  <2> QED BY <2>1, <2>2, <1>4, <1>5
<1>8. Len(raw) <= Len(raw \o front) /\ \A i \in 1..Len(raw) : (raw \o front)[i] = raw[i]
  BY <1>2, <1>5
<1> QED BY <1>3, <1>7, <1>8, Zenon DEF Begins

\* extract_line() looks at partial_ only.
LEMMA ExtractLine ==
    ASSUME NEW p
    PROVE  extract_line(p) = LineEnd(p.partial)
BY Zenon DEF extract_line, LineEnd

\* A blank line is next.
LEMMA BlankAhead ==
    ASSUME NEW p \in Parser, NEW m \in Message, Follows(p, m), 
           Len(p.raw) + 2 <= Len(m), Blank(m, Len(p.raw))
    PROVE  /\ Len(p.partial) >= 2 => StartsWithCRLF(p) /\ extract_line(p) = 1 
           /\ Len(p.partial) < 2 => ~StartsWithCRLF(p) /\ extract_line(p) = 0
PROOF
<1> DEFINE L == Len(p.raw)
           s == p.partial
<1>1. s \in Seq(Token) /\ L \in Nat /\ Len(m) \in Nat
  <2>1. m \in Seq(Token)
    BY ParserAssumption
  <2> QED BY <2>1 DEF Parser
<1>2. /\ L + 2 <= Len(m) /\ m[L + 1] = "CR" /\ m[L + 2] = "LF"
      /\ \A j \in 1..Len(s) : L + j <= Len(m) => s[j] = m[L + j]
  BY DEF Follows, Blank
<1>3. extract_line(p) = LineEnd(s) /\ (StartsWithCRLF(p) <=> Len(s) >= 2 /\ s[1] = "CR" /\ s[2] = "LF")
  BY ExtractLine DEF StartsWithCRLF
<1>4. SUFFICES /\ Len(s) >= 2 => s[1] = "CR" /\ s[2] = "LF" /\ LineEnd(s) = 1
               /\ Len(s) < 2 => ~(Len(s) >= 2) /\ LineEnd(s) = 0
  BY <1>3, Zenon
<1> HIDE DEF L, s
<1>5. Len(s) \in Nat
  BY <1>1
<1>6. Len(s) >= 1 => s[1] = "CR"
  BY <1>1, <1>2, <1>5
<1>7. Len(s) >= 2 => s[2] = "LF"
  BY <1>1, <1>2, <1>5
<1>8. Len(s) = 0 \/ Len(s) >= 1
  BY <1>5
<1>9. Len(s) >= 2 => Len(s) >= 1
  BY <1>5
<1> QED BY <1>1, <1>5, <1>6, <1>7, <1>8, <1>9, LineEnds

\* A line with t is next.
LEMMA LineAhead ==
    ASSUME NEW p \in Parser, NEW m \in Message, Follows(p, m), NEW t \in Token \ {"CR"},
           Len(p.raw) + 3 <= Len(m), Line(m, Len(p.raw), t)
    PROVE  /\ ~StartsWithCRLF(p)
           /\ Len(p.partial) >= 3 => extract_line(p) = 2 /\ p.partial[1] = t
           /\ Len(p.partial) < 3 => extract_line(p) = 0
PROOF
<1> DEFINE L == Len(p.raw)
           s == p.partial
<1>1. s \in Seq(Token) /\ L \in Nat /\ Len(m) \in Nat
  <2>1. m \in Seq(Token)
    BY ParserAssumption
  <2> QED BY <2>1 DEF Parser
<1>2. /\ L + 3 <= Len(m) /\ m[L + 1] = t /\ m[L + 2] = "CR" /\ m[L + 3] = "LF"
      /\ \A j \in 1..Len(s) : L + j <= Len(m) => s[j] = m[L + j]
  BY DEF Follows, Line
<1>3. extract_line(p) = LineEnd(s) /\ (StartsWithCRLF(p) <=> Len(s) >= 2 /\ s[1] = "CR" /\ s[2] = "LF")
  BY ExtractLine DEF StartsWithCRLF
<1>4. SUFFICES /\ ~(Len(s) >= 2 /\ s[1] = "CR")
               /\ Len(s) >= 3 => LineEnd(s) = 2 /\ s[1] = t
               /\ Len(s) < 3 => LineEnd(s) = 0
  BY <1>3, Zenon
<1> HIDE DEF L, s
<1>5. Len(s) \in Nat
  BY <1>1
<1>6. Len(s) >= 1 => s[1] = t /\ s[1] # "CR"
  BY <1>1, <1>2, <1>5
<1>7. Len(s) >= 2 => s[2] = "CR"
  BY <1>1, <1>2, <1>5
<1>8. Len(s) >= 3 => s[3] = "LF"
  BY <1>1, <1>2, <1>5
<1>9. /\ Len(s) = 0 \/ Len(s) >= 1
      /\ Len(s) >= 2 => Len(s) >= 1
      /\ Len(s) >= 3 => Len(s) >= 1
      /\ Len(s) < 3 => ~(Len(s) >= 3)
  BY <1>5
<1>10. CASE Len(s) = 0
  <2>1. LineEnd(s) = 0
    BY <1>1, <1>10, LineEnds, Zenon
  <2> QED BY <1>10, <2>1
<1>11. CASE Len(s) >= 1
  <2>1. LineEnd(s) = IF Len(s) >= 3 THEN 2 ELSE 0
    BY <1>1, <1>6, <1>7, <1>8, <1>11, LineEnds, Zenon
  <2> QED BY <1>6, <1>9, <1>11, <2>1, Zenon
<1> QED BY <1>9, <1>10, <1>11

\* A turn that takes nothing.
LEMMA Stays ==
    ASSUME NEW p \in Parser, NEW m, Reading(p, m), ~Ended(p),
           NEW d \in BOOLEAN, d => Settled(p) /\ (p.partial = <<>> \/ Blocked(p))
    PROVE  Progress(p, [p EXCEPT !.done = d], m)
PROOF
<1> DEFINE q == [p EXCEPT !.done = d]
<1>1. /\ q \in Parser /\ q.raw = p.raw /\ q.partial = p.partial /\ q.state = p.state
      /\ q.headers = p.headers /\ q.body_read = p.body_read /\ q.phase = p.phase
      /\ q.size = p.size /\ q.read = p.read /\ q.done = d
  BY DEF Parser
<1> HIDE DEF q
<1>2. Len(p.raw) <= Len(q.raw)
  <2>1. Len(p.raw) \in Nat
    BY DEF Parser
  <2> QED BY <1>1, <2>1
<1>3. Text(q) = Text(p) /\ (Ended(q) <=> Ended(p)) /\ (Settled(q) <=> Settled(p))
  BY <1>1, Zenon DEF Text, Ended, Settled
<1>4. Blocked(q) <=> Blocked(p)
  <2>1. extract_line(q) = extract_line(p)
    BY <1>1, ExtractLine, Zenon
  <2> QED BY <1>1, <2>1, Zenon DEF Blocked, StartsWithCRLF
<1>5. Reading(q, m)
  <2>1. Matches(q, Form[m][Len(q.raw)]) <=> Matches(p, Form[m][Len(p.raw)])
    BY <1>1, Zenon DEF Matches
  <2>2. Shape(q) <=> Shape(p)
    BY <1>1, Zenon DEF Shape
  <2> QED BY <1>1, <2>1, <2>2, Zenon DEF Reading
<1>6. Progress(p, q, m)
  BY <1>1, <1>2, <1>3, <1>4, <1>5, Zenon DEF Progress
<1> QED BY <1>6, Zenon DEF q

\* A turn that fails, after it has taken something or not.
LEMMA Fails ==
    ASSUME NEW p \in Parser, NEW q \in Parser, NEW m, Text(q) = Text(p),
           Len(p.raw) <= Len(q.raw), Len(q.raw) <= Len(m), m \in Garbage \/ Len(m) > MaxSize
    PROVE  Progress(p, Fail(q), m)
PROOF
<1> DEFINE r == Fail(q)
<1>1. r \in Parser /\ r.raw = q.raw /\ r.partial = q.partial /\ r.state = "Error" /\ r.done = TRUE
  BY Zenon DEF Fail, Parser
<1> HIDE DEF r
<1>2. Text(r) = Text(p) /\ Ended(r) /\ Settled(r)
  BY <1>1, Zenon DEF Text, Ended, Settled
<1>3. Reading(r, m)
  BY <1>1, Zenon DEF Reading
<1>4. Progress(p, r, m)
  BY <1>1, <1>2, <1>3, Zenon DEF Progress
<1> QED BY <1>4, Zenon DEF r

\* A turn that takes n tokens.
LEMMA Moves ==
    ASSUME NEW p \in Parser, NEW m \in Message, NEW n \in 0..Len(p.partial),
           NEW q \in Parser, Text(q) = Text(p), Len(q.raw) = Len(p.raw) + n, Len(p.raw) + n <= Len(m),
           q.state # "Error", Matches(q, Form[m][Len(p.raw) + n]), Shape(q),
           ~q.done => ~Ended(q),
           q.done => Settled(q) /\ (Ended(q) \/ q.partial = <<>> \/ n > 0)
    PROVE  Progress(p, q, m)
PROOF
<1>1. Len(p.raw) \in Nat /\ n \in Nat
  BY DEF Parser
<1>2. Len(p.raw) <= Len(q.raw) /\ (n > 0 => Len(q.raw) > Len(p.raw))
  BY <1>1
<1>3. Reading(q, m)
  BY Zenon DEF Reading
<1> QED BY <1>2, <1>3, Zenon DEF Progress

\* The place p is at.
LEMMA PlaceOf ==
    ASSUME NEW p \in Parser, NEW m \in Message, Reading(p, m), ~Ended(p)
    PROVE  /\ Len(p.raw) \in 0..Len(m) /\ Len(p.partial) \in Nat /\ Len(p.raw) \in Nat
           /\ Matches(p, Form[m][Len(p.raw)]) /\ Shape(p)
           /\ p.raw \in Seq(Token) /\ m \in Seq(Token)
PROOF
<1>1. m \in Seq(Token)
  BY ParserAssumption
<1>2. p.raw \in Seq(Token) /\ p.partial \in Seq(Token)
  BY DEF Parser
<1>3. Len(p.raw) \in Nat /\ Len(p.partial) \in Nat /\ Len(m) \in Nat
  BY <1>1, <1>2
<1>4. Len(p.raw) <= Len(m) /\ p.state # "Error"
  BY DEF Reading, Ended
<1>5. Len(p.raw) \in 0..Len(m)
  BY <1>3, <1>4
<1> QED BY <1>1, <1>2, <1>3, <1>4, <1>5, Zenon DEF Reading

\* consume_line() on a blank line, and on a line of one token.
LEMMA TakesLine ==
    ASSUME NEW p, NEW n \in {1, 2}, extract_line(p) = n
    PROVE  consume_line(p) = consume_partial(p, n + 1)
BY Zenon DEF consume_line

\* process_request_line().
LEMMA RequestLineTurn ==
    ASSUME NEW p \in Parser, NEW m \in Message, Follows(p, m), Reading(p, m), p.state = "RequestLine",
           p.done = FALSE
    PROVE  Progress(p, process_request_line(p), m)
PROOF
<1> DEFINE L == Len(p.raw)
<1>0. ~Ended(p) /\ Settled(p)
  BY DEF Ended, Settled
<1>1. /\ L \in 0..Len(m) /\ Len(p.partial) \in Nat /\ L \in Nat
      /\ Matches(p, Form[m][L]) /\ Shape(p) /\ p.raw \in Seq(Token) /\ m \in Seq(Token)
  BY <1>0, PlaceOf, Zenon
<1>2. Form[m][L].at = "start" /\ p.headers = {} /\ NoLineYet(p.raw)
  BY <1>1 DEF Matches, Shape
<1>3. ASSUME extract_line(p) = 0 PROVE Progress(p, process_request_line(p), m)
  <2>1. process_request_line(p) = [p EXCEPT !.done = TRUE]
    BY <1>3 DEF process_request_line, Await
  <2>2. Blocked(p)
    BY <1>3 DEF Blocked
  <2> QED BY <1>0, <2>1, <2>2, Stays, Zenon
<1>4. CASE L + 2 <= Len(m) /\ Blank(m, L) /\ Form[m][L + 2] = Form[m][L]
  <2>1. CASE Len(p.partial) >= 2
    <3> DEFINE c == consume_partial(p, 2)
               q == [c EXCEPT !.done = TRUE]
    <3>1. extract_line(p) = 1
      BY <1>4, <2>1, BlankAhead, Zenon
    <3>2. process_request_line(p) = q
      <4>1. consume_line(p) = c
        BY <3>1, TakesLine
      <4> QED BY <3>1, <4>1 DEF process_request_line, Await
    <3>3. 2 \in 0..Len(p.partial)
      BY <1>1, <2>1
    <3>4. /\ c \in Parser /\ Text(c) = Text(p) /\ Begins(c.raw, p.raw) /\ Len(c.raw) = L + 2
          /\ \A j \in 1..2 : c.raw[L + j] = m[L + j]
          /\ c.state = p.state /\ c.headers = p.headers
      BY <1>4, <3>3, Takes, Zenon
    <3> HIDE DEF c
    <3>5. q \in Parser /\ q.raw = c.raw /\ q.partial = c.partial /\ q.state = "RequestLine" /\ q.headers = {} /\ q.done
      BY <1>2, <3>4, Zenon DEF Parser
    <3> HIDE DEF q
    <3>6. c.raw[L + 1] = "CR" /\ c.raw[L + 2] = "LF"
      BY <1>4, <3>4 DEF Blank
    <3>7. c.raw \in Seq(Token)
      BY <3>4 DEF Parser
    <3>8. NoLineYet(q.raw)
      BY <1>1, <1>2, <3>4, <3>5, <3>6, <3>7, BlankBefore, Zenon
    <3>9. Shape(q) /\ Matches(q, Form[m][L + 2]) /\ Settled(q) /\ Text(q) = Text(p)
      <4>1. Shape(q) /\ Settled(q)
        BY <3>5, <3>8 DEF Shape, Settled
      <4>2. Matches(q, Form[m][L + 2])
        BY <1>2, <1>4, <3>5, Zenon DEF Matches
      <4> QED BY <3>4, <3>5, <4>1, <4>2, Zenon DEF Text
    <3>10. Progress(p, q, m)
      BY <1>4, <3>3, <3>4, <3>5, <3>9, Moves
    <3> QED BY <3>2, <3>10
  <2>2. CASE Len(p.partial) < 2
    BY <1>4, <2>2, <1>3, BlankAhead, Zenon
  <2> QED BY <1>1, <2>1, <2>2
<1>5. CASE L + 3 <= Len(m) /\ Line(m, L, "GET") /\ Form[m][L + 3] = At("head", {}, 0)
  <2>1. CASE Len(p.partial) >= 3
    <3> DEFINE c == consume_partial(p, 3)
               q == [c EXCEPT !.state = "Headers"]
    <3>1. extract_line(p) = 2 /\ p.partial[1] = "GET"
      <4>1. "GET" \in Token \ {"CR"}
        BY DEF Token
      <4> QED BY <1>5, <2>1, <4>1, LineAhead, Zenon
    <3>2. process_request_line(p) = q
      <4>1. consume_line(p) = c
        BY <3>1, TakesLine
      <4> QED BY <3>1, <4>1 DEF process_request_line
    <3>3. 3 \in 0..Len(p.partial)
      BY <1>1, <2>1
    <3>4. /\ c \in Parser /\ Text(c) = Text(p) /\ Begins(c.raw, p.raw) /\ Len(c.raw) = L + 3
          /\ \A j \in 1..3 : c.raw[L + j] = m[L + j]
          /\ c.headers = p.headers /\ c.done = p.done
      BY <1>5, <3>3, Takes, Zenon
    <3> HIDE DEF c
    <3>5. /\ q \in Parser /\ q.raw = c.raw /\ q.partial = c.partial /\ q.state = "Headers"
          /\ q.headers = {} /\ q.done = FALSE
      BY <1>2, <3>4, Zenon DEF Parser
    <3> HIDE DEF q
    <3>6. c.raw[L + 1] = "GET" /\ c.raw[L + 2] = "CR" /\ c.raw[L + 3] = "LF"
      BY <1>5, <3>4 DEF Line
    <3>7. c.raw \in Seq(Token)
      BY <3>4 DEF Parser
    <3>8. HeadSoFar(q.raw, {})
      BY <1>1, <1>2, <3>4, <3>5, <3>6, <3>7, RequestLineRead, Zenon
    <3>9. Shape(q) /\ Matches(q, Form[m][L + 3]) /\ ~Ended(q) /\ Text(q) = Text(p)
      <4>1. Shape(q) /\ ~Ended(q)
        BY <3>5, <3>8 DEF Shape, Ended
      <4>2. Form[m][L + 3].at = "head" /\ Form[m][L + 3].headers = {}
        BY <1>5 DEF At
      <4>3. Matches(q, Form[m][L + 3])
        BY <3>5, <4>2, Zenon DEF Matches
      <4> QED BY <3>4, <3>5, <4>1, <4>3, Zenon DEF Text
    <3>10. Progress(p, q, m)
      BY <1>5, <3>3, <3>4, <3>5, <3>9, Moves
    <3> QED BY <3>2, <3>10
  <2>2. CASE Len(p.partial) < 3
    <3>1. "GET" \in Token \ {"CR"}
      BY DEF Token
    <3> QED BY <1>5, <2>2, <1>3, <3>1, LineAhead, Zenon
  <2> QED BY <1>1, <2>1, <2>2
<1>6. CASE m \in Garbage /\ L + 3 <= Len(m) /\ Line(m, L, "XXX")
  <2>0. "XXX" \in Token \ {"CR"}
    BY DEF Token
  <2>1. CASE Len(p.partial) >= 3
    <3>1. extract_line(p) = 2 /\ p.partial[1] = "XXX"
      BY <1>6, <2>0, <2>1, LineAhead, Zenon
    <3>2. process_request_line(p) = Fail(p)
      BY <3>1 DEF process_request_line
    <3>3. Len(p.raw) <= Len(p.raw) /\ Len(p.raw) <= Len(m)
      BY <1>1
    <3>4. Progress(p, Fail(p), m)
      BY <1>6, <3>3, Fails, Zenon
    <3> QED BY <3>2, <3>4
  <2>2. CASE Len(p.partial) < 3
    BY <1>6, <2>0, <2>2, <1>3, LineAhead, Zenon
  <2> QED BY <1>1, <2>1, <2>2
<1> QED BY <1>1, <1>2, <1>4, <1>5, <1>6, StartItem, Zenon

\* process_headers().
LEMMA HeadersTurn ==
    ASSUME NEW p \in Parser, NEW m \in Message, Follows(p, m), Reading(p, m), p.state = "Headers",
           p.done = FALSE
    PROVE  Progress(p, process_headers(p), m)
PROOF
<1> DEFINE L == Len(p.raw)
<1>0. ~Ended(p) /\ Settled(p)
  BY DEF Ended, Settled
<1>1. /\ L \in 0..Len(m) /\ Len(p.partial) \in Nat /\ L \in Nat
      /\ Matches(p, Form[m][L]) /\ Shape(p) /\ p.raw \in Seq(Token) /\ m \in Seq(Token)
  BY <1>0, PlaceOf, Zenon
<1>2. Form[m][L].at = "head" /\ p.headers = Form[m][L].headers /\ HeadSoFar(p.raw, p.headers)
  BY <1>1 DEF Matches, Shape
<1>3. ASSUME ~StartsWithCRLF(p), Len(p.partial) < 2 \/ extract_line(p) = 0
      PROVE  Progress(p, process_headers(p), m)
  <2>1. process_headers(p) = [p EXCEPT !.done = TRUE]
    <3>1. Len(p.partial) < 2 \/ Len(p.partial) >= 2
      BY <1>1
    <3>2. process_headers(p) = Await(p)
      BY <1>1, <1>3, <3>1 DEF process_headers
    <3> QED BY <3>2, Zenon DEF Await
  <2>2. Blocked(p)
    BY <1>3 DEF Blocked
  <2> QED BY <1>0, <2>1, <2>2, Stays, Zenon
<1>4. CASE L + 2 <= Len(m) /\ Blank(m, L) /\ Form[m][L + 2] = AfterHeaders(Form[m][L].headers)
  <2>1. CASE Len(p.partial) >= 2
    <3> DEFINE c == consume_partial(p, 2)
               q == finalize_headers(c)
    <3>1. process_headers(p) = q
      <4>1. StartsWithCRLF(p)
        BY <1>4, <2>1, BlankAhead, Zenon
      <4>2. ~(Len(p.partial) < 2)
        BY <1>1, <2>1
      <4> QED BY <2>1, <4>1, <4>2 DEF process_headers
    <3>3. 2 \in 0..Len(p.partial)
      BY <1>1, <2>1
    <3>4. /\ c \in Parser /\ Text(c) = Text(p) /\ Begins(c.raw, p.raw) /\ Len(c.raw) = L + 2
          /\ \A j \in 1..2 : c.raw[L + j] = m[L + j]
          /\ c.headers = p.headers
      BY <1>4, <3>3, Takes, Zenon
    <3> HIDE DEF c
    <3>5. /\ q \in Parser /\ q.raw = c.raw /\ q.partial = c.partial /\ q.headers = p.headers
          /\ q.done <=> q.state = "Complete" \/ q.partial = <<>>
      BY <3>4, Zenon DEF Parser, finalize_headers, Back
    <3>6. IF "TE" \in p.headers THEN q.state = "ChunkedBody" /\ q.phase = "SizeLine"
          ELSE IF "CL" \in p.headers THEN q.state = "Body" /\ q.body_read = 0
          ELSE q.state = "Complete"
      BY <3>4 DEF Parser, finalize_headers, Back
    <3> HIDE DEF q
    <3>7. c.raw[L + 1] = "CR" /\ c.raw[L + 2] = "LF"
      BY <1>4, <3>4 DEF Blank
    <3>8. c.raw \in Seq(Token)
      BY <3>4 DEF Parser
    <3>9. Agrees(q.raw, q.headers) /\ \E i \in DOMAIN q.raw : HeadersEnd(q.raw, i)
      BY <1>1, <1>2, <3>4, <3>5, <3>7, <3>8, HeadersRead, Zenon
    <3>10. q.state \in {"Body", "ChunkedBody", "Complete"} /\ Settled(q)
      BY <3>6 DEF Settled
    <3>11. Shape(q)
      BY <3>9, <3>10 DEF Shape
    <3>12. Matches(q, Form[m][L + 2])
      BY <1>2, <1>4, <3>6 DEF Matches, AfterHeaders, At, Done, ContentLength
    <3>13. Text(q) = Text(p) /\ q.state # "Error" /\ (~q.done => ~Ended(q)) /\ 2 > 0
      <4>1. Text(q) = Text(p)
        BY <3>4, <3>5, Zenon DEF Text
      <4>2. q.state # "Error" /\ (~q.done => ~Ended(q)) /\ 2 > 0
        BY <3>5, <3>10 DEF Ended
      <4> QED BY <4>1, <4>2
    <3>14. Progress(p, q, m)
      BY <1>4, <3>3, <3>4, <3>5, <3>10, <3>11, <3>12, <3>13, Moves
    <3> QED BY <3>1, <3>14
  <2>2. CASE Len(p.partial) < 2
    BY <1>4, <2>2, <1>3, BlankAhead, Zenon
  <2> QED BY <1>1, <2>1, <2>2
<1>5. ASSUME NEW t \in HeaderLine, L + 3 <= Len(m), Line(m, L, t),
             Form[m][L + 3] = At("head", Form[m][L].headers \cup ({t} \ {"N"}), 0)
      PROVE  Progress(p, process_headers(p), m)
  <2>0. t \in Token \ {"CR"}
    BY DEF Token, HeaderLine
  <2>1. CASE Len(p.partial) >= 3
    <3> DEFINE c == consume_partial(p, 3)
               q == [c EXCEPT !.headers = @ \cup ({t} \ {"N"})]
    <3>1. extract_line(p) = 2 /\ p.partial[1] = t /\ ~StartsWithCRLF(p)
      BY <1>5, <2>0, <2>1, LineAhead, Zenon
    <3>2. process_headers(p) = q
      <4>1. consume_line(p) = c
        BY <3>1, TakesLine
      <4>2. ~(Len(p.partial) < 2) /\ Len(p.partial) >= 2
        BY <1>1, <2>1
      <4> QED BY <3>1, <4>1, <4>2 DEF process_headers
    <3>3. 3 \in 0..Len(p.partial)
      BY <1>1, <2>1
    <3>4. /\ c \in Parser /\ Text(c) = Text(p) /\ Begins(c.raw, p.raw) /\ Len(c.raw) = L + 3
          /\ \A j \in 1..3 : c.raw[L + j] = m[L + j]
          /\ c.headers = p.headers /\ c.done = p.done /\ c.state = p.state
      BY <1>5, <3>3, Takes, Zenon
    <3> HIDE DEF c
    <3>5. /\ q \in Parser /\ q.raw = c.raw /\ q.partial = c.partial /\ q.state = "Headers"
          /\ q.headers = p.headers \cup ({t} \ {"N"}) /\ q.done = FALSE
      BY <2>0, <3>4, Zenon DEF Parser
    <3> HIDE DEF q
    <3>6. c.raw[L + 1] = t /\ c.raw[L + 2] = "CR" /\ c.raw[L + 3] = "LF"
      BY <1>5, <3>4 DEF Line
    <3>7. c.raw \in Seq(Token)
      BY <3>4 DEF Parser
    <3>8. HeadSoFar(q.raw, p.headers \cup ({t} \ {"N"}))
      BY <1>1, <1>2, <3>4, <3>5, <3>6, <3>7, HeaderLineRead, Zenon
    <3>9. Shape(q) /\ Matches(q, Form[m][L + 3]) /\ ~Ended(q) /\ Text(q) = Text(p)
      <4>1. Shape(q) /\ ~Ended(q)
        BY <3>5, <3>8 DEF Shape, Ended
      <4>2. Form[m][L + 3].at = "head" /\ Form[m][L + 3].headers = q.headers
        BY <1>2, <1>5, <3>5 DEF At
      <4>3. Matches(q, Form[m][L + 3])
        BY <3>5, <4>2, Zenon DEF Matches
      <4> QED BY <3>4, <3>5, <4>1, <4>3, Zenon DEF Text
    <3>10. Progress(p, q, m)
      BY <1>5, <3>3, <3>4, <3>5, <3>9, Moves
    <3> QED BY <3>2, <3>10
  <2>2. CASE Len(p.partial) < 3
    BY <1>5, <2>0, <2>2, <1>3, LineAhead, Zenon
  <2> QED BY <1>1, <2>1, <2>2
<1> QED BY <1>1, <1>2, <1>4, <1>5, HeadItem, Zenon

\* The places within a body.
LEMMA BodyPlaces ==
    ASSUME NEW m \in Message, NEW i \in 0..Len(m), Form[m][i].at = "body",
           NEW left \in 1..2, Form[m][i].left = left, NEW n \in 0..left
    PROVE  /\ i + n <= Len(m)
           /\ IF n = left THEN Form[m][i + n].at = "done"
              ELSE Form[m][i + n].at = "body" /\ Form[m][i + n].left = left - n
PROOF
<1>0. Len(m) \in Nat /\ i \in Nat /\ i <= Len(m)
  <2>1. m \in Seq(Token)
    BY ParserAssumption
  <2> QED BY <2>1
<1>1. CASE n = 0
  <2>1. i + n = i /\ n # left /\ left - n = left
    BY <1>0, <1>1
  <2> QED BY <1>0, <2>1
<1>2. /\ i + 1 <= Len(m)
      /\ Form[m][i + 1] = IF left = 1 THEN Done ELSE At("body", {}, left - 1)
  BY BodyItem
<1>3. CASE n = 1
  BY <1>2, <1>3 DEF Done, At
<1>4. CASE n = 2
  <2>1. left = 2 /\ i + 1 \in 0..Len(m) /\ (i + 1) + 1 = i + n
    BY <1>0, <1>2, <1>4
  <2>2. Form[m][i + 1].at = "body" /\ Form[m][i + 1].left = 1
    BY <1>2, <2>1 DEF At
  <2>3. (i + 1) + 1 <= Len(m) /\ Form[m][(i + 1) + 1] = Done
    BY <2>1, <2>2, BodyItem
  <2> QED BY <1>4, <2>1, <2>3 DEF Done, At
<1> QED BY <1>1, <1>3, <1>4

\* The places within a chunk.
LEMMA DataPlaces ==
    ASSUME NEW m \in Message, NEW i \in 0..Len(m), Form[m][i].at = "data",
           NEW left \in 0..2, Form[m][i].left = left, NEW n \in 0..left
    PROVE  /\ i + n <= Len(m)
           /\ Form[m][i + n].at = "data" /\ Form[m][i + n].left = left - n
PROOF
<1>0. Len(m) \in Nat /\ i \in Nat /\ i <= Len(m)
  <2>1. m \in Seq(Token)
    BY ParserAssumption
  <2> QED BY <2>1
<1>1. CASE n = 0
  <2>1. i + n = i /\ left - n = left
    BY <1>0, <1>1
  <2> QED BY <1>0, <2>1
<1>2. ASSUME n > 0
      PROVE  /\ i + 1 <= Len(m)
             /\ Form[m][i + 1].at = "data" /\ Form[m][i + 1].left = left - 1
  <2>1. left > 0
    BY <1>2
  <2>2. i + 1 <= Len(m) /\ Form[m][i + 1] = At("data", {}, left - 1)
    BY <2>1, DataItem
  <2> QED BY <2>2 DEF At
<1>3. CASE n = 1
  BY <1>2, <1>3
<1>4. CASE n = 2
  <2>1. left = 2 /\ n > 0
    BY <1>4
  <2>2. i + 1 \in 0..Len(m) /\ (i + 1) + 1 = i + n
    BY <1>0, <1>2, <1>4, <2>1
  <2>3. Form[m][i + 1].at = "data" /\ Form[m][i + 1].left = 1
    BY <1>2, <2>1
  <2>4. (i + 1) + 1 <= Len(m) /\ Form[m][(i + 1) + 1] = At("data", {}, 1 - 1)
    BY <2>2, <2>3, DataItem
  <2>5. Form[m][i + n].at = "data" /\ Form[m][i + n].left = 0
    BY <2>2, <2>4 DEF At
  <2> QED BY <1>4, <2>1, <2>2, <2>4, <2>5
<1> QED BY <1>1, <1>3, <1>4

\* What the place says of the bytes left.
LEMMA LeftOf ==
    ASSUME NEW m \in Message, NEW i \in 0..Len(m), Form[m][i].at # "inside"
    PROVE  Form[m][i].left \in 0..2
PROOF
<1>1. Form[m][i] \in Place
  BY PlaceHasItem, Zenon
<1> QED BY <1>1 DEF Place

\* process_body().
LEMMA BodyTurn ==
    ASSUME NEW p \in Parser, NEW m \in Message, Follows(p, m), Reading(p, m), p.state = "Body",
           p.done = FALSE
    PROVE  Progress(p, process_body(p), m)
PROOF
<1> DEFINE L == Len(p.raw)
           K == Len(p.partial)
           left == Form[m][L].left
           n == Min({K, ContentLength - p.body_read})
           c == consume_partial(p, n)
           q == process_body(p)
<1>0. ~Ended(p) /\ Settled(p)
  BY DEF Ended, Settled
<1>1. /\ L \in 0..Len(m) /\ K \in Nat /\ L \in Nat
      /\ Matches(p, Form[m][L]) /\ Shape(p) /\ p.raw \in Seq(Token) /\ m \in Seq(Token)
  BY <1>0, PlaceOf, Zenon
<1>2. Form[m][L].at = "body" /\ left > 0 /\ p.body_read + left = ContentLength
  BY <1>1 DEF Matches
<1>3. Agrees(p.raw, p.headers) /\ \E i \in DOMAIN p.raw : HeadersEnd(p.raw, i)
  BY <1>1 DEF Shape
<1>4. left \in 1..2 /\ p.body_read \in Nat
  <2>1. left \in 0..2
    BY <1>1, <1>2, LeftOf
  <2>2. p.body_read \in Nat
    BY DEF Parser
  <2> HIDE DEF left
  <2> QED BY <1>2, <2>1, <2>2
<1>5. ContentLength - p.body_read = left
  <2> HIDE DEF left
  <2> QED BY <1>2, <1>4 DEF ContentLength
<1>6. n \in 0..K /\ n \in 0..left /\ (n < left => n = K) /\ n \in Nat
  <2>1. n = IF K <= left THEN K ELSE left
    BY <1>1, <1>4, <1>5, LesserOf
  <2> HIDE DEF n, K, left
  <2> QED BY <1>1, <1>4, <2>1
<1>7. /\ L + n <= Len(m)
      /\ IF n = left THEN Form[m][L + n].at = "done"
         ELSE Form[m][L + n].at = "body" /\ Form[m][L + n].left = left - n
  <2> HIDE DEF n
  <2> QED BY <1>1, <1>2, <1>4, <1>6, BodyPlaces
<1> HIDE DEF n
<1>8. /\ c \in Parser /\ Text(c) = Text(p) /\ Begins(c.raw, p.raw)
      /\ Len(c.raw) = L + n /\ Len(c.partial) = K - n
      /\ c.headers = p.headers /\ c.body_read = p.body_read
  BY <1>6, <1>7, Takes, Zenon
<1>9. q = Back([c EXCEPT !.body_read = @ + n,
                         !.state = IF c.body_read + n >= ContentLength THEN "Complete" ELSE "Body"])
  BY <1>8 DEF process_body, n, Parser
<1> HIDE DEF c, q
<1>10. /\ q \in Parser /\ q.raw = c.raw /\ q.partial = c.partial /\ q.headers = p.headers
       /\ q.body_read = p.body_read + n
       /\ q.state = IF p.body_read + n >= ContentLength THEN "Complete" ELSE "Body"
       /\ q.done <=> q.state = "Complete" \/ q.partial = <<>>
  <2> DEFINE b == c.body_read + n
             e == IF c.body_read + n >= ContentLength THEN "Complete" ELSE "Body"
  <2>1. b \in Nat /\ e \in {"Complete", "Body"} /\ b = p.body_read + n
    BY <1>4, <1>6, <1>8
  <2>2. e = IF p.body_read + n >= ContentLength THEN "Complete" ELSE "Body"
    BY <1>8
  <2>3. q = Back([c EXCEPT !.body_read = b, !.state = e])
    BY <1>8, <1>9 DEF Parser
  <2> HIDE DEF b, e
  <2>4. /\ q \in Parser /\ q.raw = c.raw /\ q.partial = c.partial /\ q.headers = c.headers
        /\ q.body_read = b /\ q.state = e
        /\ q.done <=> q.state = "Complete" \/ q.partial = <<>>
    BY <1>8, <2>1, <2>3, Zenon DEF Back, Parser
  <2> QED BY <1>8, <2>1, <2>2, <2>4
<1>11. q.state = IF n = left THEN "Complete" ELSE "Body"
  <2>1. p.body_read + n >= ContentLength <=> n = left
    <3> HIDE DEF left
    <3> QED BY <1>2, <1>4, <1>6 DEF ContentLength
  <2> QED BY <1>10, <2>1
<1>12. Matches(q, Form[m][L + n])
  <2>1. CASE n = left
    BY <1>7, <1>11, <2>1 DEF Matches
  <2>2. CASE n # left
    <3>1. left - n > 0 /\ (p.body_read + n) + (left - n) = ContentLength
      <4> HIDE DEF left
      <4> QED BY <1>2, <1>4, <1>6, <2>2
    <3> QED BY <1>7, <1>10, <1>11, <2>2, <3>1 DEF Matches
  <2> QED BY <2>1, <2>2
<1>13. Shape(q)
  <2>1. c.raw \in Seq(Token)
    BY <1>8 DEF Parser
  <2>2. Agrees(c.raw, p.headers) /\ \E i \in DOMAIN c.raw : HeadersEnd(c.raw, i)
    BY <1>1, <1>3, <1>8, <2>1, AgreesStays, Zenon
  <2> QED BY <1>10, <1>11, <2>2 DEF Shape
<1>14. Text(q) = Text(p) /\ Len(q.raw) = L + n
  BY <1>8, <1>10, Zenon DEF Text
<1>15. q.state # "Error" /\ (~q.done => ~Ended(q)) /\ (q.done => Ended(q) \/ q.partial = <<>>) /\ Settled(q)
  BY <1>10, <1>11 DEF Ended, Settled
<1>16. Progress(p, q, m)
  BY <1>6, <1>7, <1>10, <1>12, <1>13, <1>14, <1>15, Moves
<1> QED BY <1>16 DEF q

\* A turn that finds too little input for a line of a chunked body: it does
\* not return unless there is none at all.
LEMMA ChunkWaits ==
    ASSUME NEW p \in Parser, NEW m, Reading(p, m), ~Ended(p), Settled(p)
    PROVE  Progress(p, Back(p), m)
PROOF
<1> DEFINE d == p.state \in {"Complete", "Error"} \/ p.partial = <<>>
<1>1. Back(p) = [p EXCEPT !.done = d]
  BY DEF Back
<1>2. d \in BOOLEAN
  OBVIOUS
<1>3. d => Settled(p) /\ (p.partial = <<>> \/ Blocked(p))
  BY Zenon DEF Ended
<1> HIDE DEF d
<1>4. Progress(p, [p EXCEPT !.done = d], m)
  BY <1>2, <1>3, Stays
<1> QED BY <1>1, <1>4

\* A turn that takes n tokens of a chunked body, and sets what it reads next.
LEMMA ChunkMoves ==
    ASSUME NEW p \in Parser, NEW m \in Message, Reading(p, m), p.state = "ChunkedBody", p.done = FALSE,
           NEW n \in 0..Len(p.partial), Len(p.raw) + n <= Len(m), Follows(p, m),
           NEW q \in Parser,
           q.raw = consume_partial(p, n).raw, q.partial = consume_partial(p, n).partial,
           q.headers = p.headers, q.state = "ChunkedBody",
           q.done => Settled(q) /\ q.partial = <<>>,
           Matches(q, Form[m][Len(p.raw) + n])
    PROVE  Progress(p, q, m)
PROOF
<1> DEFINE c == consume_partial(p, n)
<1>0. ~Ended(p) /\ ~Ended(q) /\ q.state # "Error"
  BY DEF Ended
<1>1. Shape(p) /\ p.raw \in Seq(Token)
  BY <1>0, PlaceOf, Zenon
<1>2. Agrees(p.raw, p.headers) /\ \E i \in DOMAIN p.raw : HeadersEnd(p.raw, i)
  BY <1>1 DEF Shape
<1>3. c \in Parser /\ Text(c) = Text(p) /\ Begins(c.raw, p.raw) /\ Len(c.raw) = Len(p.raw) + n
  BY Takes, Zenon
<1>4. q.raw = c.raw /\ q.partial = c.partial
  OBVIOUS
<1> HIDE DEF c
<1>5. c.raw \in Seq(Token)
  BY <1>3 DEF Parser
<1>6. Agrees(c.raw, p.headers) /\ \E i \in DOMAIN c.raw : HeadersEnd(c.raw, i)
  BY <1>1, <1>2, <1>3, <1>5, AgreesStays, Zenon
<1>7. Shape(q)
  BY <1>4, <1>6 DEF Shape
<1>8. Text(q) = Text(p) /\ Len(q.raw) = Len(p.raw) + n
  BY <1>3, <1>4, Zenon DEF Text
<1> QED BY <1>0, <1>7, <1>8, Moves, Zenon

\* process_chunked(), the size line of a chunk.
LEMMA SizeTurn ==
    ASSUME NEW p \in Parser, NEW m \in Message, Follows(p, m), Reading(p, m), p.state = "ChunkedBody",
           p.phase = "SizeLine", p.done = FALSE
    PROVE  Progress(p, SizeLine(p), m)
PROOF
<1> DEFINE L == Len(p.raw)
           sz == parse_hex(p.partial[1])
<1>0. ~Ended(p) /\ Settled(p)
  BY DEF Ended, Settled
<1>1. /\ L \in 0..Len(m) /\ Len(p.partial) \in Nat /\ L \in Nat
      /\ Matches(p, Form[m][L]) /\ Shape(p) /\ p.raw \in Seq(Token) /\ m \in Seq(Token)
  BY <1>0, PlaceOf, Zenon
<1>2. Form[m][L].at = "size"
  BY <1>1 DEF Matches
<1>3. ASSUME extract_line(p) = 0 PROVE Progress(p, SizeLine(p), m)
  <2>1. SizeLine(p) = Back(p)
    BY <1>3 DEF SizeLine
  <2>2. Progress(p, Back(p), m)
    BY <1>0, ChunkWaits
  <2> QED BY <2>1, <2>2
<1>4. ASSUME NEW t \in DOMAIN ChunkSize, L + 3 <= Len(m), Line(m, L, t),
             Form[m][L + 3] = IF t = "0" THEN At("trailer", {}, 0) ELSE At("data", {}, ChunkSize[t])
      PROVE  Progress(p, SizeLine(p), m)
  <2>0. t \in Token \ {"CR"} /\ t \in {"0", "1", "2"}
    BY DEF Token, ChunkSize
  <2>1. CASE Len(p.partial) >= 3
    <3> DEFINE c == consume_partial(p, 3)
               q == [c EXCEPT !.size = sz]
    <3>1. extract_line(p) = 2 /\ p.partial[1] = t
      BY <1>4, <2>0, <2>1, LineAhead, Zenon
    <3>2. sz = ChunkSize[t] /\ sz \in 0..2 /\ (sz = 0 <=> t = "0")
      BY <2>0, <3>1 DEF parse_hex, ChunkSize
    <3>3. 3 \in 0..Len(p.partial)
      BY <1>1, <2>1
    <3>4. c \in Parser /\ Text(c) = Text(p) /\ Len(c.raw) = L + 3
          /\ c.headers = p.headers /\ c.done = p.done /\ c.state = p.state
      BY <1>4, <3>3, Takes, Zenon
    <3>5. consume_line(p) = c
      BY <3>1, TakesLine
    <3> HIDE DEF sz
    <3>6. SizeLine(p) = IF sz = 0 THEN [q EXCEPT !.phase = "Trailer"]
                        ELSE LET d == check_size_limit(q)
                             IN  IF d.done THEN d ELSE [d EXCEPT !.phase = "Data", !.read = 0]
      <4>1. extract_line(p) # 0 /\ extract_line(p) > 0 /\ sz # -1 /\ (sz # 0 => sz > 0)
        BY <3>1, <3>2
      <4> HIDE DEF c, q
      <4> QED BY <3>5, <4>1 DEF SizeLine, sz, q
    <3>7. c.raw = consume_partial(p, 3).raw /\ c.partial = consume_partial(p, 3).partial
      OBVIOUS
    <3> HIDE DEF c
    <3>8. /\ q \in Parser /\ q.raw = c.raw /\ q.partial = c.partial /\ q.headers = p.headers
          /\ q.state = "ChunkedBody" /\ q.size = sz /\ q.done = FALSE
      <4>1. sz \in Nat
        BY <3>2
      <4> QED BY <3>4, <4>1, Zenon DEF Parser
    <3> HIDE DEF q
    <3>9. CASE sz = 0
      <4> DEFINE r == [q EXCEPT !.phase = "Trailer"]
      <4>1. /\ r \in Parser /\ r.raw = c.raw /\ r.partial = c.partial /\ r.headers = p.headers
            /\ r.state = "ChunkedBody" /\ r.phase = "Trailer" /\ r.done = FALSE
        BY <3>8, Zenon DEF Parser
      <4>2. SizeLine(p) = r
        BY <3>6, <3>9
      <4> HIDE DEF r
      <4>3. Matches(r, Form[m][L + 3])
        BY <1>4, <3>2, <3>9, <4>1 DEF Matches, At
      <4>4. Progress(p, r, m)
        BY <1>4, <3>3, <3>7, <4>1, <4>3, ChunkMoves, Zenon
      <4> QED BY <4>2, <4>4
    <3>10. CASE sz # 0 /\ Len(q.raw) > MaxSize
      <4>1. check_size_limit(q) = Fail(q) /\ Fail(q).done = TRUE
        BY <3>8, <3>10 DEF check_size_limit, Fail, Parser
      <4>2. SizeLine(p) = Fail(q)
        BY <3>6, <3>10, <4>1
      <4>3. Text(q) = Text(p) /\ Len(q.raw) = L + 3
        BY <3>4, <3>8, Zenon DEF Text
      <4>4. L <= Len(q.raw) /\ Len(q.raw) <= Len(m) /\ Len(m) > MaxSize
        <5>1. Len(m) \in Nat /\ MaxSize \in Nat
          BY <1>1, ParserAssumption
        <5> QED BY <1>1, <1>4, <3>10, <4>3, <5>1
      <4>5. Progress(p, Fail(q), m)
        BY <3>8, <4>3, <4>4, Fails
      <4> QED BY <4>2, <4>5
    <3>11. CASE sz # 0 /\ ~(Len(q.raw) > MaxSize)
      <4> DEFINE r == [q EXCEPT !.phase = "Data", !.read = 0]
      <4>1. /\ r \in Parser /\ r.raw = c.raw /\ r.partial = c.partial /\ r.headers = p.headers
            /\ r.state = "ChunkedBody" /\ r.phase = "Data" /\ r.done = FALSE /\ r.read = 0 /\ r.size = sz
        BY <3>8, Zenon DEF Parser
      <4>2. SizeLine(p) = r
        BY <3>6, <3>8, <3>11, Zenon DEF check_size_limit
      <4> HIDE DEF r
      <4>3. Form[m][L + 3].at = "data" /\ Form[m][L + 3].left = sz
        BY <1>4, <3>2, <3>11 DEF At
      <4>4. Matches(r, Form[m][L + 3])
        BY <3>2, <4>1, <4>3 DEF Matches
      <4>5. Progress(p, r, m)
        BY <1>4, <3>3, <3>7, <4>1, <4>4, ChunkMoves, Zenon
      <4> QED BY <4>2, <4>5
    <3> QED BY <3>9, <3>10, <3>11
  <2>2. CASE Len(p.partial) < 3
    BY <1>4, <2>0, <2>2, <1>3, LineAhead, Zenon
  <2> QED BY <1>1, <2>1, <2>2
<1>5. CASE m \in Garbage /\ L + 3 <= Len(m) /\ Line(m, L, "zz")
  <2>0. "zz" \in Token \ {"CR"}
    BY DEF Token
  <2>1. CASE Len(p.partial) >= 3
    <3>1. extract_line(p) = 2 /\ p.partial[1] = "zz"
      BY <1>5, <2>0, <2>1, LineAhead, Zenon
    <3>2. sz = -1
      BY <3>1 DEF parse_hex
    <3>3. SizeLine(p) = Fail(p)
      <4>1. extract_line(p) # 0 /\ extract_line(p) > 0 /\ sz # 0 /\ ~(sz > 0)
        BY <3>1, <3>2
      <4> HIDE DEF sz
      <4> QED BY <3>2, <4>1 DEF SizeLine, sz
    <3>4. Len(p.raw) <= Len(p.raw) /\ Len(p.raw) <= Len(m)
      BY <1>1
    <3>5. Progress(p, Fail(p), m)
      BY <1>5, <3>4, Fails, Zenon
    <3> QED BY <3>3, <3>5
  <2>2. CASE Len(p.partial) < 3
    BY <1>5, <2>0, <2>2, <1>3, LineAhead, Zenon
  <2> QED BY <1>1, <2>1, <2>2
<1> QED BY <1>1, <1>2, <1>4, <1>5, SizeItem, Zenon

\* Something else than a blank line is next.
LEMMA NoBlankAhead ==
    ASSUME NEW p \in Parser, NEW m \in Message, Follows(p, m),
           Len(p.raw) + 2 <= Len(m), ~Blank(m, Len(p.raw))
    PROVE  ~StartsWithCRLF(p)
PROOF
<1> DEFINE L == Len(p.raw)
           s == p.partial
<1>1. s \in Seq(Token) /\ L \in Nat /\ Len(m) \in Nat
  <2>1. m \in Seq(Token)
    BY ParserAssumption
  <2> QED BY <2>1 DEF Parser
<1>2. /\ L + 2 <= Len(m) /\ ~(m[L + 1] = "CR" /\ m[L + 2] = "LF")
      /\ \A j \in 1..Len(s) : L + j <= Len(m) => s[j] = m[L + j]
  BY DEF Follows, Blank
<1>3. SUFFICES ASSUME Len(s) >= 2, s[1] = "CR", s[2] = "LF" PROVE FALSE
  BY DEF StartsWithCRLF
<1> HIDE DEF L, s
<1>4. Len(s) \in Nat
  BY <1>1
<1>5. s[1] = m[L + 1] /\ s[2] = m[L + 2]
  BY <1>1, <1>2, <1>3, <1>4
<1> QED BY <1>2, <1>3, <1>5

\* process_chunked(), a chunk.
LEMMA DataTurn ==
    ASSUME NEW p \in Parser, NEW m \in Message, Follows(p, m), Reading(p, m), p.state = "ChunkedBody",
           p.phase = "Data", p.done = FALSE
    PROVE  Progress(p, Data(p), m)
PROOF
<1> DEFINE L == Len(p.raw)
           K == Len(p.partial)
           left == Form[m][L].left
           n == Min({K, p.size - p.read})
           c == consume_partial(p, n)
           q == [c EXCEPT !.read = @ + n]
<1>0. ~Ended(p) /\ Settled(p)
  BY DEF Ended, Settled
<1>1. /\ L \in 0..Len(m) /\ K \in Nat /\ L \in Nat
      /\ Matches(p, Form[m][L]) /\ Shape(p) /\ p.raw \in Seq(Token) /\ m \in Seq(Token)
  BY <1>0, PlaceOf, Zenon
<1>2. Form[m][L].at = "data" /\ p.read + left = p.size
  BY <1>1 DEF Matches
<1>3. left \in 0..2 /\ p.read \in Nat /\ p.size \in Nat /\ p.size - p.read = left
  <2>1. left \in 0..2
    BY <1>1, <1>2, LeftOf
  <2>2. p.read \in Nat /\ p.size \in Nat
    BY DEF Parser
  <2> HIDE DEF left
  <2> QED BY <1>2, <2>1, <2>2
<1>4. ASSUME left = 0 PROVE Progress(p, Data(p), m)
  <2>1. /\ L + 2 <= Len(m)
        /\ \/ Blank(m, L) /\ Form[m][L + 2] = At("size", {}, 0)
           \/ m \in Garbage /\ ~Blank(m, L)
    BY <1>1, <1>2, <1>4, ChunkEndItem
  <2>2. CASE K < 2
    <3>1. Data(p) = Back(p)
      BY <1>3, <1>4, <2>2 DEF Data
    <3>2. Progress(p, Back(p), m)
      BY <1>0, ChunkWaits
    <3> QED BY <3>1, <3>2
  <2>3. CASE K >= 2 /\ Blank(m, L) /\ Form[m][L + 2] = At("size", {}, 0)
    <3> DEFINE r == [consume_partial(p, 2) EXCEPT !.phase = "SizeLine"]
    <3>1. StartsWithCRLF(p)
      BY <2>1, <2>3, BlankAhead, Zenon
    <3>2. Data(p) = r
      <4>1. ~(K < 2) /\ ~(p.size - p.read > 0) /\ p.size - p.read = 0
        BY <1>1, <1>3, <1>4, <2>3
      <4> QED BY <2>3, <3>1, <4>1 DEF Data
    <3>3. 2 \in 0..K
      BY <1>1, <2>3
    <3>4. /\ consume_partial(p, 2) \in Parser /\ consume_partial(p, 2).headers = p.headers
          /\ consume_partial(p, 2).state = p.state /\ consume_partial(p, 2).done = p.done
      BY <2>1, <3>3, Takes, Zenon
    <3>5. /\ r \in Parser /\ r.raw = consume_partial(p, 2).raw /\ r.partial = consume_partial(p, 2).partial
          /\ r.headers = p.headers /\ r.state = "ChunkedBody" /\ r.phase = "SizeLine" /\ r.done = FALSE
      BY <3>4, Zenon DEF Parser
    <3> HIDE DEF r
    <3>6. Matches(r, Form[m][L + 2])
      BY <2>3, <3>5 DEF Matches, At
    <3>7. Progress(p, r, m)
      BY <2>1, <3>3, <3>5, <3>6, ChunkMoves, Zenon
    <3> QED BY <3>2, <3>7
  <2>4. CASE K >= 2 /\ m \in Garbage /\ ~Blank(m, L)
    <3>1. ~StartsWithCRLF(p)
      BY <2>1, <2>4, NoBlankAhead, Zenon
    <3>2. Data(p) = Fail(p)
      <4>1. ~(K < 2) /\ ~(p.size - p.read > 0) /\ p.size - p.read = 0
        BY <1>1, <1>3, <1>4, <2>4
      <4> QED BY <2>4, <3>1, <4>1 DEF Data
    <3>3. Len(p.raw) <= Len(p.raw) /\ Len(p.raw) <= Len(m)
      BY <1>1
    <3>4. Progress(p, Fail(p), m)
      BY <2>4, <3>3, Fails, Zenon
    <3> QED BY <3>2, <3>4
  <2>5. K < 2 \/ K >= 2
    BY <1>1
  <2> QED BY <2>1, <2>2, <2>3, <2>4, <2>5
<1>5. ASSUME left > 0 PROVE Progress(p, Data(p), m)
  <2>1. n \in 0..K /\ n \in 0..left /\ (n < left => n = K) /\ n \in Nat
    <3>1. n = IF K <= left THEN K ELSE left
      <4>1. p.size - p.read = left
        BY <1>3, Zenon
      <4>2. n = Min({K, left})
        BY <4>1, Zenon
      <4> HIDE DEF n, K, left
      <4>3. K \in Nat /\ left \in Nat
        BY <1>1, <1>3
      <4> QED BY <4>2, <4>3, LesserOf
    <3> HIDE DEF n, K, left
    <3> QED BY <1>1, <1>3, <3>1
  <2>2. Data(p) = LET d == check_size_limit(q) IN IF d.done \/ d.read >= d.size THEN d ELSE Back(d)
    <3>1. p.size - p.read # 0 /\ p.size - p.read > 0
      BY <1>3, <1>5
    <3> QED BY <3>1 DEF Data
  <2> HIDE DEF n
  <2>3. L + n <= Len(m) /\ Form[m][L + n].at = "data" /\ Form[m][L + n].left = left - n
    BY <1>1, <1>2, <1>3, <2>1, DataPlaces, Zenon
  <2>4. /\ c \in Parser /\ Text(c) = Text(p) /\ Len(c.raw) = L + n /\ Len(c.partial) = K - n
        /\ c.headers = p.headers /\ c.state = p.state /\ c.phase = p.phase
        /\ c.size = p.size /\ c.read = p.read /\ c.done = p.done
    BY <2>1, <2>3, Takes, Zenon
  <2>5. c.raw = consume_partial(p, n).raw /\ c.partial = consume_partial(p, n).partial
    OBVIOUS
  <2> HIDE DEF c
  <2>6. /\ q \in Parser /\ q.raw = c.raw /\ q.partial = c.partial /\ q.headers = p.headers
        /\ q.state = "ChunkedBody" /\ q.phase = "Data" /\ q.done = FALSE
        /\ q.read = p.read + n /\ q.size = p.size
    <3> DEFINE b == c.read + n
    <3>1. b \in Nat /\ b = p.read + n
      BY <1>3, <2>1, <2>4
    <3>2. q = [c EXCEPT !.read = b]
      BY <2>4 DEF Parser
    <3> HIDE DEF b, q
    <3> QED BY <2>4, <3>1, <3>2, Zenon DEF Parser
  <2> HIDE DEF q
  <2>7. CASE Len(q.raw) > MaxSize
    <3>1. check_size_limit(q) = Fail(q) /\ Fail(q).done = TRUE
      BY <2>6, <2>7 DEF check_size_limit, Fail, Parser
    <3>2. Data(p) = Fail(q)
      BY <2>2, <3>1
    <3>3. Text(q) = Text(p) /\ Len(q.raw) = L + n
      BY <2>4, <2>6, Zenon DEF Text
    <3>4. L <= Len(q.raw) /\ Len(q.raw) <= Len(m) /\ Len(m) > MaxSize
      <4>1. Len(m) \in Nat /\ MaxSize \in Nat
        BY <1>1, ParserAssumption
      <4> QED BY <1>1, <2>1, <2>3, <2>7, <3>3, <4>1
    <3>5. Progress(p, Fail(q), m)
      BY <2>6, <3>3, <3>4, Fails
    <3> QED BY <3>2, <3>5
  <2>8. CASE ~(Len(q.raw) > MaxSize)
    <3> DEFINE d == ~(q.read >= q.size)
               r == [q EXCEPT !.done = d]
    <3>1. check_size_limit(q) = q
      BY <2>8 DEF check_size_limit
    <3>2. q.read >= q.size <=> n = left
      <4> HIDE DEF left
      <4> QED BY <1>2, <1>3, <2>1, <2>6
    <3>3. d => q.partial = <<>>
      <4> SUFFICES ASSUME d PROVE q.partial = <<>>
        OBVIOUS
      <4>1. n = K
        BY <1>3, <2>1, <3>2
      <4>2. Len(c.partial) = 0
        BY <1>1, <2>4, <4>1
      <4>3. c.partial \in Seq(Token)
        BY <2>4 DEF Parser
      <4> QED BY <2>6, <4>2, <4>3
    <3>4. Data(p) = r
      <4>1. CASE q.read >= q.size
        <5>1. Data(p) = q
          BY <2>2, <3>1, <4>1
        <5>2. r = q
          BY <2>6, <4>1 DEF Parser
        <5> QED BY <5>1, <5>2
      <4>2. CASE ~(q.read >= q.size)
        <5>1. Data(p) = Back(q)
          BY <2>2, <2>6, <3>1, <4>2
        <5>2. q.partial = <<>>
          BY <3>3, <4>2
        <5> QED BY <4>2, <5>1, <5>2 DEF Back
      <4> QED BY <4>1, <4>2
    <3>5. /\ r \in Parser /\ r.raw = c.raw /\ r.partial = c.partial /\ r.headers = p.headers
          /\ r.state = "ChunkedBody" /\ r.phase = "Data" /\ r.done = d
          /\ r.read = p.read + n /\ r.size = p.size
      BY <2>6, Zenon DEF Parser
    <3>6. r.done => Settled(r) /\ r.partial = <<>>
      BY <2>6, <3>3, <3>5, Zenon DEF Settled
    <3> HIDE DEF r, d
    <3>7. Matches(r, Form[m][L + n])
      <4>1. (p.read + n) + (left - n) = p.size
        <5> HIDE DEF left
        <5> QED BY <1>2, <1>3, <2>1
      <4> QED BY <2>3, <3>5, <4>1 DEF Matches
    <3>8. Progress(p, r, m)
      BY <2>1, <2>3, <2>5, <3>5, <3>6, <3>7, ChunkMoves, Zenon
    <3> QED BY <3>4, <3>8
  <2> QED BY <2>7, <2>8
<1>6. left = 0 \/ left > 0
  BY <1>3
<1> QED BY <1>4, <1>5, <1>6

\* process_chunked(), the trailer.
LEMMA TrailerTurn ==
    ASSUME NEW p \in Parser, NEW m \in Message, Follows(p, m), Reading(p, m), p.state = "ChunkedBody",
           p.phase = "Trailer", p.done = FALSE
    PROVE  Progress(p, Trailer(p), m)
PROOF
<1> DEFINE L == Len(p.raw)
<1>0. ~Ended(p) /\ Settled(p)
  BY DEF Ended, Settled
<1>1. /\ L \in 0..Len(m) /\ Len(p.partial) \in Nat /\ L \in Nat
      /\ Matches(p, Form[m][L]) /\ Shape(p) /\ p.raw \in Seq(Token) /\ m \in Seq(Token)
  BY <1>0, PlaceOf, Zenon
<1>2. Form[m][L].at = "trailer"
  BY <1>1 DEF Matches
<1>3. ASSUME ~StartsWithCRLF(p), Len(p.partial) < 2 \/ extract_line(p) = 0
      PROVE  Progress(p, Trailer(p), m)
  <2>1. Len(p.partial) < 2 \/ Len(p.partial) >= 2
    BY <1>1
  <2>2. Trailer(p) = Back(p)
    BY <1>1, <1>3, <2>1 DEF Trailer
  <2>3. Progress(p, Back(p), m)
    BY <1>0, ChunkWaits
  <2> QED BY <2>2, <2>3
<1>4. CASE L + 2 <= Len(m) /\ Blank(m, L) /\ Form[m][L + 2] = Done
  <2>1. CASE Len(p.partial) >= 2
    <3> DEFINE r == [consume_partial(p, 2) EXCEPT !.phase = "End"]
    <3>1. StartsWithCRLF(p)
      BY <1>4, <2>1, BlankAhead, Zenon
    <3>2. Trailer(p) = r
      <4>1. ~(Len(p.partial) < 2)
        BY <1>1, <2>1
      <4> QED BY <2>1, <3>1, <4>1 DEF Trailer
    <3>3. 2 \in 0..Len(p.partial)
      BY <1>1, <2>1
    <3>4. /\ consume_partial(p, 2) \in Parser /\ consume_partial(p, 2).headers = p.headers
          /\ consume_partial(p, 2).state = p.state /\ consume_partial(p, 2).done = p.done
      BY <1>4, <3>3, Takes, Zenon
    <3>5. /\ r \in Parser /\ r.raw = consume_partial(p, 2).raw /\ r.partial = consume_partial(p, 2).partial
          /\ r.headers = p.headers /\ r.state = "ChunkedBody" /\ r.phase = "End" /\ r.done = FALSE
      BY <3>4, Zenon DEF Parser
    <3> HIDE DEF r
    <3>6. Matches(r, Form[m][L + 2])
      BY <1>4, <3>5 DEF Matches, Done, At
    <3>7. Progress(p, r, m)
      BY <1>4, <3>3, <3>5, <3>6, ChunkMoves, Zenon
    <3> QED BY <3>2, <3>7
  <2>2. CASE Len(p.partial) < 2
    BY <1>4, <2>2, <1>3, BlankAhead, Zenon
  <2> QED BY <1>1, <2>1, <2>2
<1>5. ASSUME NEW t \in Token \ {"CR"}, L + 3 <= Len(m), Line(m, L, t), Form[m][L + 3] = Form[m][L]
      PROVE  Progress(p, Trailer(p), m)
  <2>1. CASE Len(p.partial) >= 3
    <3> DEFINE r == consume_partial(p, 3)
    <3>1. extract_line(p) = 2 /\ ~StartsWithCRLF(p)
      BY <1>5, <2>1, LineAhead, Zenon
    <3>2. Trailer(p) = r
      <4>1. consume_line(p) = r
        BY <3>1, TakesLine
      <4>2. ~(Len(p.partial) < 2) /\ Len(p.partial) >= 2 /\ extract_line(p) # 0
        BY <1>1, <2>1, <3>1
      <4> QED BY <3>1, <4>1, <4>2 DEF Trailer
    <3>3. 3 \in 0..Len(p.partial)
      BY <1>1, <2>1
    <3>4. r \in Parser /\ r.headers = p.headers /\ r.state = p.state /\ r.phase = p.phase /\ r.done = p.done
      BY <1>5, <3>3, Takes, Zenon
    <3>5. r.raw = consume_partial(p, 3).raw /\ r.partial = consume_partial(p, 3).partial
      OBVIOUS
    <3> HIDE DEF r
    <3>6. Matches(r, Form[m][L + 3])
      BY <1>2, <1>5, <3>4, Zenon DEF Matches
    <3>7. r.done = FALSE /\ r.state = "ChunkedBody"
      BY <3>4
    <3>8. Progress(p, r, m)
      BY <1>5, <3>3, <3>4, <3>5, <3>6, <3>7, ChunkMoves, Zenon
    <3> QED BY <3>2, <3>8
  <2>2. CASE Len(p.partial) < 3
    BY <1>5, <2>2, <1>3, LineAhead, Zenon
  <2> QED BY <1>1, <2>1, <2>2
<1> QED BY <1>1, <1>2, <1>4, <1>5, TrailerItem, Zenon

\* process_chunked(), after the trailer.
LEMMA EndTurn ==
    ASSUME NEW p \in Parser, NEW m \in Message, Reading(p, m), p.state = "ChunkedBody",
           p.phase = "End", p.done = FALSE
    PROVE  Progress(p, Back([p EXCEPT !.state = "Complete"]), m)
PROOF
<1> DEFINE L == Len(p.raw)
           q == Back([p EXCEPT !.state = "Complete"])
<1>0. ~Ended(p)
  BY DEF Ended
<1>1. /\ L \in 0..Len(m) /\ Len(p.partial) \in Nat /\ L \in Nat
      /\ Matches(p, Form[m][L]) /\ Shape(p)
  BY <1>0, PlaceOf, Zenon
<1>2. q \in Parser /\ q.raw = p.raw /\ q.partial = p.partial /\ q.headers = p.headers
      /\ q.state = "Complete" /\ q.done = TRUE
  BY Zenon DEF Back, Parser
<1> HIDE DEF q
<1>3. Form[m][L].at = "done"
  BY <1>1 DEF Matches
<1>4. Matches(q, Form[m][L]) /\ Ended(q) /\ Settled(q)
  BY <1>2, <1>3 DEF Matches, Ended, Settled
<1>5. Shape(q)
  BY <1>1, <1>2 DEF Shape
<1>6. 0 \in 0..Len(p.partial) /\ L + 0 = L /\ L <= Len(m)
  BY <1>1
<1>7. Text(q) = Text(p) /\ Len(q.raw) = L + 0
  BY <1>2, <1>6, Zenon DEF Text
<1>8. Matches(q, Form[m][L + 0]) /\ L + 0 <= Len(m) /\ q.state # "Error"
  BY <1>2, <1>4, <1>6
<1>9. Progress(p, q, m)
  BY <1>2, <1>4, <1>5, <1>6, <1>7, <1>8, Moves
<1> QED BY <1>9 DEF q

\* process().
LEMMA ProcessTurn ==
    ASSUME NEW p \in Parser, NEW m \in Message, Follows(p, m), Reading(p, m), ~Ended(p), ~p.done
    PROVE  Progress(p, process(p), m)
PROOF
<1>1. /\ p.state \in {"RequestLine", "Headers", "Body", "ChunkedBody"} /\ p.done = FALSE
      /\ p.phase \in {"SizeLine", "Data", "Trailer", "End"}
  BY DEF Parser, Ended
<1>2. CASE p.state = "RequestLine"
  BY <1>1, <1>2, RequestLineTurn, Zenon DEF process
<1>3. CASE p.state = "Headers"
  BY <1>1, <1>3, HeadersTurn, Zenon DEF process
<1>4. CASE p.state = "Body"
  BY <1>1, <1>4, BodyTurn, Zenon DEF process
<1>5. CASE p.state = "ChunkedBody"
  <2>0. process(p) = process_chunked(p)
    BY <1>5 DEF process
  <2>1. CASE p.phase = "SizeLine"
    BY <1>1, <1>5, <2>0, <2>1, SizeTurn, Zenon DEF process_chunked
  <2>2. CASE p.phase = "Data"
    BY <1>1, <1>5, <2>0, <2>2, DataTurn, Zenon DEF process_chunked
  <2>3. CASE p.phase = "Trailer"
    BY <1>1, <1>5, <2>0, <2>3, TrailerTurn, Zenon DEF process_chunked
  <2>4. CASE p.phase = "End"
    BY <1>1, <1>5, <2>0, <2>4, EndTurn, Zenon DEF process_chunked
  <2> QED BY <1>1, <2>1, <2>2, <2>3, <2>4
<1> QED BY <1>1, <1>2, <1>3, <1>4, <1>5

-----------------------------------------------------------------------------
(* The connection. *)

\* What the parser has is what was sent, where it was sent.
LEMMA TextIsSent ==
    ASSUME NEW p \in Parser, NEW m \in Seq(Token),
           \A i \in 1..Len(Text(p)) : i <= Len(m) => Text(p)[i] = m[i]
    PROVE  /\ Follows(p, m)
           /\ \A j \in 1..Len(p.raw) : j <= Len(m) => p.raw[j] = m[j]
           /\ Len(p.raw) + Len(p.partial) = Len(Text(p))
PROOF
<1> DEFINE raw == p.raw
           partial == p.partial
<1>1. raw \in Seq(Token) /\ partial \in Seq(Token)
  BY DEF Parser
<1>2. /\ \A i \in 1..Len(raw \o partial) : i <= Len(m) => (raw \o partial)[i] = m[i]
      /\ Text(p) = raw \o partial
  BY Zenon DEF Text
<1>3. SUFFICES /\ \A j \in 1..Len(partial) : Len(raw) + j <= Len(m) => partial[j] = m[Len(raw) + j]
               /\ \A j \in 1..Len(raw) : j <= Len(m) => raw[j] = m[j]
               /\ Len(raw) + Len(partial) = Len(raw \o partial)
  BY <1>2, Zenon DEF Follows
<1> HIDE DEF raw, partial
<1>4. /\ Len(raw) \in Nat /\ Len(partial) \in Nat /\ Len(m) \in Nat
      /\ Len(raw \o partial) = Len(raw) + Len(partial)
  BY <1>1, Concatenates
<1>5. ASSUME NEW j \in 1..Len(partial), Len(raw) + j <= Len(m)
      PROVE  partial[j] = m[Len(raw) + j]
  <2>1. (raw \o partial)[Len(raw) + j] = partial[j]
    BY <1>1, <1>4
  <2>2. Len(raw) + j \in 1..Len(raw \o partial)
    BY <1>4
  <2> QED BY <1>2, <1>5, <2>1, <2>2
<1>6. ASSUME NEW j \in 1..Len(raw), j <= Len(m)
      PROVE  raw[j] = m[j]
  <2>1. (raw \o partial)[j] = raw[j]
    BY <1>1, <1>4
  <2>2. j \in 1..Len(raw \o partial)
    BY <1>4
  <2> QED BY <1>2, <1>6, <2>1, <2>2
<1> QED BY <1>4, <1>5, <1>6

\* Where the tokens of a part of a sequence are.
LEMMA PartOf ==
    ASSUME NEW s \in Seq(Token), NEW b \in Nat, NEW f \in Nat, b <= f, f <= Len(s)
    PROVE  /\ SubSeq(s, b + 1, f) \in Seq(Token) /\ Len(SubSeq(s, b + 1, f)) = f - b
           /\ \A i \in 1..(f - b) : SubSeq(s, b + 1, f)[i] = s[b + i]
PROOF
<1>1. Len(s) \in Nat
  OBVIOUS
<1>2. \A i \in (b + 1)..f : s[i] \in Token
  BY <1>1
<1> DEFINE t == SubSeq(s, b + 1, f)
<1>3. /\ t \in Seq(Token) /\ Len(t) = IF b + 1 <= f THEN f - (b + 1) + 1 ELSE 0
      /\ \A i \in 1..(f - (b + 1) + 1) : t[i] = s[(b + 1) + i - 1]
  BY <1>2, SubSeqProperties
<1> HIDE DEF t
<1>4. f - (b + 1) + 1 = f - b /\ \A i \in 1..(f - b) : (b + 1) + i - 1 = b + i
  OBVIOUS
<1>5. t \in Seq(Token) /\ Len(t) = f - b /\ \A i \in 1..(f - b) : t[i] = s[b + i]
  BY <1>3, <1>4
<1> QED BY <1>5 DEF t

\* A fresh parser is at the start of any message.
LEMMA FreshReads ==
    ASSUME NEW p, Fresh(p), NEW m \in Message
    PROVE  Reading(p, m)
PROOF
<1>1. Form[m][0] = Start /\ m \in Seq(Token)
  BY ParserAssumption
<1>2. p.state = "RequestLine" /\ p.raw = <<>> /\ p.headers = {}
  BY DEF Fresh
<1>3. Len(p.raw) = 0 /\ Len(p.raw) <= Len(m)
  BY <1>1, <1>2
<1>4. Matches(p, Form[m][0])
  BY <1>1, <1>2 DEF Matches, Start, At
<1>5. Shape(p)
  BY <1>2 DEF Shape, NoLineYet
<1> QED BY <1>2, <1>3, <1>4, <1>5 DEF Reading

\* Reading, Settled and Ended are the same for parsers that differ in the rest.
LEMMA SameReading ==
    ASSUME NEW p, NEW q, q.raw = p.raw, q.state = p.state, q.headers = p.headers,
           q.body_read = p.body_read, q.phase = p.phase, q.size = p.size, q.read = p.read
    PROVE  /\ \A m : Reading(p, m) => Reading(q, m)
           /\ Fresh(p) => Fresh(q)
           /\ Ended(q) <=> Ended(p)
PROOF
<1>1. ASSUME NEW m, Reading(p, m) PROVE Reading(q, m)
  <2>1. Matches(q, Form[m][Len(q.raw)]) <=> Matches(p, Form[m][Len(p.raw)])
    BY Zenon DEF Matches
  <2>2. Shape(q) <=> Shape(p)
    BY Zenon DEF Shape
  <2> QED BY <1>1, <2>1, <2>2, Zenon DEF Reading
<1> QED BY <1>1, Zenon DEF Fresh, Ended

\* The tokens that reset() and Call() leave.
LEMMA Resets ==
    ASSUME NEW s \in Seq(Token)
    PROVE  /\ reset(s) \in Parser /\ Fresh(reset(s)) /\ reset(s).partial = s /\ reset(s).raw = <<>>
           /\ reset(s).done = FALSE /\ reset(s).state = "RequestLine"
BY DEF reset, Parser, Fresh

\* Everything holds at first.
LEMMA InitParserIInv == ParserInit => ParserIInv
PROOF
<1> SUFFICES ASSUME ParserInit PROVE ParserIInv
  OBVIOUS
<1> USE DEF ParserInit
<1>1. <<>> \in Seq(Token)
  OBVIOUS
<1>2. /\ parser \in Parser /\ Fresh(parser) /\ parser.partial = <<>> /\ parser.raw = <<>>
      /\ parser.done = FALSE /\ parser.state = "RequestLine"
  BY <1>1, Resets, Zenon
<1>3. ParserTypeOK
  BY <1>2 DEF ParserTypeOK
<1>4. StreamOK
  BY DEF StreamOK, Before
<1>5. InputOK
  <2>1. Text(parser) = <<>>
    BY <1>2 DEF Text
  <2>2. SubSeq(stream, 0 + 1, fed) = <<>>
    BY SubSeqEmpty
  <2>3. Before(Len(delivered) + 1) = 0
    BY DEF Before
  <2>4. DeliversExactly /\ fed <= Len(stream) /\ 0 <= fed
    BY DEF DeliversExactly
  <2> QED BY <2>1, <2>2, <2>3, <2>4, Zenon DEF InputOK
<1>6. UnderWay
  BY <1>2 DEF UnderWay
<1>7. StageOK
  BY <1>2 DEF StageOK, Ended, Settled
<1> QED BY <1>3, <1>4, <1>5, <1>6, <1>7, Zenon DEF ParserIInv

\* The message under way, and where it lies in the stream.
LEMMA MessageUnderWay ==
    ASSUME ParserTypeOK, StreamOK, InputOK, Len(delivered) < Len(messages),
           NEW m, m = messages[Len(delivered) + 1], NEW b, b = Before(Len(delivered) + 1)
    PROVE  /\ m \in Message /\ m \in Seq(Token) /\ Len(delivered) + 1 \in 1..Len(messages)
           /\ b \in Nat /\ ends[Len(delivered) + 1] = b + Len(m) /\ b + Len(m) <= Len(stream)
           /\ \A i \in 1..Len(m) : stream[b + i] = m[i]
           /\ Follows(parser, m)
           /\ \A j \in 1..Len(parser.raw) : j <= Len(m) => parser.raw[j] = m[j]
           /\ Len(parser.raw) + Len(parser.partial) = fed - b
PROOF
<1>1. /\ parser \in Parser /\ stream \in Seq(Token) /\ ends \in Seq(Nat) /\ messages \in Seq(Message)
      /\ fed \in Nat /\ Len(delivered) \in Nat /\ Len(messages) \in Nat
  BY DEF ParserTypeOK
<1>2. Len(delivered) + 1 \in 1..Len(messages)
  BY <1>1
<1>3. m \in Message
  BY <1>1, <1>2
<1>4. m \in Seq(Token)
  BY <1>3, ParserAssumption
<1>5. b \in Nat
  <2>1. CASE Len(delivered) = 0
    BY <2>1 DEF Before
  <2>2. CASE Len(delivered) # 0
    <3>1. (Len(delivered) + 1) - 1 = Len(delivered) /\ Len(delivered) + 1 # 1 /\ Len(delivered) \in 1..Len(ends)
      BY <1>1, <2>2 DEF StreamOK
    <3>2. b = ends[Len(delivered)]
      BY <3>1 DEF Before
    <3> QED BY <1>1, <3>1, <3>2
  <2> QED BY <2>1, <2>2
<1>6. /\ ends[Len(delivered) + 1] = b + Len(m) /\ b + Len(m) <= Len(stream)
      /\ \A i \in 1..Len(m) : stream[b + i] = m[i]
  BY <1>2 DEF StreamOK
<1>7. b <= fed /\ fed <= Len(stream) /\ Text(parser) = SubSeq(stream, b + 1, fed)
  BY DEF InputOK
<1>8. /\ Follows(parser, m)
      /\ \A j \in 1..Len(parser.raw) : j <= Len(m) => parser.raw[j] = m[j]
      /\ Len(parser.raw) + Len(parser.partial) = fed - b
  <2> DEFINE t == SubSeq(stream, b + 1, fed)
  <2>1. Len(t) = fed - b /\ \A i \in 1..(fed - b) : t[i] = stream[b + i]
    BY <1>1, <1>5, <1>7, PartOf, Zenon
  <2> HIDE DEF t
  <2>2. Text(parser) = t
    BY <1>7 DEF t
  <2>3. \A i \in 1..Len(t) : i <= Len(m) => t[i] = m[i]
    <3> SUFFICES ASSUME NEW i \in 1..Len(t), i <= Len(m) PROVE t[i] = m[i]
      OBVIOUS
    <3>1. Len(m) \in Nat
      BY <1>4
    <3>2. i \in 1..Len(m) /\ i \in 1..(fed - b)
      BY <2>1, <3>1
    <3> QED BY <1>6, <2>1, <3>2
  <2>4. \A i \in 1..Len(Text(parser)) : i <= Len(m) => Text(parser)[i] = m[i]
    BY <2>2, <2>3, Zenon
  <2>5. /\ Follows(parser, m)
        /\ \A j \in 1..Len(parser.raw) : j <= Len(m) => parser.raw[j] = m[j]
        /\ Len(parser.raw) + Len(parser.partial) = Len(Text(parser))
    BY <1>1, <1>4, <2>4, TextIsSent, Zenon
  <2> QED BY <2>1, <2>2, <2>5, Zenon
<1> QED BY <1>2, <1>3, <1>4, <1>5, <1>6, <1>8, Zenon

\* A turn of process() keeps the invariant.
LEMMA StepKeeps == ParserIInv /\ step => ParserIInv'
PROOF
<1> SUFFICES ASSUME ParserIInv, step PROVE ParserIInv'
  OBVIOUS
<1> DEFINE m == messages[Len(delivered) + 1]
           p == process(parser)
<1>0. ParserTypeOK /\ StreamOK /\ InputOK /\ UnderWay /\ StageOK
  BY DEF ParserIInv
<1>1. /\ stage = "process" /\ parser' = (IF p.done THEN check_size_limit(p) ELSE p)
      /\ stage' = (IF p.done THEN "returned" ELSE "process")
      /\ UNCHANGED <<len, old_raw, client, fed, delivered>>
  BY DEF step
<1>2. UNCHANGED <<len, old_raw, messages, stream, ends, fed, delivered>>
  BY <1>1 DEF client
<1>3. /\ parser \in Parser /\ Len(delivered) \in Nat /\ Len(messages) \in Nat /\ old_raw \in Nat
  BY <1>0 DEF ParserTypeOK
<1>4. Len(delivered) < Len(messages)
  <2>1. Len(delivered) <= Len(messages)
    BY <1>0 DEF InputOK, DeliversExactly
  <2>2. Len(delivered) # Len(messages)
    BY <1>0, <1>1 DEF UnderWay
  <2> QED BY <1>3, <2>1, <2>2
<1>5. m \in Message /\ m \in Seq(Token) /\ Follows(parser, m)
  BY <1>0, <1>4, MessageUnderWay, Zenon
<1>6. Reading(parser, m)
  BY <1>0, <1>4 DEF UnderWay
<1>7. ~parser.done /\ ~Ended(parser) /\ old_raw <= Len(parser.raw)
  BY <1>0, <1>1 DEF StageOK
<1>8. Progress(parser, p, m)
  BY <1>3, <1>5, <1>6, <1>7, ProcessTurn
<1> HIDE DEF p, m
<1>9. /\ p \in Parser /\ Text(p) = Text(parser) /\ Len(parser.raw) <= Len(p.raw) /\ Reading(p, m)
      /\ ~p.done => ~Ended(p)
      /\ p.done => /\ Settled(p)
                   /\ Ended(p) \/ p.partial = <<>> \/ Blocked(p) \/ Len(p.raw) > Len(parser.raw)
  BY <1>8, Zenon DEF Progress
<1>10. /\ parser' \in Parser /\ Text(parser') = Text(parser) /\ Len(parser.raw) <= Len(parser'.raw)
       /\ Reading(parser', m)
       /\ ~p.done => ~Ended(parser') /\ ~parser'.done
       /\ p.done => /\ Settled(parser')
                    /\ \/ Ended(parser') \/ parser'.partial = <<>> \/ Blocked(parser')
                       \/ Len(parser'.raw) > Len(parser.raw)
  <2>1. CASE ~p.done \/ ~(Len(p.raw) > MaxSize)
    <3>1. parser' = p
      BY <1>1, <2>1, Zenon DEF check_size_limit
    <3> QED BY <1>9, <3>1, Zenon
  <2>2. CASE p.done /\ Len(p.raw) > MaxSize
    <3>1. parser' = Fail(p)
      BY <1>1, <2>2, Zenon DEF check_size_limit
    <3>2. Len(p.raw) <= Len(m)
      BY <1>9, Zenon DEF Reading
    <3>3. Len(m) > MaxSize
      <4>1. Len(p.raw) \in Nat /\ Len(m) \in Nat /\ MaxSize \in Nat
        BY <1>5, <1>9, ParserAssumption DEF Parser
      <4> QED BY <2>2, <3>2, <4>1
    <3>4. Progress(parser, Fail(p), m)
      BY <1>3, <1>9, <3>2, <3>3, Fails
    <3>5. Fail(p).state = "Error"
      BY <1>9 DEF Fail, Parser
    <3>6. Settled(Fail(p)) /\ Ended(Fail(p))
      BY <3>5 DEF Settled, Ended
    <3> QED BY <2>2, <3>1, <3>4, <3>6, Zenon DEF Progress
  <2> QED BY <2>1, <2>2
<1>11. ParserTypeOK'
  BY <1>0, <1>1, <1>2, <1>10 DEF ParserTypeOK
<1>12. StreamOK'
  BY <1>0, <1>2 DEF StreamOK, Before
<1>13. InputOK'
  BY <1>0, <1>2, <1>10, Zenon DEF InputOK, DeliversExactly, Before
<1>14. UnderWay'
  <2>1. m = messages'[Len(delivered') + 1]
    BY <1>2, Zenon DEF m
  <2>2. Len(delivered') # Len(messages')
    BY <1>2, <1>3, <1>4
  <2> QED BY <1>10, <2>1, <2>2, Zenon DEF UnderWay
<1>15. StageOK'
  <2>1. Len(parser.raw) \in Nat /\ Len(parser'.raw) \in Nat
    BY <1>3, <1>10 DEF Parser
  <2>2. old_raw' <= Len(parser'.raw) /\ (Len(parser'.raw) > Len(parser.raw) => Len(parser'.raw) > old_raw')
    BY <1>2, <1>3, <1>7, <1>10, <2>1
  <2>3. CASE p.done
    <3>1. stage' = "returned"
      BY <1>1, <2>3
    <3> QED BY <1>10, <2>2, <2>3, <3>1 DEF StageOK
  <2>4. CASE ~p.done
    <3>1. stage' = "process"
      BY <1>1, <2>4
    <3> QED BY <1>10, <2>2, <2>4, <3>1 DEF StageOK
  <2> QED BY <2>3, <2>4
<1> QED BY <1>11, <1>12, <1>13, <1>14, <1>15, Zenon DEF ParserIInv

\* The connection reads what has arrived.
LEMMA OnReadKeeps ==
    ASSUME ParserIInv, NEW k \in 1..Len(stream), on_read(k)
    PROVE  ParserIInv'
PROOF
<1> DEFINE m == messages[Len(delivered) + 1]
           b == Before(Len(delivered) + 1)
           more == SubSeq(stream, fed + 1, fed + k)
<1>0. ParserTypeOK /\ StreamOK /\ InputOK /\ UnderWay /\ StageOK
  BY DEF ParserIInv
<1>1. /\ stage = "wait" /\ k \in 1..(Len(stream) - fed)
      /\ parser' = [[parser EXCEPT !.partial = @ \o more] EXCEPT !.done = FALSE]
      /\ len' = k /\ old_raw' = Len([parser EXCEPT !.partial = @ \o more].raw)
      /\ stage' = "process" /\ fed' = fed + k
      /\ UNCHANGED <<messages, stream, ends, delivered>>
  BY DEF on_read, Call, client
<1>2. /\ parser \in Parser /\ Len(delivered) \in Nat /\ Len(messages) \in Nat /\ fed \in Nat
      /\ stream \in Seq(Token) /\ Len(stream) \in Nat
  BY <1>0 DEF ParserTypeOK
<1>3. fed <= Len(stream) /\ b <= fed /\ Text(parser) = SubSeq(stream, b + 1, fed)
  BY <1>0 DEF InputOK
<1>4. Len(delivered) < Len(messages)
  <2>1. Len(delivered) <= Len(messages)
    BY <1>0 DEF InputOK, DeliversExactly
  <2>2. Len(delivered) # Len(messages)
    <3> SUFFICES ASSUME Len(delivered) = Len(messages) PROVE FALSE
      OBVIOUS
    <3>1. Len(stream) = b
      BY <1>0 DEF StreamOK
    <3> QED BY <1>1, <1>2, <1>3, <3>1
  <2> QED BY <1>2, <2>1, <2>2
<1>5. b \in Nat
  BY <1>0, <1>4, MessageUnderWay, Zenon
<1>6. more \in Seq(Token) /\ fed + k <= Len(stream) /\ fed + k \in Nat
  <2>1. fed + k \in Nat /\ fed <= fed + k /\ fed + k <= Len(stream)
    BY <1>1, <1>2
  <2> QED BY <1>2, <2>1, PartOf
<1>7. SubSeq(stream, b + 1, fed) \o more = SubSeq(stream, b + 1, fed + k)
  <2> HIDE DEF b
  <2>0. b \in Nat /\ b <= fed /\ fed \in Nat /\ Len(stream) \in Nat /\ k \in Nat /\ fed + k <= Len(stream)
    <3>1. k \in Nat
      OBVIOUS
    <3> QED BY <1>2, <1>3, <1>5, <1>6, <3>1, Zenon
  <2>1. b + 1 \in 1..(Len(stream) + 1) /\ fed \in ((b + 1) - 1)..Len(stream) /\ fed + k \in fed..Len(stream)
    BY <2>0
  <2> QED BY <1>2, <2>1, ConcatAdjacentSubSeq, Zenon
<1> HIDE DEF more, b
<1>8. /\ parser' \in Parser /\ parser'.raw = parser.raw /\ parser'.partial = parser.partial \o more
      /\ parser'.state = parser.state /\ parser'.headers = parser.headers
      /\ parser'.body_read = parser.body_read /\ parser'.phase = parser.phase
      /\ parser'.size = parser.size /\ parser'.read = parser.read
      /\ parser'.done = FALSE /\ old_raw' = Len(parser.raw)
  <2>1. parser.partial \o more \in Seq(Token)
    BY <1>2, <1>6, Concatenates DEF Parser
  <2> QED BY <1>1, <1>2, <2>1, Zenon DEF Parser
<1>9. Text(parser') = SubSeq(stream, b + 1, fed + k)
  <2>1. parser.raw \in Seq(Token) /\ parser.partial \in Seq(Token)
    BY <1>2 DEF Parser
  <2>2. (parser.raw \o parser.partial) \o more = parser.raw \o (parser.partial \o more)
    BY <1>6, <2>1, Associates, Zenon
  <2>3. Text(parser') = Text(parser) \o more
    BY <1>8, <2>2, Zenon DEF Text
  <2> QED BY <1>3, <1>7, <2>3, Zenon
<1>10. Reading(parser, m)
  BY <1>0, <1>4 DEF UnderWay
<1>11. Reading(parser', m) /\ (Ended(parser') <=> Ended(parser))
  <2>1. (\A x : Reading(parser, x) => Reading(parser', x)) /\ (Ended(parser') <=> Ended(parser))
    BY <1>8, SameReading, Zenon
  <2> QED BY <1>10, <2>1, Zenon
<1>12. ParserTypeOK'
  <2>1. Len(parser.raw) \in Nat
    BY <1>2 DEF Parser
  <2> QED BY <1>0, <1>1, <1>6, <1>8, <2>1 DEF ParserTypeOK
<1>13. StreamOK'
  BY <1>0, <1>1 DEF StreamOK, Before
<1>14. InputOK'
  <2>1. b = Before(Len(delivered) + 1)' /\ b <= fed'
    <3>1. b <= fed + k
      BY <1>1, <1>2, <1>3, <1>5
    <3> QED BY <1>1, <3>1, Zenon DEF Before, b
  <2>2. DeliversExactly'
    BY <1>0, <1>1, Zenon DEF InputOK, DeliversExactly
  <2> QED BY <1>1, <1>6, <1>9, <2>1, <2>2, Zenon DEF InputOK
<1>15. UnderWay'
  <2>1. m = messages'[Len(delivered') + 1]
    BY <1>1, Zenon
  <2>2. Len(delivered') # Len(messages')
    BY <1>1, <1>2, <1>4
  <2> HIDE DEF m
  <2> QED BY <1>11, <2>1, <2>2, Zenon DEF UnderWay
<1>16. StageOK'
  <2>1. ~Ended(parser')
    BY <1>0, <1>1, <1>11 DEF StageOK
  <2>2. old_raw' <= Len(parser'.raw)
    <3>1. Len(parser.raw) \in Nat
      BY <1>2 DEF Parser
    <3> QED BY <1>8, <3>1
  <2> QED BY <1>1, <1>8, <2>1, <2>2 DEF StageOK
<1> QED BY <1>12, <1>13, <1>14, <1>15, <1>16, Zenon DEF ParserIInv

\* The client sends another message.
LEMMA ClientKeeps ==
    ASSUME ParserIInv, NEW m \in Message, client_sends(m)
    PROVE  ParserIInv'
PROOF
<1> DEFINE N == Len(messages)
           d == Len(delivered)
           b == Before(d + 1)
<1>0. ParserTypeOK /\ StreamOK /\ InputOK /\ UnderWay /\ StageOK
  BY DEF ParserIInv
<1>1. /\ messages' = Append(messages, m) /\ stream' = stream \o m
      /\ ends' = Append(ends, Len(stream) + Len(m))
      /\ UNCHANGED <<parser, stage, len, old_raw, fed, delivered>>
  BY DEF client_sends
<1>2. /\ parser \in Parser /\ d \in Nat /\ N \in Nat /\ fed \in Nat /\ messages \in Seq(Message)
      /\ stream \in Seq(Token) /\ Len(stream) \in Nat /\ ends \in Seq(Nat) /\ m \in Seq(Token) /\ Len(m) \in Nat
  <2>1. m \in Seq(Token)
    BY ParserAssumption
  <2> QED BY <1>0, <2>1 DEF ParserTypeOK
<1>3. /\ Len(ends) = N /\ Len(stream) = Before(N + 1) /\ d <= N
      /\ fed <= Len(stream) /\ b <= fed /\ Text(parser) = SubSeq(stream, b + 1, fed)
  BY <1>0 DEF StreamOK, InputOK, DeliversExactly
<1>4. /\ Len(messages') = N + 1 /\ Len(ends') = N + 1 /\ messages' \in Seq(Message) /\ ends' \in Seq(Nat)
      /\ messages'[N + 1] = m /\ ends'[N + 1] = Len(stream) + Len(m)
      /\ \A n \in 1..N : messages'[n] = messages[n] /\ ends'[n] = ends[n]
  BY <1>1, <1>2, <1>3
<1>5. /\ stream' \in Seq(Token) /\ Len(stream') = Len(stream) + Len(m)
      /\ \A i \in 1..Len(stream) : stream'[i] = stream[i]
      /\ \A i \in 1..Len(m) : stream'[Len(stream) + i] = m[i]
  BY <1>1, <1>2
<1>a. \A n \in 1..N : ends[n] \in Nat
  BY <1>2, <1>3
<1>b. \A n \in 1..N : ends[n] <= Len(stream) /\ ends[n] = Before(n) + Len(messages[n])
  BY <1>0, Zenon DEF StreamOK
<1>c. \A n \in 1..N : \A i \in 1..Len(messages[n]) : stream[Before(n) + i] = messages[n][i]
  BY <1>0, Zenon DEF StreamOK
<1>d. \A n \in 1..N : \A i \in 1..n : ends[i] <= ends[n]
  BY <1>0, Zenon DEF StreamOK
<1>6. \A n \in 1..(N + 1) : Before(n)' = Before(n) /\ Before(n) \in Nat /\ Before(n) <= Len(stream)
  <2> SUFFICES ASSUME NEW n \in 1..(N + 1)
               PROVE  Before(n)' = Before(n) /\ Before(n) \in Nat /\ Before(n) <= Len(stream)
    OBVIOUS
  <2>1. CASE n = 1
    BY <1>2, <2>1 DEF Before
  <2>2. CASE n # 1
    <3>1. n - 1 \in 1..N
      BY <1>2, <2>2
    <3>2. ends[n - 1] <= Len(stream) /\ ends[n - 1] \in Nat /\ ends'[n - 1] = ends[n - 1]
      BY <1>4, <1>a, <1>b, <3>1, Zenon
    <3> QED BY <2>2, <3>2 DEF Before
  <2> QED BY <2>1, <2>2
<1>7. ParserTypeOK'
  BY <1>0, <1>1, <1>4, <1>5 DEF ParserTypeOK
<1>8. StreamOK'
  <2>1. ASSUME NEW n \in 1..(N + 1)
        PROVE  /\ ends'[n] = Before(n)' + Len(messages'[n]) /\ ends'[n] <= Len(stream')
               /\ \A i \in 1..Len(messages'[n]) : stream'[Before(n)' + i] = messages'[n][i]
               /\ \A i \in 1..n : ends'[i] <= ends'[n]
    <3>1. CASE n \in 1..N
      <4>1. /\ ends[n] = Before(n) + Len(messages[n]) /\ ends[n] <= Len(stream) /\ ends[n] \in Nat
            /\ \A i \in 1..Len(messages[n]) : stream[Before(n) + i] = messages[n][i]
            /\ \A i \in 1..n : ends[i] <= ends[n]
        BY <1>a, <1>b, <1>c, <1>d, <3>1, Zenon
      <4>2. Len(messages[n]) \in Nat
        BY <1>2, <3>1, ParserAssumption
      <4>3. ends[n] <= Len(stream')
        BY <1>2, <1>5, <4>1
      <4>4. ASSUME NEW i \in 1..Len(messages[n]) PROVE stream'[Before(n) + i] = messages[n][i]
        <5>1. Before(n) + i \in 1..Len(stream)
          BY <1>2, <1>6, <4>1, <4>2
        <5>2. stream'[Before(n) + i] = stream[Before(n) + i]
          BY <1>5, <5>1, Zenon
        <5> QED BY <4>1, <5>2, Zenon
      <4>5. \A i \in 1..n : ends'[i] <= ends[n]
        <5>1. \A i \in 1..n : i \in 1..N
          BY <1>2, <3>1
        <5> QED BY <1>4, <4>1, <5>1, Zenon
      <4>6. n \in 1..(N + 1)
        OBVIOUS
      <4>7. messages'[n] = messages[n] /\ ends'[n] = ends[n] /\ Before(n)' = Before(n)
        BY <1>4, <1>6, <3>1, <4>6, Zenon
      <4> QED BY <4>1, <4>3, <4>4, <4>5, <4>7, Zenon
    <3>2. CASE n = N + 1
      <4>1. Before(n)' = Len(stream) /\ messages'[n] = m /\ ends'[n] = Len(stream) + Len(m)
        BY <1>3, <1>4, <1>6, <3>2, Zenon
      <4>2. ASSUME NEW i \in 1..n PROVE ends'[i] <= Len(stream) + Len(m)
        <5>1. CASE i = N + 1
          BY <1>2, <1>4, <5>1
        <5>2. CASE i \in 1..N
          <6>1. ends[i] <= Len(stream) /\ ends[i] \in Nat /\ ends'[i] = ends[i]
            BY <1>4, <1>a, <1>b, <5>2, Zenon
          <6> QED BY <1>2, <6>1
        <5> QED BY <1>2, <3>2, <5>1, <5>2
      <4>3. Len(stream) + Len(m) <= Len(stream')
        BY <1>2, <1>5
      <4> QED BY <1>5, <4>1, <4>2, <4>3, Zenon
    <3>3. n \in 1..N \/ n = N + 1
      BY <1>2
    <3> QED BY <3>1, <3>2, <3>3, Zenon
  <2>2. Len(stream') = Before(Len(messages) + 1)'
    <3>1. Len(messages') + 1 # 1 /\ (Len(messages') + 1) - 1 = N + 1
      BY <1>2, <1>4
    <3>2. Before(Len(messages) + 1)' = ends'[N + 1]
      BY <3>1, Zenon DEF Before
    <3> QED BY <1>4, <1>5, <3>2, Zenon
  <2> QED BY <1>4, <2>1, <2>2, Zenon DEF StreamOK
<1>9. Before(d + 1)' = b /\ b \in Nat
  <2>1. d + 1 \in 1..(N + 1)
    BY <1>2, <1>3
  <2>2. \A n \in {d + 1} : Before(n)' = Before(n) /\ Before(n) \in Nat
    BY <1>6, <2>1, Zenon
  <2> QED BY <1>1, <2>2, Zenon DEF Before
<1>10. InputOK'
  <2>1. SubSeq(stream', b + 1, fed) = SubSeq(stream, b + 1, fed)
    <3> DEFINE u == SubSeq(stream', b + 1, fed)
               v == SubSeq(stream, b + 1, fed)
    <3>1. fed <= Len(stream')
      BY <1>2, <1>3, <1>5
    <3>2. u \in Seq(Token) /\ Len(u) = fed - b /\ \A i \in 1..(fed - b) : u[i] = stream'[b + i]
      BY <1>2, <1>3, <1>5, <1>9, <3>1, PartOf, Zenon
    <3>3. v \in Seq(Token) /\ Len(v) = fed - b /\ \A i \in 1..(fed - b) : v[i] = stream[b + i]
      BY <1>2, <1>3, <1>9, PartOf, Zenon
    <3>4. \A i \in 1..(fed - b) : b + i \in 1..Len(stream)
      BY <1>2, <1>3, <1>9
    <3> HIDE DEF u, v
    <3>5. \A i \in 1..(fed - b) : u[i] = v[i]
      BY <1>5, <3>2, <3>3, <3>4
    <3>6. u = v
      BY <3>2, <3>3, <3>5, SeqEqual
    <3> QED BY <3>6, Zenon DEF u, v
  <2>2. fed' <= Len(stream')
    BY <1>1, <1>2, <1>3, <1>5
  <2>3. DeliversExactly'
    <3>1. \A n \in DOMAIN delivered : n \in 1..N
      BY <1>0, <1>2, <1>3 DEF ParserTypeOK
    <3>2. \A n \in DOMAIN delivered : delivered[n] = messages[n]
      BY <1>0, Zenon DEF InputOK, DeliversExactly
    <3>3. Len(delivered) <= N + 1
      BY <1>2, <1>3
    <3> QED BY <1>1, <1>4, <3>1, <3>2, <3>3 DEF DeliversExactly
  <2> QED BY <1>1, <1>3, <1>9, <2>1, <2>2, <2>3, Zenon DEF InputOK
<1>11. UnderWay'
  <2>1. Len(delivered') # Len(messages')
    BY <1>1, <1>2, <1>3, <1>4
  <2>2. CASE d < N
    <3>1. d + 1 \in 1..N
      BY <1>2, <2>2
    <3>2. messages'[d + 1] = messages[d + 1]
      BY <1>4, <3>1
    <3>3. Reading(parser, messages[d + 1])
      BY <1>0, <2>2, Zenon DEF UnderWay
    <3> QED BY <1>1, <2>1, <3>2, <3>3, Zenon DEF UnderWay
  <2>3. CASE d = N
    <3>1. Fresh(parser)
      BY <1>0, <2>3, Zenon DEF UnderWay
    <3>2. Reading(parser, m)
      BY <3>1, FreshReads
    <3>3. messages'[d + 1] = m
      BY <1>4, <2>3
    <3> QED BY <1>1, <2>1, <3>2, <3>3, Zenon DEF UnderWay
  <2> QED BY <1>2, <1>3, <2>2, <2>3
<1>12. StageOK'
  BY <1>0, <1>1, Zenon DEF StageOK
<1> QED BY <1>7, <1>8, <1>10, <1>11, <1>12, Zenon DEF ParserIInv

\* After the answer the connection turns to what the parser still holds.
LEMMA FinishKeeps == ParserIInv /\ finish_response => ParserIInv'
PROOF
<1> SUFFICES ASSUME ParserIInv, finish_response PROVE ParserIInv'
  OBVIOUS
<1> DEFINE d == Len(delivered)
           b == Before(d + 1)
           s == parser.partial
<1>0. ParserTypeOK /\ StreamOK /\ InputOK /\ UnderWay /\ StageOK
  BY DEF ParserIInv
<1>1. /\ stage = "busy" /\ UNCHANGED <<messages, stream, ends, fed, delivered>>
      /\ IF s # <<>> THEN Call(reset(s), 0)
         ELSE stage' = "wait" /\ parser' = reset(<<>>) /\ UNCHANGED <<len, old_raw>>
  BY DEF finish_response, client
<1>2. /\ parser \in Parser /\ d \in Nat /\ Len(messages) \in Nat /\ fed \in Nat /\ messages \in Seq(Message)
      /\ s \in Seq(Token) /\ Len(stream) \in Nat /\ len \in Nat /\ old_raw \in Nat
  BY <1>0 DEF ParserTypeOK, Parser
<1>3. Fresh(parser)
  BY <1>0, <1>1 DEF StageOK
<1>4. /\ reset(s) \in Parser /\ Fresh(reset(s)) /\ reset(s).partial = s /\ reset(s).raw = <<>>
      /\ reset(s).done = FALSE /\ reset(s).state = "RequestLine"
  BY <1>2, Resets, Zenon
<1>5. parser' = reset(s)
  <2>1. CASE s = <<>>
    BY <1>1, <2>1, Zenon
  <2>2. CASE s # <<>>
    <3>1. parser' = [reset(s) EXCEPT !.done = FALSE]
      BY <1>1, <2>2 DEF Call
    <3> QED BY <3>1, Zenon DEF reset
  <2> QED BY <2>1, <2>2
<1>6. Text(parser') = Text(parser)
  BY <1>3, <1>4, <1>5, Zenon DEF Text, Fresh
<1>7. ParserTypeOK'
  <2>1. CASE s = <<>>
    <3>1. stage' = "wait" /\ UNCHANGED <<len, old_raw>>
      BY <1>1, <2>1, Zenon
    <3> QED BY <1>0, <1>1, <1>4, <1>5, <3>1 DEF ParserTypeOK
  <2>2. CASE s # <<>>
    <3>1. stage' = "process" /\ len' = 0 /\ old_raw' = Len(<<>>)
      BY <1>1, <1>4, <2>2, Zenon DEF Call
    <3> QED BY <1>0, <1>1, <1>4, <1>5, <3>1 DEF ParserTypeOK
  <2> QED BY <2>1, <2>2
<1>8. StreamOK'
  BY <1>0, <1>1 DEF StreamOK, Before
<1>9. InputOK'
  BY <1>0, <1>1, <1>6, Zenon DEF InputOK, DeliversExactly, Before
<1>10. d = Len(messages) => s = <<>>
  <2> SUFFICES ASSUME d = Len(messages), Len(s) > 0 PROVE FALSE
    BY <1>2, EmptySeq
  <2>1. b = Len(stream) /\ b <= fed /\ fed <= Len(stream) /\ Text(parser) = SubSeq(stream, b + 1, fed)
    BY <1>0 DEF StreamOK, InputOK
  <2>2. SubSeq(stream, b + 1, fed) = <<>>
    <3>1. b + 1 \in Int /\ fed \in Int /\ fed < b + 1
      BY <1>2, <2>1
    <3> QED BY <3>1, SubSeqEmpty, Zenon
  <2>3. Text(parser) = s
    BY <1>2, <1>3 DEF Text, Fresh
  <2>4. s = <<>>
    BY <2>1, <2>2, <2>3, Zenon
  <2> QED BY <2>4
<1>11. UnderWay'
  <2>1. CASE d < Len(messages)
    <3>1. messages[d + 1] \in Message
      BY <1>2, <2>1
    <3>2. Reading(parser', messages[d + 1])
      BY <1>4, <1>5, <3>1, FreshReads, Zenon
    <3>3. Len(delivered') # Len(messages')
      BY <1>1, <1>2, <2>1
    <3> QED BY <1>1, <3>2, <3>3, Zenon DEF UnderWay
  <2>2. CASE ~(d < Len(messages))
    <3>1. d <= Len(messages)
      BY <1>0 DEF InputOK, DeliversExactly
    <3>2. d = Len(messages)
      BY <1>2, <2>2, <3>1
    <3>3. stage' = "wait"
      BY <1>1, <1>10, <3>2, Zenon
    <3>4. ~(Len(delivered') < Len(messages'))
      BY <1>1, <2>2, Zenon
    <3> QED BY <1>4, <1>5, <3>3, <3>4 DEF UnderWay
  <2> QED BY <2>1, <2>2
<1>12. StageOK'
  <2>1. ~Ended(parser') /\ Settled(parser')
    BY <1>4, <1>5 DEF Ended, Settled
  <2>2. CASE s = <<>>
    <3>1. stage' = "wait"
      BY <1>1, <2>2, Zenon
    <3> QED BY <1>4, <1>5, <2>1, <2>2, <3>1 DEF StageOK
  <2>3. CASE s # <<>>
    <3>1. stage' = "process" /\ old_raw' = Len(parser'.raw)
      BY <1>1, <1>4, <1>5, <2>3, Zenon DEF Call
    <3>2. old_raw' <= Len(parser'.raw)
      BY <1>4, <1>5, <3>1
    <3> QED BY <1>4, <1>5, <2>1, <3>1, <3>2 DEF StageOK
  <2> QED BY <2>2, <2>3
<1> QED BY <1>7, <1>8, <1>9, <1>11, <1>12, Zenon DEF ParserIInv

\* A parser that is complete, or has failed, has a message to be so for; a complete
\* one holds all of it in raw_.
LEMMA CompleteIsWhole ==
    ASSUME ParserIInv, stage = "returned",
           NEW m, m = messages[Len(delivered) + 1], NEW b, b = Before(Len(delivered) + 1)
    PROVE  /\ Len(delivered) < Len(messages) /\ Reading(parser, m)
           /\ parser.state = "Complete" =>
                 parser.raw = m /\ m \in Seq(Token) /\ b + Len(m) <= fed /\ b + Len(m) = ends[Len(delivered) + 1]
PROOF
<1>0. ParserTypeOK /\ StreamOK /\ InputOK /\ UnderWay /\ StageOK
  BY DEF ParserIInv
<1>1. parser \in Parser /\ Len(delivered) \in Nat /\ Len(messages) \in Nat /\ fed \in Nat
  BY <1>0 DEF ParserTypeOK
<1>2. Len(delivered) < Len(messages)
  <2>1. Len(delivered) <= Len(messages)
    BY <1>0 DEF InputOK, DeliversExactly
  <2>2. Len(delivered) # Len(messages)
    BY <1>0 DEF UnderWay
  <2> QED BY <1>1, <2>1, <2>2
<1>3. Reading(parser, m)
  BY <1>0, <1>2, Zenon DEF UnderWay
<1>4. ASSUME parser.state = "Complete"
      PROVE  parser.raw = m /\ m \in Seq(Token) /\ b + Len(m) <= fed /\ b + Len(m) = ends[Len(delivered) + 1]
  <2> DEFINE raw == parser.raw
             rest == parser.partial
  <2>1. /\ m \in Message /\ m \in Seq(Token) /\ b \in Nat
        /\ \A j \in 1..Len(raw) : j <= Len(m) => raw[j] = m[j]
        /\ Len(raw) + Len(rest) = fed - b
        /\ b + Len(m) = ends[Len(delivered) + 1]
    BY <1>0, <1>2, MessageUnderWay, Zenon
  <2>2. raw \in Seq(Token) /\ Len(raw) \in Nat /\ Len(m) \in Nat /\ Len(rest) \in Nat
    <3>1. raw \in Seq(Token) /\ rest \in Seq(Token)
      BY <1>1 DEF Parser
    <3> QED BY <2>1, <3>1
  <2>3. Len(raw) <= Len(m) /\ Matches(parser, Form[m][Len(raw)])
    BY <1>3, <1>4 DEF Reading
  <2>4. Form[m][Len(raw)].at = "done"
    BY <1>4, <2>3 DEF Matches
  <2> HIDE DEF raw, rest
  <2>5. Len(raw) = Len(m)
    <3>1. Len(raw) \in 0..Len(m)
      BY <2>2, <2>3
    <3> QED BY <2>1, <2>4, <3>1, PlaceHasItem
  <2>6. raw = m
    BY <2>1, <2>2, <2>5, SeqEqual
  <2>7. b + Len(m) <= fed
    BY <1>1, <2>1, <2>2, <2>5
  <2> QED BY <2>1, <2>6, <2>7 DEF raw
<1> QED BY <1>2, <1>3, <1>4

\* Sequences that are equal and begin equally long go on equally.
LEMMA SameRest ==
    ASSUME NEW a \in Seq(Token), NEW b \in Seq(Token), NEW u \in Seq(Token), NEW v \in Seq(Token),
           a \o b = u \o v, Len(u) = Len(a)
    PROVE  b = v
PROOF
<1>1. Len(a) + Len(b) = Len(u) + Len(v)
  <2>1. Len(a \o b) = Len(a) + Len(b) /\ Len(u \o v) = Len(u) + Len(v)
    BY Concatenates, Zenon
  <2> QED BY <2>1, Zenon
<1>2. Len(b) = Len(v)
  <2>1. Len(a) \in Nat /\ Len(b) \in Nat /\ Len(v) \in Nat
    OBVIOUS
  <2> QED BY <1>1, <2>1
<1>3. ASSUME NEW i \in 1..Len(b) PROVE b[i] = v[i]
  <2>1. (a \o b)[Len(a) + i] = b[i]
    OBVIOUS
  <2>2. (u \o v)[Len(u) + i] = v[i]
    BY <1>2
  <2> QED BY <2>1, <2>2
<1> QED BY <1>2, <1>3, SeqEqual

\* The connection takes a request over: what is left belongs to the next one.
LEMMA DeliverKeeps ==
    ASSUME ParserIInv, stage = "returned", parser.state = "Complete",
           delivered' = Append(delivered, parser.raw), parser' = reset(parser.partial),
           stage' = "busy", UNCHANGED <<len, old_raw, messages, stream, ends, fed>>
    PROVE  ParserIInv'
PROOF
<1> DEFINE d == Len(delivered)
           m == messages[d + 1]
           b == Before(d + 1)
           s == parser.partial
<1>0. ParserTypeOK /\ StreamOK /\ InputOK /\ UnderWay /\ StageOK
  BY DEF ParserIInv
<1>1. /\ parser \in Parser /\ d \in Nat /\ Len(messages) \in Nat /\ fed \in Nat /\ messages \in Seq(Message)
      /\ s \in Seq(Token) /\ Len(stream) \in Nat /\ stream \in Seq(Token) /\ delivered \in Seq(Seq(Token))
  BY <1>0 DEF ParserTypeOK, Parser
<1>2. /\ d < Len(messages) /\ parser.raw = m /\ m \in Seq(Token) /\ b + Len(m) <= fed
      /\ b + Len(m) = ends[d + 1]
  BY CompleteIsWhole
<1>3. b \in Nat /\ Len(m) \in Nat
  <2>1. b \in Nat
    BY <1>0, <1>2, MessageUnderWay, Zenon
  <2> QED BY <1>2, <2>1
<1>4. /\ reset(s) \in Parser /\ Fresh(reset(s)) /\ reset(s).partial = s /\ reset(s).raw = <<>>
      /\ reset(s).done = FALSE /\ reset(s).state = "RequestLine"
  BY <1>1, Resets, Zenon
<1>5. /\ Len(delivered') = d + 1 /\ delivered' \in Seq(Seq(Token)) /\ delivered'[d + 1] = m
      /\ \A n \in 1..d : delivered'[n] = delivered[n]
  BY <1>1, <1>2
<1>6. Before(Len(delivered) + 1)' = b + Len(m)
  <2>1. Len(delivered') + 1 # 1 /\ (Len(delivered') + 1) - 1 = d + 1
    BY <1>1, <1>5
  <2> QED BY <1>2, <2>1, Zenon DEF Before
<1>7. ParserTypeOK'
  BY <1>0, <1>4, <1>5 DEF ParserTypeOK
<1>8. StreamOK'
  BY <1>0 DEF StreamOK, Before
<1>9. InputOK'
  <2>1. fed <= Len(stream) /\ Text(parser) = SubSeq(stream, b + 1, fed)
    BY <1>0 DEF InputOK
  <2>2. s = SubSeq(stream, (b + Len(m)) + 1, fed)
    <3> DEFINE c == b + Len(m)
               u == SubSeq(stream, b + 1, c)
               v == SubSeq(stream, c + 1, fed)
    <3>1. c \in Nat /\ b <= c /\ c <= fed /\ c <= Len(stream)
      BY <1>1, <1>2, <1>3, <2>1
    <3>2. u \in Seq(Token) /\ Len(u) = c - b
      BY <1>1, <1>3, <3>1, PartOf
    <3>3. v \in Seq(Token)
      BY <1>1, <2>1, <3>1, PartOf
    <3>4. u \o v = SubSeq(stream, b + 1, fed)
      <4>1. b + 1 \in 1..(Len(stream) + 1) /\ c \in ((b + 1) - 1)..Len(stream) /\ fed \in c..Len(stream)
        BY <1>1, <1>3, <2>1, <3>1
      <4> QED BY <1>1, <4>1, ConcatAdjacentSubSeq, Zenon
    <3>5. m \o s = u \o v
      BY <1>2, <2>1, <3>4, Zenon DEF Text
    <3>6. Len(u) = Len(m)
      BY <1>3, <3>2
    <3> HIDE DEF u, v, c, m, s
    <3>7. s = v
      BY <1>1, <1>2, <3>2, <3>3, <3>5, <3>6, SameRest, Zenon
    <3> QED BY <3>7 DEF v, c
  <2>3. Text(parser') = s
    BY <1>1, <1>4 DEF Text
  <2>4. DeliversExactly'
    <3>1. \A n \in DOMAIN delivered : delivered[n] = messages[n]
      BY <1>0, Zenon DEF InputOK, DeliversExactly
    <3>2. DOMAIN delivered = 1..d /\ DOMAIN delivered' = 1..(d + 1)
      BY <1>1, <1>5
    <3>3. \A n \in 1..(d + 1) : delivered'[n] = messages[n]
      BY <1>1, <1>5, <3>1, <3>2
    <3>4. Len(delivered') <= Len(messages)
      BY <1>1, <1>2, <1>5
    <3> QED BY <3>2, <3>3, <3>4, Zenon DEF DeliversExactly
  <2> QED BY <1>2, <1>6, <2>1, <2>2, <2>3, <2>4, Zenon DEF InputOK
<1>10. UnderWay'
  <2>1. ASSUME Len(delivered') < Len(messages') PROVE Reading(parser', messages'[Len(delivered') + 1])
    <3>1. messages'[Len(delivered') + 1] \in Message
      BY <1>1, <1>5, <2>1
    <3> QED BY <1>4, <3>1, FreshReads, Zenon
  <2> QED BY <1>4, <2>1 DEF UnderWay
<1>11. StageOK'
  BY <1>4 DEF StageOK
<1> QED BY <1>7, <1>8, <1>9, <1>10, <1>11, Zenon DEF ParserIInv

\* What parse() came to.
LEMMA TryKeeps == ParserIInv /\ try_parse_message => ParserIInv'
PROOF
<1> SUFFICES ASSUME ParserIInv, try_parse_message PROVE ParserIInv'
  OBVIOUS
<1> DEFINE m == messages[Len(delivered) + 1]
           consumed == IF len > 0 THEN len ELSE Len(parser.raw) - old_raw
<1>0. ParserTypeOK /\ StreamOK /\ InputOK /\ UnderWay /\ StageOK
  BY DEF ParserIInv
<1>1. stage = "returned" /\ UNCHANGED <<messages, stream, ends, fed>>
  BY DEF try_parse_message, client
<1>2. /\ parser \in Parser /\ len \in Nat /\ old_raw \in Nat /\ Len(parser.raw) \in Nat
      /\ Len(delivered) \in Nat /\ Len(messages) \in Nat
  BY <1>0 DEF ParserTypeOK, Parser
<1>3. Len(delivered) < Len(messages) /\ Reading(parser, m)
  BY <1>1, CompleteIsWhole
<1>4. /\ Settled(parser) /\ old_raw <= Len(parser.raw)
      /\ Ended(parser) \/ parser.partial = <<>> \/ Blocked(parser) \/ Len(parser.raw) > old_raw
  BY <1>0, <1>1 DEF StageOK
<1>5. CASE parser.state = "Complete"
  <2>1. /\ delivered' = Append(delivered, parser.raw) /\ parser' = reset(parser.partial)
        /\ stage' = "busy" /\ UNCHANGED <<len, old_raw>>
    BY <1>5 DEF try_parse_message
  <2> QED BY <1>1, <1>5, <2>1, DeliverKeeps
<1>6. CASE parser.state # "Complete"
  <2>1. /\ UNCHANGED delivered
        /\ \/ parser.state = "Error" /\ stage' = "closed" /\ UNCHANGED <<parser, len, old_raw>>
           \/ /\ parser.state # "Error" /\ consumed > 0 /\ parser.partial # <<>>
              /\ Call(parser, 0)
           \/ /\ parser.state # "Error" /\ ~(consumed > 0 /\ parser.partial # <<>>)
              /\ stage' = "wait" /\ UNCHANGED <<parser, len, old_raw>>
    BY <1>6 DEF try_parse_message
  <2>a. stage' \in {"closed", "process", "wait"} /\ len' \in Nat /\ old_raw' \in Nat
    BY <1>2, <2>1 DEF Call
  <2>b. parser' = parser \/ parser' = [parser EXCEPT !.done = FALSE]
    BY <2>1 DEF Call
  <2>2. /\ parser' \in Parser /\ parser'.raw = parser.raw /\ parser'.partial = parser.partial
        /\ parser'.state = parser.state /\ parser'.headers = parser.headers
        /\ parser'.body_read = parser.body_read /\ parser'.phase = parser.phase
        /\ parser'.size = parser.size /\ parser'.read = parser.read
    BY <1>2, <2>b, Zenon DEF Parser
  <2>c. Text(parser') = Text(parser)
    BY <2>2, Zenon DEF Text
  <2> HIDE DEF m
  <2>3. Reading(parser', m) /\ (Ended(parser') <=> Ended(parser))
    <3>1. (\A x : Reading(parser, x) => Reading(parser', x)) /\ (Ended(parser') <=> Ended(parser))
      BY <2>2, SameReading, Zenon
    <3> QED BY <1>3, <3>1, Zenon
  <2>4. ParserTypeOK'
    BY <1>0, <1>1, <2>1, <2>a, <2>2 DEF ParserTypeOK
  <2>5. StreamOK'
    BY <1>0, <1>1 DEF StreamOK, Before
  <2>6. InputOK'
    BY <1>0, <1>1, <2>1, <2>c, Zenon DEF InputOK, DeliversExactly, Before
  <2>7. UnderWay'
    <3>1. Len(delivered') # Len(messages') /\ m = messages'[Len(delivered') + 1]
      BY <1>1, <1>2, <1>3, <2>1 DEF m
    <3> QED BY <2>3, <3>1, Zenon DEF UnderWay
  <2>8. StageOK'
    <3>1. CASE parser.state = "Error"
      <4>1. stage' = "closed"
        BY <2>1, <3>1
      <4> QED BY <2>2, <3>1, <4>1 DEF StageOK
    <3>2. CASE parser.state # "Error" /\ consumed > 0 /\ parser.partial # <<>>
      <4>1. stage' = "process" /\ old_raw' = Len(parser.raw) /\ ~parser'.done
        BY <1>2, <2>1, <3>2 DEF Call, Parser
      <4>2. ~Ended(parser')
        BY <1>6, <2>3, <3>2 DEF Ended
      <4>3. old_raw' <= Len(parser'.raw)
        BY <1>2, <2>2, <4>1
      <4> QED BY <4>1, <4>2, <4>3 DEF StageOK
    <3>3. CASE parser.state # "Error" /\ ~(consumed > 0 /\ parser.partial # <<>>)
      <4>1. stage' = "wait" /\ parser' = parser
        BY <2>1, <3>3
      <4>2. ~Ended(parser)
        BY <1>6, <3>3 DEF Ended
      <4>3. parser.partial = <<>> \/ Blocked(parser)
        <5> SUFFICES ASSUME parser.partial # <<>> PROVE Blocked(parser)
          OBVIOUS
        <5>1. ~(consumed > 0)
          BY <3>3
        <5>2. ~(Len(parser.raw) > old_raw)
          BY <1>2, <1>4, <5>1
        <5> QED BY <1>4, <4>2, <5>2, Zenon
      <4> QED BY <1>4, <4>1, <4>2, <4>3 DEF StageOK
    <3> QED BY <3>1, <3>2, <3>3
  <2> QED BY <2>4, <2>5, <2>6, <2>7, <2>8, Zenon DEF ParserIInv
<1> QED BY <1>5, <1>6

\* Every step keeps the invariant.
LEMMA NextParserIInv == ParserIInv /\ [ParserNext]_parser_vars => ParserIInv'
PROOF
<1> SUFFICES ASSUME ParserIInv, [ParserNext]_parser_vars PROVE ParserIInv'
  OBVIOUS
<1>1. CASE \E m \in Message : client_sends(m)
  BY <1>1, ClientKeeps
<1>2. CASE \E k \in 1..Len(stream) : on_read(k)
  BY <1>2, OnReadKeeps
<1>3. CASE step
  BY <1>3, StepKeeps
<1>4. CASE try_parse_message
  BY <1>4, TryKeeps
<1>5. CASE finish_response
  BY <1>5, FinishKeeps
<1>6. CASE UNCHANGED parser_vars
  BY <1>6, Zenon DEF parser_vars, client, ParserIInv, ParserTypeOK, StreamOK, InputOK, DeliversExactly,
     UnderWay, StageOK, Before
<1> QED BY <1>1, <1>2, <1>3, <1>4, <1>5, <1>6 DEF ParserNext

\* The invariant holds throughout.
THEOREM ParserInvariance == ParserSpec => []ParserIInv
BY InitParserIInv, NextParserIInv, PTL DEF ParserSpec

\* A parser that has nothing to go on with does not have all of its message.
LEMMA WaitsForMore ==
    ASSUME NEW p \in Parser, NEW m \in Message, Follows(p, m), Reading(p, m), ~Ended(p), Settled(p),
           p.partial = <<>> \/ Blocked(p)
    PROVE  Len(p.raw) + Len(p.partial) < Len(m)
PROOF
<1> DEFINE L == Len(p.raw)
           k == Len(p.partial)
<1> SUFFICES L + k < Len(m)
  BY Zenon
<1>1. /\ L \in 0..Len(m) /\ k \in Nat /\ L \in Nat /\ Len(m) \in Nat
      /\ Matches(p, Form[m][L])
  <2>1. m \in Seq(Token)
    BY ParserAssumption
  <2> QED BY <2>1, PlaceOf
<1> HIDE DEF L, k
<1>2. CASE p.partial = <<>>
  <2>1. Form[m][L].at \notin {"inside", "done"}
    BY <1>1 DEF Matches, Ended, Settled
  <2>2. Reads(m, L) \/ Rejects(m, L)
    BY <1>1, <2>1, PlaceHasItem
  <2>3. PICK n \in 1..3 : L + n <= Len(m)
    BY <2>2, Zenon DEF Reads, Rejects
  <2>4. k = 0
    BY <1>2 DEF k
  <2> QED BY <1>1, <2>3, <2>4
<1>3. CASE p.state = "RequestLine" /\ extract_line(p) = 0
  <2>1. Form[m][L].at = "start"
    BY <1>1, <1>3 DEF Matches
  <2>2. CASE L + 2 <= Len(m) /\ Blank(m, L)
    <3>1. ~(k >= 2)
      BY <1>3, <2>2, BlankAhead DEF L, k
    <3> QED BY <1>1, <2>2, <3>1
  <2>3. ASSUME NEW t \in {"GET", "XXX"}, L + 3 <= Len(m), Line(m, L, t) PROVE L + k < Len(m)
    <3>1. t \in Token \ {"CR"}
      BY DEF Token
    <3>2. ~(k >= 3)
      BY <1>3, <2>3, <3>1, LineAhead DEF L, k
    <3> QED BY <1>1, <2>3, <3>2
  <2> QED BY <1>1, <2>1, <2>2, <2>3, StartItem
<1>4. CASE p.state = "Headers" /\ ~StartsWithCRLF(p) /\ (k < 2 \/ extract_line(p) = 0)
  <2>1. Form[m][L].at = "head"
    BY <1>1, <1>4 DEF Matches
  <2>2. CASE L + 2 <= Len(m) /\ Blank(m, L)
    <3>1. ~(k >= 2)
      BY <1>4, <2>2, BlankAhead DEF L, k
    <3> QED BY <1>1, <2>2, <3>1
  <2>3. ASSUME NEW t \in HeaderLine, L + 3 <= Len(m), Line(m, L, t) PROVE L + k < Len(m)
    <3>1. t \in Token \ {"CR"}
      BY DEF Token, HeaderLine
    <3>2. k >= 3 => extract_line(p) = 2
      BY <2>3, <3>1, LineAhead DEF L, k
    <3>3. ~(k >= 3)
      BY <1>1, <1>4, <3>2
    <3> QED BY <1>1, <2>3, <3>3
  <2> QED BY <1>1, <2>1, <2>2, <2>3, HeadItem, Zenon
<1> QED BY <1>2, <1>3, <1>4, Zenon DEF Blocked, k

\* However the stream is cut, the requests delivered are the client's first messages.
THEOREM DeliveryIsExact == ParserSpec => []DeliversExactly
PROOF
<1>1. ParserIInv => DeliversExactly
  BY DEF ParserIInv, InputOK
<1> QED BY <1>1, ParserInvariance, PTL

\* A connection that waits for input holds no complete request.
THEOREM NothingIsHeldBack == ParserSpec => []NothingHeldBack
PROOF
<1>1. ParserIInv => NothingHeldBack
  <2> SUFFICES ASSUME ParserIInv, stage = "wait", NEW n \in 1..Len(messages), ends[n] <= fed,
                      ~(n <= Len(delivered))
               PROVE  FALSE
    BY DEF NothingHeldBack
  <2> DEFINE d == Len(delivered)
             m == messages[d + 1]
             b == Before(d + 1)
  <2>1. ParserTypeOK /\ StreamOK /\ InputOK /\ UnderWay /\ StageOK
    BY DEF ParserIInv
  <2>2. parser \in Parser /\ d \in Nat /\ Len(messages) \in Nat /\ fed \in Nat /\ ends \in Seq(Nat)
    BY <2>1 DEF ParserTypeOK
  <2>3. d < Len(messages) /\ d + 1 \in 1..n
    BY <2>2
  <2>4. /\ m \in Message /\ m \in Seq(Token) /\ b \in Nat /\ ends[d + 1] = b + Len(m)
        /\ Follows(parser, m) /\ Len(parser.raw) + Len(parser.partial) = fed - b
    BY <2>1, <2>3, MessageUnderWay, Zenon
  <2>5. Reading(parser, m)
    BY <2>1, <2>3 DEF UnderWay
  <2>6. ~Ended(parser) /\ Settled(parser) /\ (parser.partial = <<>> \/ Blocked(parser))
    BY <2>1 DEF StageOK
  <2> HIDE DEF m, b
  <2>7. fed - b < Len(m)
    BY <2>2, <2>4, <2>5, <2>6, WaitsForMore, Zenon
  <2>8. ends[d + 1] <= ends[n]
    BY <2>1, <2>3, Zenon DEF StreamOK
  <2>9. Len(ends) = Len(messages)
    BY <2>1 DEF StreamOK
  <2>10. ends[n] \in Nat
    BY <2>2, <2>9
  <2>11. Len(m) \in Nat
    BY <2>4
  <2> QED BY <2>2, <2>4, <2>7, <2>8, <2>10, <2>11
<1> QED BY <1>1, ParserInvariance, PTL

\* A message that is complete is a request.
LEMMA CompleteIsRequest ==
    ASSUME ParserIInv, stage = "returned", parser.state = "Complete"
    PROVE  parser.raw \in Requests
PROOF
<1> DEFINE m == messages[Len(delivered) + 1]
<1>1. Len(delivered) < Len(messages) /\ Reading(parser, m) /\ parser.raw = m
  BY CompleteIsWhole
<1>2. m \in Message /\ m \in Seq(Token)
  BY <1>1, MessageUnderWay DEF ParserIInv
<1>3. Form[m][Len(m)].at = "done"
  BY <1>1 DEF Reading, Matches
<1> HIDE DEF m
<1>4. Len(m) \in 0..Len(m)
  BY <1>2
<1>5. m \notin Garbage
  <2> SUFFICES ASSUME m \in Garbage PROVE FALSE
    OBVIOUS
  <2>1. Form[m][Len(m)] # Inside
    BY <1>3 DEF Inside, At
  <2>2. Reads(m, Len(m)) \/ Rejects(m, Len(m))
    BY <1>4, <2>1, ParserAssumption
  <2> QED BY <1>3, <2>2 DEF Reads, Rejects, Item, Bad
<1> QED BY <1>1, <1>2, <1>5 DEF Message

\* What is delivered has passed the check of its size.
Checked ==
    /\ stage = "returned" /\ parser.state = "Complete" => Len(parser.raw) <= MaxSize
    /\ \A n \in DOMAIN delivered : delivered[n] \in Requests /\ Len(delivered[n]) <= MaxSize

LEMMA NextChecked == ParserIInv /\ ParserIInv' /\ Checked /\ [ParserNext]_parser_vars => Checked'
PROOF
<1> SUFFICES ASSUME ParserIInv, ParserIInv', Checked, [ParserNext]_parser_vars PROVE Checked'
  OBVIOUS
<1>1. /\ parser \in Parser /\ parser' \in Parser /\ delivered \in Seq(Seq(Token)) /\ MaxSize \in Nat
  BY ParserAssumption DEF ParserIInv, ParserTypeOK
<1>2. CASE step
  <2>1. UNCHANGED delivered
    BY <1>2 DEF step
  <2>2. ASSUME stage' = "returned", parser'.state = "Complete" PROVE Len(parser'.raw) <= MaxSize
    <3>1. parser' = check_size_limit(process(parser))
      BY <1>2, <2>2 DEF step
    <3>2. Len(process(parser).raw) > MaxSize => parser'.state = "Error"
      BY <3>1, <1>1 DEF check_size_limit, Fail, Parser
    <3>3. parser' = process(parser) /\ ~(Len(process(parser).raw) > MaxSize)
      BY <2>2, <3>1, <3>2 DEF check_size_limit
    <3>4. Len(parser'.raw) \in Nat
      BY <1>1 DEF Parser
    <3> QED BY <1>1, <3>3, <3>4
  <2> QED BY <2>1, <2>2 DEF Checked
<1>3. CASE try_parse_message
  <2>1. CASE parser.state = "Complete"
    <3>1. /\ delivered' = Append(delivered, parser.raw) /\ stage' = "busy" /\ stage = "returned"
      BY <1>3, <2>1 DEF try_parse_message
    <3>2. parser.raw \in Requests /\ Len(parser.raw) <= MaxSize /\ parser.raw \in Seq(Token)
      BY <1>1, <2>1, <3>1, CompleteIsRequest DEF Checked, Parser
    <3>3. \A n \in DOMAIN delivered' : delivered'[n] = parser.raw \/ (n \in DOMAIN delivered /\ delivered'[n] = delivered[n])
      BY <1>1, <3>1, <3>2
    <3> QED BY <3>1, <3>2, <3>3, Zenon DEF Checked
  <2>2. CASE parser.state # "Complete"
    BY <1>3, <2>2 DEF try_parse_message, Call, Checked
  <2> QED BY <2>1, <2>2
<1>4. ASSUME NEW k \in 1..Len(stream), on_read(k) PROVE Checked'
  BY <1>4 DEF on_read, Call, Checked
<1>5. ASSUME NEW m \in Message, client_sends(m) PROVE Checked'
  BY <1>5 DEF client_sends, Checked
<1>6. CASE finish_response
  BY <1>6 DEF finish_response, Call, Checked
<1>7. CASE UNCHANGED parser_vars
  BY <1>7 DEF parser_vars, Checked
<1> QED BY <1>2, <1>3, <1>4, <1>5, <1>6, <1>7, Zenon DEF ParserNext

\* The parser fails on a message that is malformed or too long and delivers none such,
\* for messages of any length and any limit.
THEOREM BadAloneFails == ParserSpec => []FailsExactlyOnBad
PROOF
<1>1. ParserInit => Checked
  BY DEF ParserInit, Checked
<1>2. ParserIInv /\ Checked => FailsExactlyOnBad
  <2> SUFFICES ASSUME ParserIInv, Checked, stage = "closed"
               PROVE  LET next == messages[Len(delivered) + 1] IN next \in Garbage \/ Len(next) > MaxSize
    BY DEF FailsExactlyOnBad, Checked
  <2>1. ParserTypeOK /\ InputOK /\ UnderWay /\ StageOK
    BY DEF ParserIInv
  <2>2. Len(delivered) < Len(messages)
    <3>1. Len(delivered) <= Len(messages) /\ Len(delivered) # Len(messages)
      BY <2>1 DEF InputOK, DeliversExactly, UnderWay
    <3>2. Len(delivered) \in Nat /\ Len(messages) \in Nat
      BY <2>1 DEF ParserTypeOK
    <3> QED BY <3>1, <3>2
  <2>3. parser.state = "Error"
    BY <2>1 DEF StageOK
  <2> QED BY <2>1, <2>2, <2>3, Zenon DEF UnderWay, Reading
<1> QED BY <1>1, <1>2, ParserInvariance, NextChecked, PTL DEF ParserSpec

\* The worker's one-shot parser reads what the connection's parser completed in the same way.
THEOREM OneShotParserAgrees == ParserSpec => []OneShotAgrees
PROOF
<1>1. ParserIInv => OneShotAgrees
  <2> SUFFICES ASSUME ParserIInv, stage = "returned", parser.state = "Complete"
               PROVE  Agrees(parser.raw, parser.headers)
    BY Zenon DEF OneShotAgrees, Agrees
  <2>1. Reading(parser, messages[Len(delivered) + 1])
    BY CompleteIsWhole
  <2> QED BY <2>1 DEF Reading, Shape
<1> QED BY <1>1, ParserInvariance, PTL
=============================================================================
