------------------------- MODULE GatewayReactorSteps -------------------------
(***************************************************************************)
(* What the steps of the reactor do to its connections: the invariant that *)
(* GatewayReactorProofs shows to be inductive, the methods of a            *)
(* connection, the counting of what is under way, and how a connection     *)
(* may evolve in a step.                                                   *)
(***************************************************************************)
EXTENDS GatewayReactor, FiniteSetTheorems, WellFoundedInduction, TLAPS

\* What holds of one connection by itself.  The answers written are those to
\* the first requests; one more has been parsed while it is being answered.
Sound(r) ==
    /\ r.fd = NoFd <=> r.st \in {"none", "Closed"}
    /\ \A i \in DOMAIN r.sent : r.sent[i] = i
    /\ r.st \in {"none", "Reading", "Closing"} => r.parsed = Len(r.sent)
    /\ r.st \in {"Processing", "Writing"} => r.parsed = Len(r.sent) + 1
    /\ r.st = "Writing" => r.reply = r.parsed
    /\ r.st = "Closed" => r.parsed \in {Len(r.sent), Len(r.sent) + 1}

AllSound == \A c \in Conns : Sound(conn[c])

\* What is under way is the last request parsed on its connection.
UnderWayIsLast ==
    /\ held # None => held.req = conn[held.conn].parsed
    /\ \A i \in DOMAIN jobs : jobs[i].req = conn[jobs[i].conn].parsed
    /\ \A w \in Workers : working[w] # None => working[w].req = conn[working[w].conn].parsed
    /\ \A i \in DOMAIN deferred :
          deferred[i].kind = "send" => deferred[i].req = conn[deferred[i].conn].parsed

\* Where the reactor is and what it holds.
ReactorOK ==
    /\ todo <= Len(deferred)
    /\ pc = "wait" => batch = {}
    /\ IsFiniteSet(Open)
    /\ backlog \subseteq {c \in Conns : conn[c].st = "none"}
    /\ hup # None => conn[hup].st # "none"
    /\ \A i \in DOMAIN deferred : conn[deferred[i].conn].st # "none"

\* An event of the batch is of a connection that was open under its descriptor.
BatchOK ==
    \A e \in batch :
        e.kind = "client" => /\ conn[e.owner].st # "none"
                             /\ e.owner \in Open => conn[e.owner].fd = e.fd

IInv ==
    /\ TypeOK /\ AllSound /\ UnderWayIsLast /\ ReactorOK /\ BatchOK
    /\ OneAnswerUnderWay /\ TablesAgree /\ NoInputForgotten

-----------------------------------------------------------------------------
(* Sequences. *)

\* The empty sequence is one over any set.
LEMMA NoneOf ==
    ASSUME NEW S
    PROVE  <<>> \in Seq(S) /\ Len(<<>>) = 0
  OBVIOUS

\* One sequence after the other.
LEMMA Joined ==
    ASSUME NEW S, NEW s \in Seq(S), NEW t \in Seq(S)
    PROVE  /\ s \o t \in Seq(S)
           /\ Len(s \o t) = Len(s) + Len(t)
           /\ \A i \in 1..(Len(s) + Len(t)) :
                 (s \o t)[i] = IF i <= Len(s) THEN s[i] ELSE t[i - Len(s)]
  OBVIOUS

-----------------------------------------------------------------------------
(* The methods of a connection. *)

\* What a method leaves of connection r: an open connection under the same
\* descriptor or a closed one, with one more request parsed or none.
Leaves(r, q) ==
    /\ q \in Record /\ Sound(q)
    /\ q.st = "Closed" \/ (IsOpen(q) /\ q.fd = r.fd)
    /\ \/ q.parsed = r.parsed /\ (q.st = "Processing" => q = r)
       \/ q.parsed = r.parsed + 1 /\ q.st = "Processing" /\ r.st # "Closed"

\* What is waiting on a connection that waits for it.
Waits(r) == r.st \in {"Reading", "Closing"} /\ "IN" \in Events(r)

\* Fields that Sound does not speak of may change.
LEMMA SoundSame ==
    ASSUME NEW r \in Record, NEW q \in Record, Sound(r),
           q.st = r.st, q.fd = r.fd, q.sent = r.sent, q.parsed = r.parsed, q.reply = r.reply
    PROVE  Sound(q)
  BY DEF Sound

\* close_internal() closes.
LEMMA Closes ==
    ASSUME NEW r \in Record, Sound(r), IsOpen(r)
    PROVE  /\ close_internal(r) \in Record /\ Sound(close_internal(r))
           /\ close_internal(r).st = "Closed" /\ close_internal(r).parsed = r.parsed
  <1> DEFINE q == close_internal(r)
  <1>1. q = [r EXCEPT !.st = "Closed", !.fd = NoFd, !.armed = FALSE, !.out = FALSE]
    BY DEF close_internal, IsOpen
  <1>2. q \in Record
    BY <1>1, Zenon DEF Record, State
  <1>3. q.st = "Closed" /\ q.fd = NoFd /\ q.sent = r.sent /\ q.parsed = r.parsed
    BY <1>1 DEF Record
  <1> HIDE DEF q
  <1>4. Sound(q)
    BY <1>3 DEF Sound, IsOpen
  <1> QED
    BY <1>2, <1>3, <1>4 DEF q

\* Min is the least element.
LEMMA LeastNumber ==
    ASSUME NEW S \in SUBSET Nat, S # {}
    PROVE  Min(S) \in S /\ \A n \in S : Min(S) <= n
  <1> DEFINE R == OpToRel(<, Nat)
  <1>1. IsWellFoundedOn(R, Nat)
    BY NatLessThanWellFounded, Zenon
  <1> HIDE DEF R
  <1>2. PICK m \in S : \A n \in S : ~(<<n, m>> \in R)
    BY <1>1, WFMin
  <1>3. \A n \in S : m <= n
    <2> SUFFICES ASSUME NEW n \in S, n < m
                 PROVE  FALSE
      BY <1>2
    <2>1. <<n, m>> \in R
      BY DEF R, OpToRel
    <2> QED
      BY <2>1, <1>2
  <1>4. \E x \in S : \A y \in S : x =< y
    BY <1>3
  <1> QED
    BY <1>4 DEF Min

\* Where a message is complete or fails.
LEMMA MessageEnds ==
    ASSUME NEW p \in Seq(Unit \ {"big"}), message_end(p) # 0
    PROVE  message_end(p) \in 1..Len(p) /\ p[message_end(p)] \in {"bad", "req"}
  <1> DEFINE ends == {i \in DOMAIN p : p[i] # "part"}
  <1>1. ends \in SUBSET Nat /\ ends # {} /\ message_end(p) = Min(ends)
    BY DEF message_end
  <1>2. message_end(p) \in ends
    <2> HIDE DEF ends
    <2> QED
      BY <1>1, LeastNumber
  <1> QED
    BY <1>2 DEF Unit

\* try_parse_message() on a connection that is reading.
LEMMA Parses ==
    ASSUME NEW r \in Record, Sound(r), r.st = "Reading"
    PROVE  /\ try_parse_message(r) \in Record /\ Sound(try_parse_message(r))
           /\ \/ try_parse_message(r) = r
              \/ try_parse_message(r).st = "Closed" /\ try_parse_message(r).parsed = r.parsed
              \/ /\ try_parse_message(r).st = "Processing" /\ try_parse_message(r).fd = r.fd
                 /\ try_parse_message(r).parsed = r.parsed + 1
  <1> DEFINE q == try_parse_message(r)
             n == message_end(r.partial)
  <1>0. r.partial \in Seq(Unit \ {"big"})
    BY DEF Record
  <1>1. CASE n = 0
    <2>1. q = r
      BY <1>1 DEF try_parse_message
    <2> QED
      BY <2>1
  <1>2. n # 0 => n \in 1..Len(r.partial) /\ r.partial[n] \in {"bad", "req"}
    BY <1>0, MessageEnds
  <1>3. n # 0 => n > 0
    BY <1>0, <1>2
  <1> HIDE DEF n
  <1>4. CASE n # 0 /\ r.partial[n] = "bad"
    <2>1. q = close_internal(r)
      BY <1>3, <1>4 DEF try_parse_message, n
    <2>2. IsOpen(r)
      BY DEF IsOpen
    <2> QED
      BY <2>1, <2>2, Closes
  <1>5. CASE n # 0 /\ r.partial[n] = "req"
    <2> DEFINE rest == SubSeq(r.partial, n + 1, Len(r.partial))
    <2>1. q = [r EXCEPT !.st = "Processing", !.partial = rest, !.parsed = @ + 1]
      BY <1>3, <1>5 DEF try_parse_message, n
    <2>2. rest \in Seq(Unit \ {"big"}) /\ r.parsed + 1 \in Nat
      BY <1>0, <1>2, <1>5 DEF Record
    <2> HIDE DEF rest
    <2>3. q \in Record
      BY <2>1, <2>2, Zenon DEF Record, State
    <2>4. /\ q.st = "Processing" /\ q.fd = r.fd /\ q.sent = r.sent
          /\ q.parsed = r.parsed + 1 /\ q.reply = r.reply
      BY <2>1 DEF Record
    <2> HIDE DEF q
    <2>5. Sound(q)
      BY <2>4 DEF Sound
    <2> QED
      BY <2>3, <2>4, <2>5 DEF q
  <1> QED
    BY <1>1, <1>2, <1>4, <1>5

\* on_read() leaves nothing that the connection still waits for.
LEMMA Reads ==
    ASSUME NEW r \in Record, Sound(r), IsOpen(r)
    PROVE  Leaves(r, on_read(r)) /\ ~Waits(on_read(r))
  <1> DEFINE q == on_read(r)
  <1>0. <<>> \in Seq(Unit)
    BY NoneOf
  <1>1. CASE r.st = "Closing"
    <2> DEFINE a == [r EXCEPT !.rx = <<>>]
    <2>1. q = close_internal(a)
      BY <1>1 DEF on_read
    <2>2. a \in Record /\ a.st = r.st /\ a.fd = r.fd /\ a.sent = r.sent /\ a.parsed = r.parsed /\ a.reply = r.reply
      BY <1>0, Zenon DEF Record
    <2> HIDE DEF a, q
    <2>3. Sound(a) /\ IsOpen(a)
      BY <2>2, SoundSame DEF IsOpen
    <2>4. q \in Record /\ Sound(q) /\ q.st = "Closed" /\ q.parsed = r.parsed
      BY <2>1, <2>2, <2>3, Closes
    <2>5. Leaves(r, q) /\ ~Waits(q)
      BY <2>4 DEF Leaves, Waits
    <2> QED
      BY <2>5 DEF q
  <1>2. CASE r.st = "Reading"
    <2> DEFINE a == [r EXCEPT !.idle = FALSE, !.rx = <<>>]
               b == [a EXCEPT !.partial = @ \o r.rx]
    <2>1. q = IF r.peer # "open" \/ "big" \in Range(r.rx) THEN close_internal(a)
              ELSE try_parse_message(b)
      BY <1>2 DEF on_read
    <2>2. a \in Record /\ a.st = r.st /\ a.fd = r.fd /\ a.sent = r.sent /\ a.parsed = r.parsed /\ a.reply = r.reply
      BY <1>0, Zenon DEF Record
    <2>3. Sound(a) /\ IsOpen(a)
      BY <2>2, SoundSame, Zenon DEF IsOpen
    <2>4. CASE r.peer # "open" \/ "big" \in Range(r.rx)
      <3>1. q \in Record /\ Sound(q) /\ q.st = "Closed" /\ q.parsed = r.parsed
        <4> HIDE DEF a
        <4> QED
          BY <2>1, <2>2, <2>3, <2>4, Closes
      <3> HIDE DEF q
      <3>2. Leaves(r, q) /\ ~Waits(q)
        BY <3>1 DEF Leaves, Waits
      <3> QED
        BY <3>2 DEF q
    <2>5. CASE r.peer = "open" /\ "big" \notin Range(r.rx)
      <3>1. r.rx \in Seq(Unit \ {"big"}) /\ r.partial \in Seq(Unit \ {"big"})
        BY <2>5 DEF Record, Range
      <3>2. r.partial \o r.rx \in Seq(Unit \ {"big"})
        BY <3>1, Joined
      <3>3. b = [r EXCEPT !.idle = FALSE, !.rx = <<>>, !.partial = r.partial \o r.rx]
        BY DEF Record
      <3>4. /\ b \in Record /\ b.st = r.st /\ b.fd = r.fd /\ b.sent = r.sent
            /\ b.parsed = r.parsed /\ b.reply = r.reply /\ b.rx = <<>> /\ b.peer = "open"
        BY <3>2, <3>3, <2>5, <1>0, Zenon DEF Record
      <3> HIDE DEF a, b
      <3>5. Sound(b)
        BY <3>4, SoundSame
      <3>6. q = try_parse_message(b)
        BY <2>1, <2>5
      <3> HIDE DEF q
      <3>7. /\ q \in Record /\ Sound(q)
            /\ \/ q = b
               \/ q.st = "Closed" /\ q.parsed = b.parsed
               \/ q.st = "Processing" /\ q.fd = b.fd /\ q.parsed = b.parsed + 1
        BY <3>4, <3>5, <3>6, <1>2, Parses
      <3>8. "IN" \notin Events(b)
        BY <3>4 DEF Events
      <3>9. Leaves(r, q)
        BY <3>4, <3>7, <1>2 DEF Leaves, IsOpen
      <3>10. ~Waits(q)
        BY <3>7, <3>8 DEF Waits
      <3> QED
        BY <3>9, <3>10 DEF q
    <2> QED
      BY <2>4, <2>5
  <1>3. CASE r.st \notin {"Closing", "Reading"}
    <2>1. q = r
      BY <1>3 DEF on_read
    <2> QED
      BY <2>1, <1>3 DEF Leaves, Waits
  <1> QED
    BY <1>1, <1>2, <1>3

\* finish_response() after the last answer has gone out.
LEMMA Finishes ==
    ASSUME NEW r \in Record, r.st = "Writing", r.fd # NoFd,
           \A i \in DOMAIN r.sent : r.sent[i] = i, r.parsed = Len(r.sent)
    PROVE  Leaves(r, finish_response(r)) /\ ~(Waits(finish_response(r)) /\ ~finish_response(r).armed)
  <1> DEFINE a == [r EXCEPT !.st = "Reading", !.out = FALSE, !.armed = TRUE]
             b == [r EXCEPT !.st = "Closing", !.out = FALSE, !.armed = TRUE]
             q == finish_response(r)
  <1>1. /\ a = mod_fd([r EXCEPT !.st = "Reading"], FALSE)
        /\ b = mod_fd([r EXCEPT !.st = "Closing"], FALSE)
    BY DEF mod_fd, Record
  <1>2. /\ a \in Record /\ a.st = "Reading" /\ a.fd = r.fd /\ a.sent = r.sent
        /\ a.parsed = r.parsed /\ a.reply = r.reply /\ a.armed
    BY Zenon DEF Record, State
  <1>3. /\ b \in Record /\ b.st = "Closing" /\ b.fd = r.fd /\ b.sent = r.sent
        /\ b.parsed = r.parsed /\ b.reply = r.reply /\ b.armed
    BY Zenon DEF Record, State
  <1>4. q = IF r.keep_alive THEN try_parse_message(a) ELSE b
    BY <1>1 DEF finish_response
  <1> HIDE DEF a, b, q
  <1>5. Sound(a) /\ Sound(b)
    BY <1>2, <1>3 DEF Sound
  <1>6. CASE r.keep_alive
    <2>1. /\ q \in Record /\ Sound(q)
          /\ \/ q = a
             \/ q.st = "Closed" /\ q.parsed = a.parsed
             \/ q.st = "Processing" /\ q.fd = a.fd /\ q.parsed = a.parsed + 1
      BY <1>2, <1>4, <1>5, <1>6, Parses
    <2>5. Leaves(r, q) /\ ~(Waits(q) /\ ~q.armed)
      BY <2>1, <1>2 DEF Leaves, Waits, IsOpen
    <2> QED
      BY <2>5 DEF q
  <1>7. CASE ~r.keep_alive
    <2>1. q = b
      BY <1>4, <1>7
    <2> QED
      BY <2>1, <1>3, <1>5 DEF Leaves, IsOpen, q
  <1> QED
    BY <1>6, <1>7

\* on_write() changes nothing unless a response is being written.
LEMMA Writes ==
    ASSUME NEW r \in Record, Sound(r), IsOpen(r), NEW q \in on_write(r)
    PROVE  /\ Leaves(r, q) /\ (r.st = "Writing" => ~(Waits(q) /\ ~q.armed))
           /\ r.st # "Writing" => q = r
           /\ r.st = "Writing" /\ q.parsed = r.parsed => q.st # "Processing"
  <1> DEFINE a == [r EXCEPT !.idle = FALSE]
             b == [a EXCEPT !.sent = Append(@, r.reply)]
             d == [a EXCEPT !.room = FALSE]
  <1>1. CASE r.st # "Writing"
    <2>1. q = r
      BY <1>1 DEF on_write
    <2> QED
      BY <2>1, <1>1 DEF Leaves
  <1>2. CASE r.st = "Writing"
    <2>1. q \in {close_internal(a), a, finish_response(b), d}
      BY <1>2 DEF on_write
    <2>2. /\ a \in Record /\ a.st = r.st /\ a.fd = r.fd /\ a.sent = r.sent
          /\ a.parsed = r.parsed /\ a.reply = r.reply
      BY Zenon DEF Record
    <2>3. /\ d \in Record /\ d.st = r.st /\ d.fd = r.fd /\ d.sent = r.sent
          /\ d.parsed = r.parsed /\ d.reply = r.reply
      BY Zenon DEF Record
    <2>4. r.reply \in Nat /\ r.sent \in Seq(Nat) /\ Append(r.sent, r.reply) \in Seq(Nat)
      BY DEF Record
    <2>5. /\ b \in Record /\ b.st = r.st /\ b.fd = r.fd /\ b.sent = Append(r.sent, r.reply)
          /\ b.parsed = r.parsed
      BY <2>4, Zenon DEF Record
    <2> HIDE DEF a, b, d
    <2>6. Sound(a) /\ Sound(d) /\ IsOpen(a) /\ IsOpen(d)
      BY <2>2, <2>3, SoundSame DEF IsOpen
    <2>7. (\A i \in DOMAIN b.sent : b.sent[i] = i) /\ b.parsed = Len(b.sent)
      BY <2>4, <2>5, <1>2 DEF Sound
    <2>8. CASE q = close_internal(a)
      <3>1. q \in Record /\ Sound(q) /\ q.st = "Closed" /\ q.parsed = r.parsed
        BY <2>2, <2>6, <2>8, Closes
      <3> QED
        BY <3>1, <1>2 DEF Leaves, Waits
    <2>9. CASE q = a
      BY <2>2, <2>6, <2>9, <1>2 DEF Leaves, Waits
    <2>10. CASE q = d
      BY <2>3, <2>6, <2>10, <1>2 DEF Leaves, Waits
    <2>11. CASE q = finish_response(b)
      <3>1. r.fd # NoFd
        BY DEF Sound, IsOpen
      <3>2. Leaves(b, q) /\ ~(Waits(q) /\ ~q.armed)
        BY <2>5, <2>7, <2>11, <3>1, <1>2, Finishes
      <3>3. r.parsed \in Nat
        BY DEF Record
      <3> QED
        BY <3>2, <3>3, <2>5, <1>2 DEF Leaves
    <2> QED
      BY <2>1, <2>8, <2>9, <2>10, <2>11
  <1> QED
    BY <1>1, <1>2

\* send_internal() of the answer to the last request.
LEMMA SendsOn ==
    ASSUME NEW r \in Record, Sound(r), r.st = "Processing", NEW ka \in BOOLEAN,
           NEW q \in send_internal(r, r.parsed, ka)
    PROVE  /\ Leaves(r, q) /\ ~(Waits(q) /\ ~q.armed)
           /\ q.parsed = r.parsed => q.st # "Processing"
  <1> DEFINE a == [r EXCEPT !.st = "Writing", !.reply = r.parsed, !.keep_alive = ka,
                            !.out = TRUE, !.armed = TRUE]
  <1>1. r.parsed \in Nat
    BY DEF Record
  <1>2. /\ a \in Record /\ a.st = "Writing" /\ a.fd = r.fd /\ a.sent = r.sent
        /\ a.parsed = r.parsed /\ a.reply = r.parsed
    BY <1>1, Zenon DEF Record, State
  <1>3. a = mod_fd([r EXCEPT !.st = "Writing", !.reply = r.parsed, !.keep_alive = ka], TRUE)
    BY DEF mod_fd, Record
  <1>4. q \in on_write(a)
    BY <1>3, Zenon DEF send_internal
  <1> HIDE DEF a
  <1>5. Sound(a) /\ IsOpen(a)
    BY <1>2 DEF Sound, IsOpen
  <1>6. /\ Leaves(a, q) /\ ~(Waits(q) /\ ~q.armed)
        /\ q.parsed = a.parsed => q.st # "Processing"
    BY <1>2, <1>4, <1>5, Writes
  <1> QED
    BY <1>2, <1>6 DEF Leaves

-----------------------------------------------------------------------------
(* Counting the members of a queue. *)

\* Where a sequence has a member of S.
Places(s, S) == {i \in DOMAIN s : s[i] \in S}

\* There are finitely many of them, and none only if no member is in S.
LEMMA PlacesFinite ==
    ASSUME NEW T, NEW s \in Seq(T), NEW S
    PROVE  /\ IsFiniteSet(Places(s, S)) /\ Cardinality(Places(s, S)) \in Nat
           /\ Cardinality(Places(s, S)) = 0 => \A i \in DOMAIN s : s[i] \notin S
  <1>1. Places(s, S) \in SUBSET (1..Len(s)) /\ Len(s) \in Nat
    BY DEF Places
  <1>2. IsFiniteSet(1..Len(s))
    BY <1>1, FS_Interval
  <1>3. IsFiniteSet(Places(s, S))
    BY <1>1, <1>2, FS_Subset
  <1>4. Cardinality(Places(s, S)) \in Nat
    BY <1>3, FS_CardinalityType
  <1>5. Cardinality(Places(s, S)) = 0 => Places(s, S) = {}
    BY <1>3, FS_EmptySet
  <1> QED
    BY <1>3, <1>4, <1>5 DEF Places

\* Appending a member of S adds a place.
LEMMA PlacesAppend ==
    ASSUME NEW T, NEW s \in Seq(T), NEW x \in T, NEW S
    PROVE  Cardinality(Places(Append(s, x), S))
             = Cardinality(Places(s, S)) + (IF x \in S THEN 1 ELSE 0)
  <1> DEFINE n == Len(s) + 1
             A == Places(s, S)
  <1>1. n \in Nat /\ n \notin A
    BY DEF Places
  <1>2. Places(Append(s, x), S) = IF x \in S THEN A \cup {n} ELSE A
    BY DEF Places
  <1>3. IsFiniteSet(A) /\ Cardinality(A) \in Nat
    BY PlacesFinite
  <1> HIDE DEF A, n
  <1>4. Cardinality(A \cup {n}) = Cardinality(A) + 1
    BY <1>1, <1>3, FS_AddElement, Zenon
  <1> QED
    BY <1>2, <1>3, <1>4 DEF A

\* Taking the first member away takes its place away.
LEMMA PlacesTail ==
    ASSUME NEW T, NEW s \in Seq(T), s # <<>>, NEW S
    PROVE  Cardinality(Places(s, S))
             = Cardinality(Places(Tail(s), S)) + (IF Head(s) \in S THEN 1 ELSE 0)
  <1> DEFINE A == Places(s, S)
             B == Places(Tail(s), S)
             f == [i \in B |-> i + 1]
  <1>1. Tail(s) \in Seq(T) /\ Len(s) \in Nat /\ Len(s) > 0 /\ Len(Tail(s)) = Len(s) - 1
    OBVIOUS
  <1>2. /\ \A i \in 1..Len(Tail(s)) : Tail(s)[i] = s[i + 1]
        /\ DOMAIN s = 1..Len(s) /\ DOMAIN Tail(s) = 1..Len(Tail(s)) /\ Head(s) = s[1]
    OBVIOUS
  <1>3. \A i \in B : i \in Nat /\ i + 1 \in A \ {1}
    BY <1>1, <1>2 DEF Places
  <1>4. \A j \in A \ {1} : \E i \in B : j = i + 1
    <2> SUFFICES ASSUME NEW j \in A \ {1}
                 PROVE  j - 1 \in B /\ j = (j - 1) + 1
      OBVIOUS
    <2>1. j \in 2..Len(s) /\ s[j] \in S
      BY <1>1, <1>2 DEF Places
    <2>2. j - 1 \in 1..Len(Tail(s)) /\ j = (j - 1) + 1
      BY <2>1, <1>1
    <2> QED
      BY <2>1, <2>2, <1>2 DEF Places
  <1>5. IsFiniteSet(A) /\ IsFiniteSet(B) /\ Cardinality(A) \in Nat /\ Cardinality(B) \in Nat
    BY <1>1, PlacesFinite, Zenon
  <1>6. 1 \in A <=> Head(s) \in S
    BY <1>1, <1>2 DEF Places
  <1> HIDE DEF A, B
  <1>7. f \in Bijection(B, A \ {1})
    BY <1>3, <1>4 DEF Bijection, Injection, Surjection, IsInjective
  <1>8. Cardinality(A \ {1}) = Cardinality(B)
    BY <1>5, <1>7, FS_Bijection, Zenon DEF ExistsBijection
  <1>9. Cardinality(A \ {1}) = IF 1 \in A THEN Cardinality(A) - 1 ELSE Cardinality(A)
    BY <1>5, FS_RemoveElement, Zenon
  <1> QED
    BY <1>5, <1>6, <1>8, <1>9 DEF A, B

\* Adding members outside S adds no place.
LEMMA PlacesConcat ==
    ASSUME NEW T, NEW s \in Seq(T), NEW t \in Seq(T), NEW S, \A i \in DOMAIN t : t[i] \notin S
    PROVE  Places(s \o t, S) = Places(s, S)
  <1>1. /\ Len(s) \in Nat /\ Len(t) \in Nat /\ DOMAIN s = 1..Len(s) /\ DOMAIN t = 1..Len(t)
        /\ DOMAIN (s \o t) = 1..(Len(s) + Len(t))
        /\ \A i \in 1..(Len(s) + Len(t)) :
              (s \o t)[i] = IF i <= Len(s) THEN s[i] ELSE t[i - Len(s)]
    OBVIOUS
  <1>2. \A i \in 1..(Len(s) + Len(t)) : i <= Len(s) \/ i - Len(s) \in 1..Len(t)
    BY <1>1
  <1> QED
    BY <1>1, <1>2 DEF Places

-----------------------------------------------------------------------------
(* What is under way for a connection. *)

JobsOf(c) == {j \in Job : j.conn = c}
SendsOf(c) == {t \in Task : t.kind = "send" /\ t.conn = c}
WorkersOn(wk, c) == {w \in Workers : wk[w] # None /\ wk[w].conn = c}

\* Outstanding(c), of a held job h, queued jobs js, workers wk and tasks ds.
Under(h, js, wk, ds, c) ==
    (IF h # None /\ h.conn = c THEN 1 ELSE 0)
    + Cardinality(Places(js, JobsOf(c)))
    + Cardinality(WorkersOn(wk, c))
    + Cardinality(Places(ds, SendsOf(c)))

\* The members of Outstanding's sums are these places.
LEMMA UnderIs ==
    ASSUME NEW js \in Seq(Job), NEW ds \in Seq(Task), NEW c \in Conns
    PROVE  /\ {i \in DOMAIN js : js[i].conn = c} = Places(js, JobsOf(c))
           /\ {i \in DOMAIN ds : ds[i].kind = "send" /\ ds[i].conn = c} = Places(ds, SendsOf(c))
  <1>1. \A i \in DOMAIN js : js[i] \in Job
    OBVIOUS
  <1>2. \A i \in DOMAIN ds : ds[i] \in Task
    OBVIOUS
  <1> QED
    BY <1>1, <1>2 DEF Places, JobsOf, SendsOf

\* The workers on a connection are finitely many.
LEMMA WorkersFinite ==
    ASSUME NEW wk \in [Workers -> Job \cup {None}], NEW c \in Conns
    PROVE  /\ IsFiniteSet(WorkersOn(wk, c)) /\ Cardinality(WorkersOn(wk, c)) \in Nat
           /\ Cardinality(WorkersOn(wk, c)) = 0 => \A w \in Workers : wk[w] # None => wk[w].conn # c
  <1>1. IsFiniteSet(WorkersOn(wk, c))
    BY ReactorAssumption, FS_Subset DEF WorkersOn
  <1>2. Cardinality(WorkersOn(wk, c)) = 0 => WorkersOn(wk, c) = {}
    BY <1>1, FS_EmptySet
  <1> QED
    BY <1>1, <1>2, FS_CardinalityType DEF WorkersOn

\* A worker that takes a job is added.
LEMMA WorkersAdd ==
    ASSUME NEW wk \in [Workers -> Job \cup {None}], NEW w \in Workers, NEW j \in Job, NEW c \in Conns,
           wk[w] = None
    PROVE  Cardinality(WorkersOn([wk EXCEPT ![w] = j], c))
             = Cardinality(WorkersOn(wk, c)) + (IF j.conn = c THEN 1 ELSE 0)
  <1> DEFINE A == WorkersOn(wk, c)
  <1>0. j # None
    BY ReactorAssumption
  <1>1. IsFiniteSet(A) /\ Cardinality(A) \in Nat
    BY WorkersFinite
  <1>2. w \notin A /\ WorkersOn([wk EXCEPT ![w] = j], c) = IF j.conn = c THEN A \cup {w} ELSE A
    BY <1>0 DEF WorkersOn
  <1> HIDE DEF A
  <1>3. Cardinality(A \cup {w}) = Cardinality(A) + 1
    BY <1>1, <1>2, FS_AddElement, Zenon
  <1> QED
    BY <1>1, <1>2, <1>3 DEF A

\* A worker that has answered is removed.
LEMMA WorkersRemove ==
    ASSUME NEW wk \in [Workers -> Job \cup {None}], NEW w \in Workers, NEW c \in Conns, wk[w] # None
    PROVE  /\ Cardinality(WorkersOn([wk EXCEPT ![w] = None], c)) \in Nat
           /\ Cardinality(WorkersOn(wk, c))
                = Cardinality(WorkersOn([wk EXCEPT ![w] = None], c)) + (IF wk[w].conn = c THEN 1 ELSE 0)
  <1>1. PICK A : A = WorkersOn(wk, c)
    OBVIOUS
  <1>2. PICK B : B = WorkersOn([wk EXCEPT ![w] = None], c)
    OBVIOUS
  <1>3. IsFiniteSet(A) /\ Cardinality(A) \in Nat
    BY <1>1, WorkersFinite
  <1>4. B = A \ {w} /\ (w \in A <=> wk[w].conn = c)
    BY <1>1, <1>2 DEF WorkersOn
  <1>5. IsFiniteSet(B) /\ Cardinality(B) \in Nat
    BY <1>3, <1>4, FS_RemoveElement, FS_CardinalityType
  <1>6. Cardinality(B) = IF w \in A THEN Cardinality(A) - 1 ELSE Cardinality(A)
    BY <1>3, <1>4, FS_RemoveElement, Zenon
  <1>7. Cardinality(A) = Cardinality(B) + (IF wk[w].conn = c THEN 1 ELSE 0)
    BY <1>3, <1>4, <1>5, <1>6
  <1> QED
    BY <1>1, <1>2, <1>5, <1>7

\* Nothing is under way only if nothing is.
LEMMA UnderNone ==
    ASSUME NEW h \in Job \cup {None}, NEW js \in Seq(Job),
           NEW wk \in [Workers -> Job \cup {None}], NEW ds \in Seq(Task), NEW c \in Conns
    PROVE  /\ Under(h, js, wk, ds, c) \in Nat
           /\ Under(h, js, wk, ds, c) = 0 =>
                /\ h # None => h.conn # c
                /\ \A i \in DOMAIN js : js[i].conn # c
                /\ \A w \in Workers : wk[w] # None => wk[w].conn # c
                /\ \A i \in DOMAIN ds : ds[i].kind = "send" => ds[i].conn # c
           /\ h # None /\ h.conn = c => Under(h, js, wk, ds, c) > 0
           /\ \A i \in DOMAIN js : js[i].conn = c => Under(h, js, wk, ds, c) > 0
           /\ \A w \in Workers : wk[w] # None /\ wk[w].conn = c => Under(h, js, wk, ds, c) > 0
           /\ \A i \in DOMAIN ds : ds[i].kind = "send" /\ ds[i].conn = c
                                      => Under(h, js, wk, ds, c) > 0
  <1>1. /\ Cardinality(Places(js, JobsOf(c))) \in Nat
        /\ Cardinality(Places(js, JobsOf(c))) = 0 => \A i \in DOMAIN js : js[i] \notin JobsOf(c)
    BY PlacesFinite
  <1>2. /\ Cardinality(Places(ds, SendsOf(c))) \in Nat
        /\ Cardinality(Places(ds, SendsOf(c))) = 0 => \A i \in DOMAIN ds : ds[i] \notin SendsOf(c)
    BY PlacesFinite
  <1>3. /\ Cardinality(WorkersOn(wk, c)) \in Nat
        /\ Cardinality(WorkersOn(wk, c)) = 0 => \A w \in Workers : wk[w] # None => wk[w].conn # c
    BY WorkersFinite
  <1>4. \A i \in DOMAIN js : js[i] \in JobsOf(c) <=> js[i].conn = c
    BY DEF JobsOf
  <1>5. \A i \in DOMAIN ds : ds[i] \in SendsOf(c) <=> ds[i].kind = "send" /\ ds[i].conn = c
    BY DEF SendsOf
  <1>6. PICK J, W, D, k : /\ J = Cardinality(Places(js, JobsOf(c))) /\ W = Cardinality(WorkersOn(wk, c))
                          /\ D = Cardinality(Places(ds, SendsOf(c)))
                          /\ k = IF h # None /\ h.conn = c THEN 1 ELSE 0
    OBVIOUS
  <1>7. Under(h, js, wk, ds, c) = k + J + W + D
    BY <1>6, Zenon DEF Under
  <1>8. /\ k \in {0, 1} /\ (k = 0 <=> ~(h # None /\ h.conn = c))
        /\ J \in Nat /\ W \in Nat /\ D \in Nat
    BY <1>1, <1>2, <1>3, <1>6
  <1>9. /\ k + J + W + D \in Nat
        /\ k + J + W + D = 0 <=> k = 0 /\ J = 0 /\ W = 0 /\ D = 0
        /\ k + J + W + D # 0 => k + J + W + D > 0
    BY <1>8
  <1>10. /\ J = 0 => \A i \in DOMAIN js : js[i].conn # c
         /\ W = 0 => \A w \in Workers : wk[w] # None => wk[w].conn # c
         /\ D = 0 => \A i \in DOMAIN ds : ds[i].kind = "send" => ds[i].conn # c
    BY <1>1, <1>2, <1>3, <1>4, <1>5, <1>6
  <1> QED
    BY <1>7, <1>8, <1>9, <1>10

\* The places where nothing is.
LEMMA NothingUnder ==
    ASSUME NEW js \in Seq(Job), NEW wk \in [Workers -> Job \cup {None}],
           NEW ds \in Seq(Task), NEW c \in Conns, Under(None, js, wk, ds, c) = 0
    PROVE  /\ \A i \in DOMAIN js : js[i].conn # c
           /\ \A w \in Workers : wk[w] # None => wk[w].conn # c
           /\ \A i \in DOMAIN ds : ds[i].kind = "send" => ds[i].conn # c
  <1>1. PICK n : n = Under(None, js, wk, ds, c)
    OBVIOUS
  <1>2. ~(n > 0)
    BY <1>1
  <1>3. /\ \A i \in DOMAIN js : js[i].conn = c => n > 0
        /\ \A w \in Workers : wk[w] # None /\ wk[w].conn = c => n > 0
        /\ \A i \in DOMAIN ds : ds[i].kind = "send" /\ ds[i].conn = c => n > 0
    BY <1>1, UnderNone, Zenon
  <1> QED
    BY <1>2, <1>3, Zenon

\* submit() moves a job from the reactor to the queue.
LEMMA UnderSubmit ==
    ASSUME NEW js \in Seq(Job), NEW wk \in [Workers -> Job \cup {None}],
           NEW ds \in Seq(Task), NEW c \in Conns, NEW h \in Job
    PROVE  Under(None, Append(js, h), wk, ds, c) = Under(h, js, wk, ds, c)
  <1>1. h # None /\ (h \in JobsOf(c) <=> h.conn = c)
    BY ReactorAssumption DEF JobsOf
  <1>2. Cardinality(Places(Append(js, h), JobsOf(c)))
          = Cardinality(Places(js, JobsOf(c))) + (IF h \in JobsOf(c) THEN 1 ELSE 0)
    BY PlacesAppend
  <1>3. Cardinality(Places(js, JobsOf(c))) \in Nat
    BY PlacesFinite
  <1> QED
    BY <1>1, <1>2, <1>3 DEF Under

\* A worker takes the oldest job.
LEMMA UnderTake ==
    ASSUME NEW js \in Seq(Job), NEW wk \in [Workers -> Job \cup {None}],
           NEW ds \in Seq(Task), NEW c \in Conns, NEW h \in Job \cup {None}, NEW w \in Workers, wk[w] = None, js # <<>>
    PROVE  Under(h, Tail(js), [wk EXCEPT ![w] = Head(js)], ds, c) = Under(h, js, wk, ds, c)
  <1>1. Head(js) \in Job /\ Tail(js) \in Seq(Job) /\ (Head(js) \in JobsOf(c) <=> Head(js).conn = c)
    BY DEF JobsOf
  <1>2. Cardinality(Places(js, JobsOf(c)))
          = Cardinality(Places(Tail(js), JobsOf(c))) + (IF Head(js) \in JobsOf(c) THEN 1 ELSE 0)
    BY PlacesTail
  <1>3. Cardinality(WorkersOn([wk EXCEPT ![w] = Head(js)], c))
          = Cardinality(WorkersOn(wk, c)) + (IF Head(js).conn = c THEN 1 ELSE 0)
    BY <1>1, WorkersAdd, Zenon
  <1>4. Cardinality(Places(Tail(js), JobsOf(c))) \in Nat /\ Cardinality(WorkersOn(wk, c)) \in Nat
    BY <1>1, PlacesFinite, WorkersFinite, Zenon
  <1>5. PICK J, K, W, V, D, k :
           /\ J = Cardinality(Places(js, JobsOf(c))) /\ K = Cardinality(Places(Tail(js), JobsOf(c)))
           /\ W = Cardinality(WorkersOn(wk, c)) /\ V = Cardinality(WorkersOn([wk EXCEPT ![w] = Head(js)], c))
           /\ D = Cardinality(Places(ds, SendsOf(c)))
           /\ k = IF h # None /\ h.conn = c THEN 1 ELSE 0
    OBVIOUS
  <1>6. J + W = K + V /\ J \in Nat /\ K \in Nat /\ V \in Nat /\ W \in Nat /\ D \in Nat /\ k \in Nat
    <2>1. D \in Nat
      BY <1>5, PlacesFinite
    <2> QED
      BY <2>1, <1>1, <1>2, <1>3, <1>4, <1>5, SMTT(60)
  <1>7. k + J + W + D = k + K + V + D
    BY <1>6
  <1> QED
    BY <1>5, <1>7, Zenon DEF Under

\* What one part of a sum loses the other part wins.
LEMMA SameSum ==
    ASSUME NEW k \in Nat, NEW J \in Nat, NEW W \in Nat, NEW D \in Nat, NEW V \in Nat, NEW E \in Nat,
           W + D = V + E
    PROVE  k + J + W + D = k + J + V + E
  OBVIOUS

\* process_request() turns the job of a worker into a task of the loop.
LEMMA UnderAnswer ==
    ASSUME NEW js \in Seq(Job), NEW wk \in [Workers -> Job \cup {None}],
           NEW ds \in Seq(Task), NEW c \in Conns, NEW h \in Job \cup {None}, NEW w \in Workers, wk[w] # None,
           NEW t \in Task, t.kind = "send", t.conn = wk[w].conn
    PROVE  Under(h, js, [wk EXCEPT ![w] = None], Append(ds, t), c) = Under(h, js, wk, ds, c)
  <1>1. wk[w] \in Job /\ (t \in SendsOf(c) <=> wk[w].conn = c)
    BY DEF SendsOf
  <1>2. Cardinality(Places(Append(ds, t), SendsOf(c)))
          = Cardinality(Places(ds, SendsOf(c))) + (IF t \in SendsOf(c) THEN 1 ELSE 0)
    BY PlacesAppend
  <1>3. /\ Cardinality(WorkersOn(wk, c))
             = Cardinality(WorkersOn([wk EXCEPT ![w] = None], c)) + (IF wk[w].conn = c THEN 1 ELSE 0)
        /\ Cardinality(WorkersOn([wk EXCEPT ![w] = None], c)) \in Nat
    BY WorkersRemove, Zenon
  <1>4. Cardinality(WorkersOn(wk, c)) \in Nat
    BY WorkersFinite
  <1>5. PICK J, W, V, D, E, k :
           /\ J = Cardinality(Places(js, JobsOf(c)))
           /\ W = Cardinality(WorkersOn(wk, c)) /\ V = Cardinality(WorkersOn([wk EXCEPT ![w] = None], c))
           /\ D = Cardinality(Places(ds, SendsOf(c))) /\ E = Cardinality(Places(Append(ds, t), SendsOf(c)))
           /\ k = IF h # None /\ h.conn = c THEN 1 ELSE 0
    OBVIOUS
  <1>6. W + D = V + E /\ J \in Nat /\ E \in Nat /\ V \in Nat /\ W \in Nat /\ D \in Nat /\ k \in Nat
    <2>1. D \in Nat /\ J \in Nat
      BY <1>5, PlacesFinite
    <2>2. PICK x \in {0, 1} : x = IF wk[w].conn = c THEN 1 ELSE 0
      OBVIOUS
    <2>3. W = V + x /\ V \in Nat /\ W \in Nat
      BY <2>2, <1>3, <1>4, <1>5
    <2>4. E = D + x
      BY <2>2, <1>1, <1>2, <1>5
    <2>5. k \in Nat
      BY <1>5
    <2> QED
      BY <2>1, <2>2, <2>3, <2>4, <2>5, SMTT(60)
  <1>7. k + J + W + D = k + J + V + E
    BY <1>6, SameSum, SMTT(60)
  <1> QED
    BY <1>5, <1>7, Zenon DEF Under

\* Closes that are queued are no answers.
LEMMA UnderCloses ==
    ASSUME NEW js \in Seq(Job), NEW wk \in [Workers -> Job \cup {None}],
           NEW ds \in Seq(Task), NEW c \in Conns, NEW h \in Job \cup {None}, NEW t \in Seq(Task),
           \A i \in DOMAIN t : t[i].kind = "close"
    PROVE  Under(h, js, wk, ds \o t, c) = Under(h, js, wk, ds, c)
  <1>1. \A i \in DOMAIN t : t[i] \notin SendsOf(c)
    BY DEF SendsOf
  <1>2. Places(ds \o t, SendsOf(c)) = Places(ds, SendsOf(c))
    BY <1>1, PlacesConcat
  <1> QED
    BY <1>2 DEF Under

\* A task is taken from the queue.
LEMMA UnderTaken ==
    ASSUME NEW js \in Seq(Job), NEW wk \in [Workers -> Job \cup {None}],
           NEW ds \in Seq(Task), NEW c \in Conns, ds # <<>>
    PROVE  /\ Under(None, js, wk, ds, c) =
                Under(None, js, wk, Tail(ds), c)
                + (IF Head(ds).kind = "send" /\ Head(ds).conn = c THEN 1 ELSE 0)
  <1>1. /\ Head(ds) \in Task /\ Tail(ds) \in Seq(Task)
        /\ Head(ds) \in SendsOf(c) <=> Head(ds).kind = "send" /\ Head(ds).conn = c
    BY DEF SendsOf
  <1>2. Cardinality(Places(ds, SendsOf(c)))
          = Cardinality(Places(Tail(ds), SendsOf(c))) + (IF Head(ds) \in SendsOf(c) THEN 1 ELSE 0)
    BY PlacesTail
  <1>3. PICK J, W, D, E :
           /\ J = Cardinality(Places(js, JobsOf(c))) /\ W = Cardinality(WorkersOn(wk, c))
           /\ D = Cardinality(Places(ds, SendsOf(c))) /\ E = Cardinality(Places(Tail(ds), SendsOf(c)))
    OBVIOUS
  <1>4. J \in Nat /\ W \in Nat /\ D \in Nat /\ E \in Nat
    <2>1. J \in Nat /\ D \in Nat /\ E \in Nat
      BY <1>1, <1>3, PlacesFinite, Zenon
    <2> QED
      BY <2>1, <1>3, WorkersFinite
  <1>5. Under(None, js, wk, ds, c) = 0 + J + W + D /\ Under(None, js, wk, Tail(ds), c) = 0 + J + W + E
    BY <1>3 DEF Under
  <1> QED
    BY <1>1, <1>2, <1>3, <1>4, <1>5

\* A request that has been parsed is held.
LEMMA UnderHeld ==
    ASSUME NEW js \in Seq(Job), NEW wk \in [Workers -> Job \cup {None}],
           NEW ds \in Seq(Task), NEW c \in Conns, NEW h \in Job
    PROVE  Under(h, js, wk, ds, c) = Under(None, js, wk, ds, c) + (IF h.conn = c THEN 1 ELSE 0)
  <1>1. h # None
    BY ReactorAssumption
  <1>2. PICK J, W, D : /\ J = Cardinality(Places(js, JobsOf(c))) /\ W = Cardinality(WorkersOn(wk, c))
                       /\ D = Cardinality(Places(ds, SendsOf(c)))
    OBVIOUS
  <1>3. J \in Nat /\ W \in Nat /\ D \in Nat
    <2>1. J \in Nat /\ D \in Nat
      BY <1>2, PlacesFinite
    <2> QED
      BY <2>1, <1>2, WorkersFinite
  <1>4. /\ Under(h, js, wk, ds, c) = (IF h.conn = c THEN 1 ELSE 0) + J + W + D
        /\ Under(None, js, wk, ds, c) = 0 + J + W + D
    BY <1>1, <1>2 DEF Under
  <1> QED
    BY <1>3, <1>4

-----------------------------------------------------------------------------
(* The steps that change a connection. *)

\* A client changes only the kernel's side of its connection.
Same(r, q) ==
    /\ q \in Record /\ q.st = r.st /\ q.fd = r.fd
    /\ q.sent = r.sent /\ q.parsed = r.parsed /\ q.reply = r.reply
    /\ q.armed \/ (q.armed = r.armed /\ (Waits(q) => Waits(r)))

\* A step of a client that is connected.
LEMMA ClientTouches ==
    ASSUME TypeOK, NEW c \in Conns,
           \/ \E u \in Unit : ClientSends(c, u)
           \/ \E how \in {"eof", "reset"} : ClientLeaves(c, how)
           \/ ClientDrains(c)
           \/ Ages(c)
    PROVE  c \in Open /\ \E q : Touch(c, q) /\ Same(conn[c], q)
  <1>0. conn[c] \in Record
    BY DEF TypeOK
  <1>1. ASSUME NEW u \in Unit, ClientSends(c, u)
        PROVE  c \in Open /\ \E q : Touch(c, q) /\ Same(conn[c], q)
    <2> DEFINE q == [conn[c] EXCEPT !.rx = Append(@, u), !.units = @ + 1, !.armed = TRUE]
    <2>1. Append(conn[c].rx, u) \in Seq(Unit) /\ conn[c].units + 1 \in Nat
      BY <1>0 DEF Record
    <2>2. Same(conn[c], q)
      BY <1>0, <2>1, Zenon DEF Same, Record
    <2> QED
      BY <1>1, <2>2, Zenon DEF ClientSends
  <1>2. ASSUME NEW how \in {"eof", "reset"}, ClientLeaves(c, how)
        PROVE  c \in Open /\ \E q : Touch(c, q) /\ Same(conn[c], q)
    <2> DEFINE q == [conn[c] EXCEPT !.peer = how, !.armed = TRUE]
    <2>1. Same(conn[c], q)
      BY <1>0, Zenon DEF Same, Record
    <2> QED
      BY <1>2, <2>1 DEF ClientLeaves
  <1>3. CASE ClientDrains(c)
    <2> DEFINE q == [conn[c] EXCEPT !.room = TRUE, !.armed = TRUE]
    <2>1. Same(conn[c], q)
      BY <1>0, Zenon DEF Same, Record
    <2> QED
      BY <1>3, <2>1 DEF ClientDrains
  <1>4. CASE Ages(c)
    <2> DEFINE q == [conn[c] EXCEPT !.idle = TRUE]
    <2>1. /\ q \in Record /\ q.st = conn[c].st /\ q.fd = conn[c].fd /\ q.sent = conn[c].sent
          /\ q.parsed = conn[c].parsed /\ q.reply = conn[c].reply /\ q.armed = conn[c].armed
          /\ q.rx = conn[c].rx /\ q.peer = conn[c].peer
      BY <1>0, Zenon DEF Record
    <2>2. Waits(q) => Waits(conn[c])
      <3> HIDE DEF q
      <3> QED
        BY <2>1 DEF Waits, Events
    <2>3. Same(conn[c], q)
      BY <2>1, <2>2 DEF Same
    <2> QED
      BY <1>4, <2>3 DEF Ages
  <1> QED
    BY <1>1, <1>2, <1>3, <1>4

\* The reactor leaves connection c as q.
Settles(c, q) ==
    /\ Settle(c, q) /\ Leaves(conn[c], q)
    /\ held = None /\ conn[c].st # "none"
    /\ conn[c].st = "Closed" => q = conn[c]

\* A descriptor in the table is that of an open connection.
LEMMA CallbackIsOpen ==
    ASSUME TypeOK, AllSound, TablesAgree, NEW f \in Fds, callbacks[f] # None
    PROVE  callbacks[f] \in Open /\ conn[callbacks[f]].fd = f
  <1>1. callbacks[f] \in Conns /\ conn[callbacks[f]].fd = f
    BY DEF TypeOK, TablesAgree
  <1>2. f # NoFd
    BY ReactorAssumption
  <1>3. conn[callbacks[f]].st \in State /\ Sound(conn[callbacks[f]])
    BY <1>1 DEF TypeOK, Record, AllSound
  <1> QED
    BY <1>1, <1>2, <1>3 DEF Open, IsOpen, State, Sound

\* The client callback.
LEMMA Dispatches ==
    ASSUME TypeOK, AllSound, TablesAgree, NEW e \in batch, dispatch_client(e), callbacks[e.fd] # None
    PROVE  /\ e.fd \in Fds /\ callbacks[e.fd] \in Open /\ conn[callbacks[e.fd]].fd = e.fd
           /\ \E q : /\ Settles(callbacks[e.fd], q)
                     /\ hup' = IF "HUP" \in e.events THEN callbacks[e.fd] ELSE None
                     /\ conn[callbacks[e.fd]].st = "Processing" => q = conn[callbacks[e.fd]]
                     /\ q.armed \/ ~Waits(q) \/ (q = conn[callbacks[e.fd]] /\ "IN" \notin e.events)
  <1>1. PICK c : c = callbacks[e.fd]
    OBVIOUS
  <1>2. PICK r : r = conn[c]
    OBVIOUS
  <1>3. e.fd \in Fds /\ held = None
    BY DEF dispatch_client, TypeOK, Event, ReactorFree
  <1>4. c \in Open /\ r.fd = e.fd
    BY <1>1, <1>2, <1>3, CallbackIsOpen
  <1>5. r \in Record /\ Sound(r) /\ IsOpen(r)
    BY <1>2, <1>4 DEF Open, TypeOK, AllSound
  <1>6. PICK read : read = IF "IN" \in e.events THEN on_read(r) ELSE r
    OBVIOUS
  <1>7. PICK q \in IF "OUT" \in e.events THEN on_write(read) ELSE {read} :
           Settle(c, q) /\ hup' = IF "HUP" \in e.events THEN c ELSE None
    BY <1>1, <1>2, <1>6 DEF dispatch_client
  <1>8. Leaves(r, read) /\ ("IN" \in e.events => ~Waits(read)) /\ ("IN" \notin e.events => read = r)
    <2>1. CASE "IN" \in e.events
      BY <2>1, <1>5, <1>6, Reads
    <2>2. CASE "IN" \notin e.events
      BY <2>2, <1>5, <1>6 DEF Leaves
    <2> QED
      BY <2>1, <2>2
  <1>9. q = read \/ (Leaves(read, q) /\ ~(Waits(q) /\ ~q.armed) /\ read.st = "Writing")
    <2>1. CASE "OUT" \in e.events /\ IsOpen(read)
      <3>1. q \in on_write(read) /\ read \in Record /\ Sound(read)
        BY <2>1, <1>7, <1>8 DEF Leaves
      <3>2. /\ Leaves(read, q) /\ (read.st = "Writing" => ~(Waits(q) /\ ~q.armed))
            /\ read.st # "Writing" => q = read
        BY <3>1, <2>1, Writes
      <3> QED
        BY <3>2
    <2>2. CASE "OUT" \in e.events /\ ~IsOpen(read)
      <3>1. read.st # "Writing" /\ q \in on_write(read)
        BY <2>2, <1>7 DEF IsOpen
      <3> QED
        BY <3>1 DEF on_write
    <2>3. CASE "OUT" \notin e.events
      BY <2>3, <1>7
    <2> QED
      BY <2>1, <2>2, <2>3
  <1>10. Leaves(r, q)
    <2>1. CASE q = read
      BY <2>1, <1>8
    <2>2. CASE Leaves(read, q) /\ read.st = "Writing"
      <3>1. r.st # "Closed"
        BY <1>5 DEF IsOpen
      <3>2. read.parsed = r.parsed /\ (q.st = "Closed" \/ (IsOpen(q) /\ read.fd = r.fd))
        BY <2>2, <1>8 DEF Leaves
      <3>3. (q.st = "Processing" => q = read) => q.st # "Processing"
        BY <2>2
      <3> QED
        BY <2>2, <3>1, <3>2, <3>3 DEF Leaves
    <2> QED
      BY <2>1, <2>2, <1>9
  <1>11. q.armed \/ ~Waits(q) \/ (q = r /\ "IN" \notin e.events)
    BY <1>8, <1>9
  <1>12. Settles(c, q)
    BY <1>2, <1>3, <1>5, <1>7, <1>10 DEF Settles, IsOpen
  <1>13. r.st = "Processing" => q = r
    BY <1>6, <1>9 DEF on_read
  <1> QED
    BY <1>1, <1>2, <1>3, <1>4, <1>7, <1>11, <1>12, <1>13

\* A deferred task.
LEMMA Runs ==
    ASSUME TypeOK, AllSound, UnderWayIsLast, ReactorOK, OneAnswerUnderWay, run_task
    PROVE  /\ deferred # <<>> /\ Head(deferred) \in Task
           /\ \E q : /\ Settles(Head(deferred).conn, q)
                     /\ q.armed \/ ~Waits(q)
                     /\ Head(deferred).kind = "close" => q.st = "Closed"
                     /\ Head(deferred).kind = "send" =>
                          \/ /\ conn[Head(deferred).conn].st = "Processing"
                             /\ q.parsed = conn[Head(deferred).conn].parsed => q.st # "Processing"
                          \/ conn[Head(deferred).conn].st = "Closed"
  <1>1. deferred \in Seq(Task) /\ Len(deferred) > 0 /\ deferred # <<>> /\ held = None
    BY DEF run_task, TypeOK, ReactorOK, ReactorFree
  <1>2. PICK t \in Task : t = Head(deferred) /\ t = deferred[1] /\ 1 \in DOMAIN deferred
    BY <1>1
  <1>3. PICK c \in Conns : c = t.conn
    BY DEF Task
  <1>4. PICK r : r = conn[c]
    OBVIOUS
  <1>5. r \in Record /\ Sound(r) /\ r.st # "none" /\ r.st \in State
    BY <1>2, <1>3, <1>4, SMTT(60) DEF TypeOK, AllSound, ReactorOK, Record
  <1>6. PICK q \in IF t.kind = "send" THEN send_internal(r, t.req, t.keep_alive) ELSE {close_internal(r)} :
           Settle(c, q)
    BY <1>2, <1>3, <1>4 DEF run_task
  <1>7. t.kind \in {"send", "close"} /\ (t.kind = "send" => t.keep_alive \in BOOLEAN)
    BY DEF Task
  <1>8. Leaves(r, q) /\ (r.st = "Closed" => q = r) /\ (q.armed \/ ~Waits(q))
        /\ (t.kind = "close" => q.st = "Closed")
        /\ (t.kind = "send" => \/ r.st = "Processing" /\ (q.parsed = r.parsed => q.st # "Processing")
                               \/ r.st = "Closed")
    <2>1. CASE r.st = "Closed"
      <3>1. q = r
        BY <2>1, <1>6 DEF send_internal, close_internal
      <3> QED
        BY <3>1, <2>1, <1>5 DEF Leaves, Waits
    <2>2. CASE r.st # "Closed" /\ t.kind = "close"
      <3>1. IsOpen(r) /\ q = close_internal(r)
        BY <2>2, <1>5, <1>6 DEF IsOpen, State
      <3>2. q \in Record /\ Sound(q) /\ q.st = "Closed" /\ q.parsed = r.parsed
        BY <3>1, <1>5, Closes
      <3> QED
        BY <3>2, <2>2 DEF Leaves, Waits
    <2>3. CASE r.st # "Closed" /\ t.kind = "send"
      <3>1. t.req = r.parsed
        BY <2>3, <1>2, <1>3, <1>4 DEF UnderWayIsLast
      <3>2. Outstanding(c) > 0 /\ Outstanding(c) \in Nat
        <4>1. Outstanding(c) = Under(held, jobs, working, deferred, c)
          BY UnderIs, Zenon DEF TypeOK, Outstanding, Under, WorkersOn
        <4>2. /\ Under(held, jobs, working, deferred, c) \in Nat
              /\ \A i \in DOMAIN deferred : deferred[i].kind = "send" /\ deferred[i].conn = c
                                               => Under(held, jobs, working, deferred, c) > 0
          BY UnderNone, Zenon DEF TypeOK
        <4> QED
          BY <4>1, <4>2, <2>3, <1>2, <1>3
      <3>3. r.st = "Processing"
        BY <3>2, <2>3, <1>4 DEF OneAnswerUnderWay
      <3>4. q \in send_internal(r, r.parsed, t.keep_alive) /\ t.keep_alive \in BOOLEAN
        BY <3>1, <2>3, <1>6, <1>7
      <3>5. Leaves(r, q) /\ ~(Waits(q) /\ ~q.armed) /\ (q.parsed = r.parsed => q.st # "Processing")
        BY <3>3, <3>4, <1>5, SendsOn
      <3> QED
        BY <3>3, <3>5, <2>3
    <2> QED
      BY <2>1, <2>2, <2>3, <1>7
  <1>9. Settles(c, q)
    BY <1>1, <1>4, <1>5, <1>6, <1>8 DEF Settles
  <1> QED
    BY <1>1, <1>2, <1>3, <1>4, <1>8, <1>9

-----------------------------------------------------------------------------
(* The steps, by what they do to the connections. *)

\* Steps that leave the connections and callbacks_ alone, and drop no event of
\* a client.
Quiet ==
    \/ \E c \in Conns : ClientConnects(c)
    \/ force_close \/ submit \/ dispatch_listen \/ accept_again
    \/ dispatch_wakeup \/ end_round \/ idle_cb \/ cleanup_idle_connections
    \/ \E w \in Workers : take_job(w)
    \/ \E w \in Workers, ka \in BOOLEAN : process_request(w, ka)

\* An event for a descriptor that nobody has.
Ignored(e) == dispatch_client(e) /\ callbacks[e.fd] = None
Dispatched(e) == dispatch_client(e) /\ callbacks[e.fd] # None
Touched(c) == c \in Open /\ \E q : Touch(c, q) /\ Same(conn[c], q)

Step ==
    \/ Quiet
    \/ \E e \in batch : Ignored(e) \/ Dispatched(e)
    \/ \E c \in Conns : Touched(c)
    \/ epoll_wait
    \/ \E c \in backlog, f \in Fds : accept(c, f)
    \/ run_task

\* Every step is one of these.
LEMMA Steps ==
    ASSUME TypeOK, Next
    PROVE  Step /\ max_connections' = max_connections
  <1>1. max_connections' = max_connections
    BY DEF Next, System
  <1> SUFFICES Step
    BY <1>1
  <1>2. CASE Loop
    BY <1>2 DEF Loop, Step, Quiet, Ignored, Dispatched
  <1>3. CASE cleanup_idle_connections
    BY <1>3 DEF Step, Quiet
  <1>4. ASSUME NEW w \in Workers, Worker(w)
        PROVE  Step
    BY <1>4 DEF Worker, Step, Quiet
  <1>5. CASE Client
    <2>1. PICK c \in Conns : \/ ClientConnects(c)
                             \/ \E u \in Unit : ClientSends(c, u)
                             \/ \E how \in {"eof", "reset"} : ClientLeaves(c, how)
                             \/ ClientDrains(c)
                             \/ Ages(c)
      BY <1>5 DEF Client
    <2>2. CASE ClientConnects(c)
      BY <2>2 DEF Step, Quiet
    <2>3. CASE ~ClientConnects(c)
      <3>1. Touched(c)
        BY <2>1, <2>3, ClientTouches DEF Touched
      <3> QED
        BY <3>1 DEF Step
    <2> QED
      BY <2>2, <2>3
  <1> QED
    BY <1>2, <1>3, <1>4, <1>5 DEF Next, System

\* What a quiet step leaves alone.
LEMMA QuietFrame ==
    ASSUME TypeOK, Quiet
    PROVE  /\ conn' = conn /\ callbacks' = callbacks /\ connection_count' = connection_count
           /\ batch' \subseteq batch /\ \A e \in batch : e.kind = "client" => e \in batch'
  <1>1. ASSUME NEW c \in Conns, ClientConnects(c)
        PROVE  conn' = conn /\ callbacks' = callbacks /\ connection_count' = connection_count /\ batch' = batch
    BY <1>1 DEF ClientConnects, reactor, tables
  <1>2. CASE force_close
    BY <1>2 DEF force_close, tables
  <1>3. CASE submit
    BY <1>3 DEF submit, tables
  <1>4. CASE dispatch_listen
    BY <1>4 DEF dispatch_listen, tables
  <1>5. CASE accept_again
    BY <1>5 DEF accept_again, tables
  <1>6. CASE dispatch_wakeup
    BY <1>6 DEF dispatch_wakeup, tables
  <1>7. CASE end_round
    BY <1>7 DEF end_round, tables
  <1>8. CASE idle_cb
    BY <1>8 DEF idle_cb, tables
  <1>9. CASE cleanup_idle_connections
    BY <1>9 DEF cleanup_idle_connections
  <1>10. ASSUME NEW w \in Workers, take_job(w)
         PROVE  conn' = conn /\ callbacks' = callbacks /\ connection_count' = connection_count /\ batch' = batch
    BY <1>10 DEF take_job, reactor, tables
  <1>11. ASSUME NEW w \in Workers, NEW ka \in BOOLEAN, process_request(w, ka)
         PROVE  conn' = conn /\ callbacks' = callbacks /\ connection_count' = connection_count /\ batch' = batch
    BY <1>11 DEF process_request, reactor, tables
  <1> QED
    BY <1>1, <1>2, <1>3, <1>4, <1>5, <1>6, <1>7, <1>8, <1>9, <1>10, <1>11 DEF Quiet

\* How a step may change a connection.
Evolves(r, q) ==
    /\ q \in Record /\ Sound(q)
    /\ r.st # "none" => q.st # "none"
    /\ r.st = "Closed" => q.st = "Closed"
    /\ IsOpen(r) => q.st = "Closed" \/ (IsOpen(q) /\ q.fd = r.fd)
    /\ q.parsed = r.parsed \/ (q.parsed = r.parsed + 1 /\ q.st = "Processing" /\ IsOpen(r))

\* Every step lets every connection evolve so.
LEMMA StepEvolves ==
    ASSUME IInv, Step
    PROVE  conn' \in [Conns -> Record] /\ \A c \in Conns : Evolves(conn[c], conn'[c])
  <1>0. TypeOK /\ AllSound /\ conn \in [Conns -> Record] /\ \A c \in Conns : Sound(conn[c])
    BY DEF IInv, TypeOK, AllSound
  <1>1. \A c \in Conns : Evolves(conn[c], conn[c])
    BY <1>0 DEF Evolves
  <1>2. ASSUME NEW c \in Conns, NEW q, conn' = [conn EXCEPT ![c] = q], Evolves(conn[c], q)
        PROVE  conn' \in [Conns -> Record] /\ \A d \in Conns : Evolves(conn[d], conn'[d])
    <2>1. q \in Record
      BY <1>2 DEF Evolves
    <2> QED
      BY <1>0, <1>1, <1>2, <2>1
  <1>3. ASSUME NEW c \in Conns, NEW q, Settles(c, q)
        PROVE  conn' \in [Conns -> Record] /\ \A d \in Conns : Evolves(conn[d], conn'[d])
    <2>1. conn' = [conn EXCEPT ![c] = q] /\ conn[c].st \in State
      BY <1>0, <1>3 DEF Settles, Settle, Record
    <2>2. Evolves(conn[c], q)
      BY <2>1, <1>3 DEF Settles, Leaves, Evolves, IsOpen, State
    <2> QED
      BY <2>1, <2>2, <1>2, Zenon
  <1>4. CASE Quiet
    BY <1>0, <1>1, <1>4, QuietFrame
  <1>5. ASSUME NEW e \in batch, Ignored(e)
        PROVE  conn' \in [Conns -> Record] /\ \A d \in Conns : Evolves(conn[d], conn'[d])
    BY <1>0, <1>1, <1>5 DEF Ignored, dispatch_client
  <1>6. ASSUME NEW e \in batch, Dispatched(e)
        PROVE  conn' \in [Conns -> Record] /\ \A d \in Conns : Evolves(conn[d], conn'[d])
    <2>1. callbacks[e.fd] \in Conns /\ \E q : Settles(callbacks[e.fd], q)
      BY <1>6, Dispatches DEF Dispatched, IInv, Open
    <2> QED
      BY <2>1, <1>3
  <1>7. ASSUME NEW c \in Conns, Touched(c)
        PROVE  conn' \in [Conns -> Record] /\ \A d \in Conns : Evolves(conn[d], conn'[d])
    <2>1. PICK q : Touch(c, q) /\ Same(conn[c], q)
      BY <1>7 DEF Touched
    <2>2. conn' = [conn EXCEPT ![c] = q] /\ q \in Record /\ conn[c] \in Record
      BY <2>1, <1>0 DEF Touch, Same
    <2>3. Sound(q)
      BY <2>1, <2>2, <1>0, SoundSame DEF Same
    <2>4. Evolves(conn[c], q)
      BY <2>1, <2>2, <2>3 DEF Same, Evolves, IsOpen
    <2> QED
      BY <2>2, <2>4, <1>2, Zenon
  <1>8. CASE epoll_wait
    <2>1. conn' = [c \in Conns |-> [conn[c] EXCEPT !.armed = FALSE]]
      BY <1>8 DEF epoll_wait
    <2>2. ASSUME NEW r \in Record, Sound(r)
          PROVE  Evolves(r, [r EXCEPT !.armed = FALSE])
      <3> DEFINE q == [r EXCEPT !.armed = FALSE]
      <3>1. /\ q \in Record /\ q.st = r.st /\ q.fd = r.fd /\ q.sent = r.sent
            /\ q.parsed = r.parsed /\ q.reply = r.reply
        BY Zenon DEF Record
      <3> HIDE DEF q
      <3>2. Sound(q)
        BY <2>2, <3>1, SoundSame
      <3>3. Evolves(r, q)
        BY <3>1, <3>2 DEF Evolves, IsOpen
      <3> QED
        BY <3>3 DEF q
    <2>3. \A c \in Conns : Evolves(conn[c], conn'[c])
      BY <2>1, <2>2, <1>0
    <2>4. \A c \in Conns : conn'[c] \in Record
      BY <2>3 DEF Evolves
    <2> QED
      BY <2>1, <2>3, <2>4
  <1>9. ASSUME NEW c \in backlog, NEW f \in Fds, accept(c, f)
        PROVE  conn' \in [Conns -> Record] /\ \A d \in Conns : Evolves(conn[d], conn'[d])
    <2>1. c \in Conns /\ conn[c].st = "none" /\ f # NoFd
      BY ReactorAssumption DEF IInv, ReactorOK
    <2>2. PICK q : conn' = [conn EXCEPT ![c] = q]
                   /\ q \in {[conn[c] EXCEPT !.st = "Closed"], accepted(conn[c], f)}
      BY <1>9 DEF accept
    <2>3. /\ q \in Record /\ q.sent = conn[c].sent /\ q.parsed = conn[c].parsed
          /\ (q.st = "Closed" /\ q.fd = conn[c].fd) \/ (q.st = "Reading" /\ q.fd = f)
      BY <2>1, <2>2, <1>0, ZenonT(60) DEF accepted, Record, State
    <2>4. Sound(q)
      BY <2>1, <2>3, <1>0 DEF Sound
    <2>5. Evolves(conn[c], q)
      BY <2>1, <2>3, <2>4 DEF Evolves, IsOpen
    <2> QED
      BY <2>1, <2>2, <2>5, <1>2, Zenon
  <1>10. CASE run_task
    <2>1. Head(deferred).conn \in Conns /\ \E q : Settles(Head(deferred).conn, q)
      <3>1. Head(deferred) \in Task /\ \E q : Settles(Head(deferred).conn, q)
        BY <1>10, Runs DEF IInv
      <3> QED
        BY <3>1 DEF Task
    <2> QED
      BY <2>1, <1>3
  <1> QED
    BY <1>4, <1>5, <1>6, <1>7, <1>8, <1>9, <1>10 DEF Step

-----------------------------------------------------------------------------
(* What the idle cleanup queues. *)

\* An arrangement of a finite set has every element of it.
LEMMA ArrangesAll ==
    ASSUME NEW S, IsFiniteSet(S), NEW s \in Arrangements(S)
    PROVE  s \in Seq(S) /\ \A x \in S : \E i \in DOMAIN s : s[i] = x
  <1> DEFINE n == Cardinality(S)
  <1>1. n \in Nat
    BY FS_CardinalityType
  <1>2. s \in Surjection(1..n, S)
    BY DEF Arrangements, Bijection
  <1> HIDE DEF n
  <1> QED
    BY <1>1, <1>2 DEF Surjection

Old == {f \in Fds : connections[f] # None /\ conn[connections[f]].idle}

\* A close for each idle connection, and nothing else.
LEMMA CleanupCloses ==
    ASSUME TypeOK, cleanup_idle_connections
    PROVE  \E t \in Seq(Task) :
             /\ deferred' = deferred \o t
             /\ \A i \in DOMAIN t : \E f \in Old : t[i] = CloseTask(connections[f])
             /\ \A f \in Old : \E i \in DOMAIN t : t[i] = CloseTask(connections[f])
  <1> DEFINE g == [f \in Old |-> CloseTask(connections[f])]
             S == {CloseTask(connections[f]) : f \in Old}
  <1>1. PICK t \in Arrangements(S) : deferred' = deferred \o t
    BY Zenon DEF cleanup_idle_connections, Old
  <1>2. IsFiniteSet(Old)
    BY ReactorAssumption, FS_Subset DEF Old
  <1>3. g \in Surjection(Old, S)
    BY DEF Surjection
  <1>4. IsFiniteSet(S)
    <2> HIDE DEF g, S
    <2> QED
      BY <1>2, <1>3, FS_Surjection
  <1>5. S \subseteq Task
    BY DEF TypeOK, Old, Task, CloseTask
  <1>6. \A x : x \in S <=> \E f \in Old : x = CloseTask(connections[f])
    OBVIOUS
  <1> HIDE DEF S
  <1>7. t \in Seq(S) /\ \A x \in S : \E i \in DOMAIN t : t[i] = x
    BY <1>4, ArrangesAll
  <1>8. t \in Seq(Task) /\ \A i \in DOMAIN t : t[i] \in S
    BY <1>5, <1>7
  <1>9. /\ \A i \in DOMAIN t : \E f \in Old : t[i] = CloseTask(connections[f])
        /\ \A f \in Old : \E i \in DOMAIN t : t[i] = CloseTask(connections[f])
    BY <1>6, <1>7, <1>8
  <1> QED
    BY <1>1, <1>8, <1>9, SMTT(60)

==============================================================================
