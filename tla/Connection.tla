------------------------------ MODULE Connection ------------------------------
(***************************************************************************)
(* The methods of Connection (src/src/net/connection.cpp) as operators on  *)
(* the record of one connection: what each leaves in the object, in its    *)
(* epoll registration and in its socket.  All but send() and force_close() *)
(* run on the event-loop thread, one after the other.                      *)
(*                                                                         *)
(* Input is a sequence of units: "req" is a request, or the rest of it     *)
(* after "part"s, which end nothing, "bad" bytes on which the parser fails,*)
(* "big" a burst of more than max_request_size_ bytes.  The kernel side of *)
(* the socket is part of the record.  A method with several outcomes is a  *)
(* set of records.                                                         *)
(***************************************************************************)
EXTENDS Naturals, Sequences, FiniteSetsExt, Functions

CONSTANTS
    Fds,   \* descriptor numbers
    NoFd   \* fd_ of a connection that is not open

State == {"none", "Reading", "Processing", "Writing", "Closing", "Closed"}
Unit == {"part", "req", "bad", "big"}

Record ==
    [ st         : State,              \* state_; "none" before the accept
      fd         : Fds \cup {NoFd},    \* fd_
      partial    : Seq(Unit \ {"big"}),   \* unparsed input held by parser_
      keep_alive : BOOLEAN,            \* keep_alive_
      reply      : Nat,                \* the request write_buf_ answers
      idle       : BOOLEAN,            \* last_active_time_ is past the timeout
      rx         : Seq(Unit),          \* kernel: received and not yet read
      peer       : {"open", "eof", "reset"},
      room       : BOOLEAN,            \* kernel: the send buffer has room
      armed      : BOOLEAN,            \* on the ready list of epoll (EPOLLET)
      out        : BOOLEAN,            \* registered for EPOLLOUT as well
      units      : Nat,                \* history: units of input received
      parsed     : Nat,                \* history: requests handed to the pool
      sent       : Seq(Nat) ]          \* history: requests answered in full

Unused ==
    [ st |-> "none", fd |-> NoFd, partial |-> <<>>, keep_alive |-> FALSE,
      reply |-> 0, idle |-> FALSE, rx |-> <<>>,
      peer |-> "open", room |-> TRUE, armed |-> FALSE, out |-> FALSE,
      units |-> 0, parsed |-> 0, sent |-> <<>> ]

IsOpen(r) == r.st \in {"Reading", "Processing", "Writing", "Closing"}

\* What epoll reports for the registration: hang-up needs both directions shut.
Events(r) ==
    {e \in {"IN", "OUT", "HUP"} :
        CASE e = "IN"  -> r.rx # <<>> \/ r.peer # "open"
          [] e = "OUT" -> r.out /\ (r.room \/ r.peer = "reset")
          [] e = "HUP" -> r.peer = "reset" \/ (r.peer = "eof" /\ r.st = "Closing")}

\* EPOLL_CTL_MOD polls the descriptor again: what is ready is reported again.
mod_fd(r, out) == [r EXCEPT !.out = out, !.armed = TRUE]

\* The constructor, the callbacks and add_fd() of the accept callback.
accepted(r, fd) ==
    [r EXCEPT !.st = "Reading", !.fd = fd, !.armed = TRUE]

close_internal(r) ==
    IF r.st = "Closed" THEN r
    ELSE [r EXCEPT !.st = "Closed", !.fd = NoFd, !.armed = FALSE, !.out = FALSE]

\* Where the first message in p is complete or fails, 0 while it is neither.
message_end(p) ==
    LET ends == {i \in DOMAIN p : p[i] # "part"}
    IN  IF ends = {} THEN 0 ELSE Min(ends)

\* At most one request is taken; the rest stays in the parser, and so does an
\* incomplete one.  parse() is taken to return.
try_parse_message(r) ==
    LET n == message_end(r.partial)
    IN  CASE n = 0 -> r
          [] n > 0 /\ r.partial[n] = "bad" -> close_internal(r)
          [] n > 0 /\ r.partial[n] = "req" ->
                [r EXCEPT !.st = "Processing", !.partial = SubSeq(@, n + 1, Len(@)),
                          !.parsed = @ + 1]

\* Mutant: parses whatever the state.
on_readAnyState(r) ==
    LET read == [r EXCEPT !.idle = FALSE, !.rx = <<>>]
    IN  IF r.st = "Closed" THEN r
        ELSE IF r.peer # "open" \/ "big" \in Range(r.rx) THEN close_internal(read)
        ELSE try_parse_message([read EXCEPT !.partial = @ \o r.rx])

\* Reads to EAGAIN.  End of file, an error or too much input close the
\* connection before anything that was read is parsed.
on_read(r) ==
    CASE r.st = "Closing" -> close_internal([r EXCEPT !.rx = <<>>])
      [] r.st = "Reading" ->
            LET read == [r EXCEPT !.idle = FALSE, !.rx = <<>>]
            IN  IF r.peer # "open" \/ "big" \in Range(r.rx)
                THEN close_internal(read)
                ELSE try_parse_message([read EXCEPT !.partial = @ \o r.rx])
      [] OTHER -> r

\* Mutant: keeps the registration, so that no event is reported again.
finish_responseNoMod(r) ==
    IF r.keep_alive
    THEN try_parse_message([r EXCEPT !.st = "Reading"])
    ELSE [r EXCEPT !.st = "Closing"]

\* shutdown(SHUT_WR) is the change to Closing.
finish_response(r) ==
    IF r.keep_alive
    THEN try_parse_message(mod_fd([r EXCEPT !.st = "Reading"], FALSE))
    ELSE mod_fd([r EXCEPT !.st = "Closing"], FALSE)

\* Mutant: the part already written is not consumed and goes out again.
on_writeNoConsume(r) ==
    IF r.st # "Writing" THEN {r}
    ELSE {finish_response([r EXCEPT !.sent = Append(@, r.reply)]),
          [r EXCEPT !.room = FALSE, !.sent = Append(@, r.reply)]}

\* Writes until the response is out or the send buffer is full.
on_write(r) ==
    LET active == [r EXCEPT !.idle = FALSE]
    IN  CASE r.st # "Writing" -> {r}
          [] r.st = "Writing" /\ r.peer = "reset" -> {close_internal(active)}
          [] r.st = "Writing" /\ r.peer # "reset" /\ ~r.room -> {active}
          [] r.st = "Writing" /\ r.peer # "reset" /\ r.room ->
                {finish_response([active EXCEPT !.sent = Append(@, r.reply)]),
                 [active EXCEPT !.room = FALSE]}

\* The response to request n, on the event-loop thread.
send_internal(r, n, keep_alive) ==
    IF r.st \notin {"Processing", "Reading"} THEN {r}
    ELSE on_write(mod_fd([r EXCEPT !.st = "Writing", !.reply = n,
                                   !.keep_alive = keep_alive], TRUE))
=============================================================================
