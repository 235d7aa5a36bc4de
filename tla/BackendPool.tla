----------------------------- MODULE BackendPool -----------------------------
(***************************************************************************)
(* Forwarding over pooled backend connections: Proxy::forward_pooled,      *)
(* BackendPool and BackendConnection (src/src/proxy/proxy.cpp,             *)
(* backend_pool.cpp, backend.cpp), for one backend.  The entries of pools_ *)
(* for different backends share nothing but the mutex.                     *)
(*                                                                         *)
(* A response is Chunks pieces that arrive one after the other; piece 1    *)
(* holds the headers.  A step of a worker is what it does between two      *)
(* points where other threads or the backend can come in: a critical       *)
(* section of mutex_, a socket call, or the unlocked is_alive() of release.*)
(***************************************************************************)
EXTENDS Integers, Sequences, FiniteSetsExt

CONSTANTS
    Workers,        \* worker threads, each in at most one forward_pooled
    Conns,          \* BackendConnection objects; a dropped one is used again
    None,           \* no connection
    MaxIdle,        \* max_idle_per_host_
    Chunks,         \* pieces of a response
    ContentLength,  \* whether responses carry a Content-Length header
    Slow,           \* whether the backend may pause within a response for
                    \* longer than the short timeout of recv_all
    MaxRequests     \* bound: requests forwarded; requests are numbered

ASSUME PoolAssumption ==
    /\ IsFiniteSet(Workers) /\ None \notin Conns
    /\ MaxIdle \in Nat /\ Chunks \in Nat \ {0} /\ MaxRequests \in Nat
    /\ ContentLength \in BOOLEAN /\ Slow \in BOOLEAN

VARIABLES
    conn,          \* the socket of each connection, and its peer
    idle,          \* entry.idle
    active_count,  \* entry.active_count
    stage,            \* where each worker is in forward_pooled
    lease,         \* the connection it holds
    req,           \* the request it forwards
    resp,          \* local of recv_all: what it has read
    requests       \* number of requests so far

worker == <<stage, lease, req, resp>>
forward_vars == <<conn, idle, active_count, worker, requests>>

Piece == [req : 1..MaxRequests, part : 1..Chunks]

Socket ==
    [ fd   : {"none", "open", "closed"},   \* "none" before connect()
      rx   : Seq(Piece),                   \* received and not yet read
      owed : Seq(Piece),                   \* what the backend has yet to send
      peer : {"open", "eof", "reset"},
      old  : BOOLEAN ]                     \* last_activity is past the timeout

Dropped == [fd |-> "none", rx |-> <<>>, owed |-> <<>>, peer |-> "open", old |-> FALSE]

PoolTypeOK ==
    /\ conn \in [Conns -> Socket]
    /\ idle \in Seq(Conns)
    /\ active_count \in Nat
    /\ stage \in [Workers -> {"ready", "connect", "send", "recv", "release", "push", "evict"}]
    /\ lease \in [Workers -> Conns \cup {None}]
    /\ req \in [Workers -> 0..MaxRequests]
    /\ resp \in [Workers -> Seq(Piece)]
    /\ requests \in 0..MaxRequests

ForwardInit ==
    /\ conn = [c \in Conns |-> Dropped]
    /\ idle = <<>> /\ active_count = 0
    /\ stage = [w \in Workers |-> "ready"]
    /\ lease = [w \in Workers |-> None]
    /\ req = [w \in Workers |-> 0]
    /\ resp = [w \in Workers |-> <<>>]
    /\ requests = 0

Leased == {lease[w] : w \in Workers} \ {None}
Free == Conns \ (Leased \cup Range(idle))

\* SO_ERROR is clear and a peek does not find the end of the stream.  Unread
\* input counts as alive.
is_alive(s) ==
    s.fd = "open" /\ s.peer # "reset" /\ (s.peer = "eof" => s.rx # <<>>)

touch(s) == [s EXCEPT !.old = FALSE]

At(w, from) == stage[w] = from
Enter(w, to) == stage' = [stage EXCEPT ![w] = to]
Hold(w, c) == lease' = [lease EXCEPT ![w] = c]
Drop(cs) == conn' = [c \in Conns |-> IF c \in cs THEN Dropped ELSE conn[c]]

-----------------------------------------------------------------------------
(* acquire() *)

\* Under the lock: the first live idle connection; dead ones before it go.
acquire(w) ==
    LET live == {i \in DOMAIN idle : is_alive(conn[idle[i]])}
        Dead(n) == {idle[i] : i \in 1..n}
    IN  /\ At(w, "ready") /\ requests < MaxRequests
        /\ requests' = requests + 1
        /\ req' = [req EXCEPT ![w] = requests + 1]
        /\ active_count' = active_count + 1
        /\ IF live = {}
           THEN /\ idle' = <<>>
                /\ Drop(Dead(Len(idle)))
                /\ Enter(w, "connect")
                /\ UNCHANGED lease
           ELSE LET i == Min(live)
                IN  /\ idle' = SubSeq(idle, i + 1, Len(idle))
                    /\ conn' = [c \in Conns |->
                                  IF c \in Dead(i - 1) THEN Dropped
                                  ELSE IF c = idle[i] THEN touch(conn[c]) ELSE conn[c]]
                    /\ Enter(w, "send")
                    /\ Hold(w, idle[i])
        /\ UNCHANGED resp

connected(w, c) ==
    /\ At(w, "connect") /\ c \in Free
    /\ conn' = [conn EXCEPT ![c] = [Dropped EXCEPT !.fd = "open"]]
    /\ Hold(w, c) /\ Enter(w, "send")
    /\ UNCHANGED <<idle, active_count, req, resp, requests>>

Decrement == active_count' = IF active_count > 0 THEN active_count - 1 ELSE 0

\* Back in forward_pooled with a response, or with 502.
Return(w) ==
    /\ Enter(w, "ready") /\ Hold(w, None)
    /\ req' = [req EXCEPT ![w] = 0]
    /\ resp' = [resp EXCEPT ![w] = <<>>]
    /\ UNCHANGED requests

connect_failed(w) ==
    /\ At(w, "connect")
    /\ Decrement
    /\ Return(w)
    /\ UNCHANGED <<conn, idle>>

-----------------------------------------------------------------------------
(* The exchange. *)

Pieces(n) == [i \in 1..Chunks |-> [req |-> n, part |-> i]]

send_all(w) ==
    /\ At(w, "send") /\ conn[lease[w]].peer # "reset"
    /\ conn' = [conn EXCEPT ![lease[w]].owed =
                   IF conn[lease[w]].peer = "open" THEN @ \o Pieces(req[w]) ELSE @]
    /\ Enter(w, "recv")
    /\ UNCHANGED <<idle, active_count, lease, req, resp, requests>>

send_failed(w) ==
    /\ At(w, "send")
    /\ Enter(w, "evict")
    /\ UNCHANGED <<conn, idle, active_count, lease, req, resp, requests>>

\* Mutant: takes the first input to be the whole response.
CompleteAtOnce(r) == r # <<>>

\* The length is counted from the first headers found; without Content-Length
\* it is taken to be zero, so that the headers end the response.
Complete(r) ==
    LET heads == {i \in DOMAIN r : r[i].part = 1}
    IN  heads # {} /\ (ContentLength => Len(r) >= Min(heads) + Chunks - 1)

recv_data(w, k) ==
    LET s == conn[lease[w]]
        r == resp[w] \o SubSeq(s.rx, 1, k)
        rest == [s EXCEPT !.rx = SubSeq(@, k + 1, Len(@))]
    IN  /\ At(w, "recv") /\ k \in 1..Len(s.rx)
        /\ resp' = [resp EXCEPT ![w] = r]
        /\ conn' = [conn EXCEPT ![lease[w]] = IF Complete(r) THEN touch(rest) ELSE rest]
        /\ Enter(w, IF Complete(r) THEN "release" ELSE "recv")
        /\ UNCHANGED <<idle, active_count, lease, req, requests>>

\* recv_all leaves its loop without a complete response: with nothing read it
\* closes and the caller evicts, else the caller releases.
Leave(w, s) ==
    /\ conn' = [conn EXCEPT ![lease[w]] = IF resp[w] = <<>> THEN [s EXCEPT !.fd = "closed"]
                                                          ELSE s]
    /\ Enter(w, IF resp[w] = <<>> THEN "evict" ELSE "release")
    /\ UNCHANGED <<idle, active_count, lease, req, resp, requests>>

recv_eof(w) ==
    LET s == conn[lease[w]]
    IN  /\ At(w, "recv") /\ s.peer = "eof" /\ s.rx = <<>>
        /\ Leave(w, [s EXCEPT !.fd = "closed"])

recv_error(w) ==
    LET s == conn[lease[w]]
    IN  At(w, "recv") /\ s.peer = "reset" /\ Leave(w, touch(s))

\* Mutant: no timeout for the first data.
recv_timeoutLater(w) ==
    LET s == conn[lease[w]]
    IN  /\ At(w, "recv") /\ s.peer = "open" /\ s.rx = <<>>
        /\ resp[w] # <<>> /\ (Slow \/ s.owed = <<>>)
        /\ Leave(w, touch(s))

\* poll() times out: the full timeout before the first data, a short one after.
recv_timeout(w) ==
    LET s == conn[lease[w]]
    IN  /\ At(w, "recv") /\ s.peer = "open" /\ s.rx = <<>>
        /\ resp[w] = <<>> \/ Slow \/ s.owed = <<>>
        /\ Leave(w, touch(s))

-----------------------------------------------------------------------------
(* release() and evict() *)

release(w) ==
    /\ At(w, "release")
    /\ Enter(w, IF is_alive(conn[lease[w]]) THEN "push" ELSE "evict")
    /\ UNCHANGED <<conn, idle, active_count, lease, req, resp, requests>>

release_push(w) ==
    /\ At(w, "push")
    /\ Decrement
    /\ IF Len(idle) < MaxIdle
       THEN idle' = Append(idle, lease[w]) /\ UNCHANGED conn
       ELSE Drop({lease[w]}) /\ UNCHANGED idle
    /\ Return(w)

\* Mutant: the connection goes, its count stays.
evictUncounted(w) ==
    /\ At(w, "evict")
    /\ Drop({lease[w]})
    /\ Return(w)
    /\ UNCHANGED <<idle, active_count>>

\* Mutant: the connection stays in the pool.
evictKeeps(w) ==
    /\ At(w, "evict")
    /\ Decrement
    /\ idle' = Append(idle, lease[w])
    /\ Return(w)
    /\ UNCHANGED conn

evict(w) ==
    /\ At(w, "evict")
    /\ Decrement
    /\ Drop({lease[w]})
    /\ Return(w)
    /\ UNCHANGED idle

-----------------------------------------------------------------------------
(* The other callers, and the backend. *)

\* The queue is rotated once; what has not expired keeps its order.
cleanup_idle ==
    LET old == {c \in Range(idle) : conn[c].old}
        kept == {i \in DOMAIN idle : idle[i] \notin old}
    IN  /\ old # {}
        /\ \E p \in [1..Cardinality(kept) -> kept] :
              /\ \A i, j \in DOMAIN p : i < j => p[i] < p[j]
              /\ idle' = [i \in DOMAIN p |-> idle[p[i]]]
        /\ Drop(old)
        /\ UNCHANGED <<active_count, worker, requests>>

\* One connection made and released before the first request.
warm_up(c) ==
    /\ requests = 0 /\ c \in Free /\ Len(idle) < MaxIdle
    /\ conn' = [conn EXCEPT ![c] = [Dropped EXCEPT !.fd = "open"]]
    /\ idle' = Append(idle, c)
    /\ Decrement
    /\ UNCHANGED <<worker, requests>>

Ages(c) ==
    /\ c \in Range(idle) /\ ~conn[c].old
    /\ conn' = [conn EXCEPT ![c].old = TRUE]
    /\ UNCHANGED <<idle, active_count, worker, requests>>

BackendSends(c) ==
    /\ conn[c].owed # <<>>
    /\ conn' = [conn EXCEPT ![c].rx = Append(@, Head(conn[c].owed)), ![c].owed = Tail(@)]
    /\ UNCHANGED <<idle, active_count, worker, requests>>

BackendLeaves(c, how) ==
    /\ conn[c].fd = "open" /\ conn[c].peer = "open"
    /\ conn' = [conn EXCEPT ![c].peer = how, ![c].owed = <<>>,
                            ![c].rx = IF how = "reset" THEN <<>> ELSE @]
    /\ UNCHANGED <<idle, active_count, worker, requests>>

forward_pooled(w) ==
    \/ acquire(w) \/ connect_failed(w)
    \/ \E c \in Conns : connected(w, c)
    \/ send_all(w) \/ send_failed(w)
    \/ \E k \in 1..(2 * Chunks) : recv_data(w, k)
    \/ recv_eof(w) \/ recv_error(w) \/ recv_timeout(w)
    \/ release(w) \/ release_push(w) \/ evict(w)

ForwardNext ==
    \/ \E w \in Workers : forward_pooled(w)
    \/ cleanup_idle
    \/ \E c \in Conns : warm_up(c) \/ Ages(c) \/ BackendSends(c)
    \/ \E c \in Conns, how \in {"eof", "reset"} : BackendLeaves(c, how)

ForwardSpec == ForwardInit /\ [][ForwardNext]_forward_vars

\* Worker threads keep running; every socket call is bounded by its timeout.
\* A backend that is not slow goes on with a response it has begun.
ForwardFairness ==
    /\ \A w \in Workers : WF_forward_vars(stage[w] # "ready" /\ forward_pooled(w))
    /\ ~Slow => \A c \in Conns :
          WF_forward_vars(conn[c].owed # <<>> /\ Head(conn[c].owed).part > 1 /\ BackendSends(c))

FairForwardSpec == ForwardSpec /\ ForwardFairness

-----------------------------------------------------------------------------
(* Properties. *)

\* A connection has one user: no two workers hold it, none holds one that is
\* in the idle queue, and the queue has it once.  active_count is the number
\* of forwards between acquire() and their release or evict, on every path,
\* and the queue keeps to max_idle_per_host_.
LeasesExact ==
    /\ \A v, w \in Workers : lease[v] = lease[w] /\ lease[v] # None => v = w
    /\ Leased \cap Range(idle) = {}
    /\ IsInjective(idle)
    /\ active_count = Cardinality({w \in Workers : stage[w] # "ready"})
    /\ Len(idle) <= MaxIdle

\* proxy.cpp, forward_pooled: Content-Length tells exactly where the response
\* ends, so what a worker returns is the answer to its own request.
OwnAnswer ==
    \A w \in Workers : stage[w] \in {"release", "push"} =>
        \A i \in DOMAIN resp[w] : resp[w][i].req = req[w]

\* What recv_all returns is the response to the request that was sent, from
\* its beginning, and the whole of it unless the backend hung up within it.
WholeAnswer ==
    \A w \in Workers : stage[w] = "release" =>
        /\ resp[w] = SubSeq(Pieces(req[w]), 1, Len(resp[w]))
        /\ conn[lease[w]].peer = "open" => resp[w] = Pieces(req[w])

\* An idle connection has nothing to read and nothing to come: a late answer
\* to a request given up at the timeout is never left for the next user.
IdleIsQuiet ==
    \A c \in Range(idle) : conn[c].rx = <<>> /\ conn[c].owed = <<>>

\* A forward returns even if the backend never begins to answer: every wait of
\* forward_pooled is bounded by a timeout.
ForwardReturns == \A w \in Workers : stage[w] # "ready" ~> stage[w] = "ready"
=============================================================================
