---------------------------- MODULE GatewayReactor ----------------------------
(***************************************************************************)
(* The life of client connections in a running Gateway: the accept         *)
(* callback, the per-connection epoll callback and the idle cleanup of     *)
(* Gateway::run (src/src/core/gateway.cpp), the dispatch loop of           *)
(* EventLoop::run, the bounded job queue of the thread pool and the        *)
(* workers that answer through Connection::send.                           *)
(*                                                                         *)
(* Only the reactor thread touches connections; workers see them through   *)
(* jobs and deferred tasks.  The task queue is the FIFO that EventLoop is  *)
(* shown to implement, and its wakeup the one EventLoop is shown not to    *)
(* lose: the wakeup event is reported whenever tasks are queued.           *)
(***************************************************************************)
EXTENDS Connection, Integers, FiniteSetsExt

CONSTANTS
    Conns,                \* connections; each is made once by a client
    Workers,              \* worker threads
    None,                 \* no connection, no job
    ConnectionLimits,     \* values of max_connections_, 0 for no limit
    MaxQueueSize,         \* max_queue_size_ of the pool, 0 for no limit
    MaxDeferredPerRound,  \* max_deferred_per_round_, 0 for no limit
    MaxUnits              \* bound: units of input that the clients send in all

VARIABLES
    conn,              \* [Conns -> Record]
    backlog,           \* kernel: connections waiting for accept()
    listen_edge,       \* kernel: the listening socket is on the ready list
    pc,                \* where the reactor is: wait, dispatch, accept, tasks
    batch,             \* events_ returned by epoll_wait and not yet dispatched
    todo,              \* deferred tasks this round still runs
    held,              \* job the reactor is submitting to the pool
    hup,               \* connection whose callback ends with force_close()
    callbacks,         \* callbacks_ of the event loop, by descriptor
    connections,       \* connections_ of the gateway, by descriptor
    connection_count,  \* connection_count_
    max_connections,   \* max_connections_
    deferred,          \* deferred tasks, oldest first
    jobs,              \* tasks_ of the thread pool
    working            \* the job each worker is in, or None

reactor == <<pc, batch, todo, held, hup>>
tables == <<callbacks, connections, connection_count>>
pool == <<jobs, working>>
kernel == <<backlog, listen_edge>>
vars == <<conn, kernel, reactor, tables, deferred, pool, max_connections>>

Job == [conn : Conns, req : Nat]
Event ==
    [kind : {"listen"}] \cup [kind : {"wakeup"}]
    \cup [kind : {"client"}, fd : Fds, events : SUBSET {"IN", "OUT", "HUP"},
          owner : Conns]      \* owner is history: whose registration it was
Task ==
    [kind : {"close"}, conn : Conns]
    \cup [kind : {"send"}, conn : Conns, req : Nat, keep_alive : BOOLEAN]

\* Descriptors, workers and limits are what the program has of them.
ASSUME ReactorAssumption ==
    /\ NoFd \notin Fds /\ None \notin Conns \cup Job
    /\ IsFiniteSet(Fds) /\ IsFiniteSet(Workers)
    /\ ConnectionLimits \subseteq Nat
    /\ MaxQueueSize \in Nat /\ MaxDeferredPerRound \in Nat

TypeOK ==
    /\ conn \in [Conns -> Record]
    /\ backlog \subseteq Conns /\ listen_edge \in BOOLEAN
    /\ pc \in {"wait", "dispatch", "accept", "tasks"}
    /\ batch \subseteq Event
    /\ todo \in Nat
    /\ held \in Job \cup {None} /\ hup \in Conns \cup {None}
    /\ callbacks \in [Fds -> Conns \cup {None}]
    /\ connections \in [Fds -> Conns \cup {None}]
    /\ connection_count \in Nat /\ max_connections \in ConnectionLimits
    /\ deferred \in Seq(Task)
    /\ jobs \in Seq(Job)
    /\ working \in [Workers -> Job \cup {None}]

Init ==
    /\ conn = [c \in Conns |-> Unused]
    /\ backlog = {} /\ listen_edge = FALSE
    /\ pc = "wait" /\ batch = {} /\ todo = 0 /\ held = None /\ hup = None
    /\ callbacks = [f \in Fds |-> None]
    /\ connections = [f \in Fds |-> None]
    /\ connection_count = 0 /\ max_connections \in ConnectionLimits
    /\ deferred = <<>> /\ jobs = <<>>
    /\ working = [w \in Workers |-> None]

Open == {c \in Conns : IsOpen(conn[c])}

-----------------------------------------------------------------------------
(* Clients and the kernel. *)

ClientConnects(c) ==
    /\ conn[c].st = "none" /\ c \notin backlog
    /\ backlog' = backlog \cup {c}
    /\ listen_edge' = TRUE
    /\ UNCHANGED <<conn, reactor, tables, deferred, pool>>

Touch(c, r) ==
    /\ conn' = [conn EXCEPT ![c] = r]
    /\ UNCHANGED <<kernel, reactor, tables, deferred, pool>>

UnitsSent == MapThenSumSet(LAMBDA c : conn[c].units, Conns)

ClientSends(c, u) ==
    /\ c \in Open /\ conn[c].peer = "open"
    /\ UnitsSent < MaxUnits
    /\ Touch(c, [conn[c] EXCEPT !.rx = Append(@, u), !.units = @ + 1,
                                !.armed = TRUE])

ClientLeaves(c, how) ==
    /\ c \in Open /\ conn[c].peer = "open"
    /\ Touch(c, [conn[c] EXCEPT !.peer = how, !.armed = TRUE])

ClientDrains(c) ==
    /\ c \in Open /\ ~conn[c].room
    /\ Touch(c, [conn[c] EXCEPT !.room = TRUE, !.armed = TRUE])

\* keep_alive_timeout_sec passes since the last read or write.
Ages(c) ==
    /\ c \in Open /\ ~conn[c].idle
    /\ Touch(c, [conn[c] EXCEPT !.idle = TRUE])

-----------------------------------------------------------------------------
(* The reactor. *)

ReactorFree == held = None /\ hup = None

CloseTask(c) == [kind |-> "close", conn |-> c]

\* EventLoop::run: epoll_wait returns what is ready, or nothing at its timeout.
epoll_wait ==
    /\ ReactorFree /\ pc = "wait"
    /\ batch' =
         {[kind |-> "client", fd |-> conn[c].fd, events |-> Events(conn[c]), owner |-> c] :
             c \in {d \in Open : conn[d].armed /\ Events(conn[d]) # {}}}
         \cup (IF listen_edge /\ backlog # {} THEN {[kind |-> "listen"]} ELSE {})
         \cup (IF deferred # <<>> THEN {[kind |-> "wakeup"]} ELSE {})
    /\ conn' = [c \in Conns |-> [conn[c] EXCEPT !.armed = FALSE]]
    /\ listen_edge' = FALSE
    /\ pc' = "dispatch"
    /\ UNCHANGED <<backlog, todo, held, hup, tables, deferred, pool>>

\* Mutant: the tables are cleared under fd_ after fd_ has been reset.
SettleLateFd(c, r) ==
    /\ conn' = [conn EXCEPT ![c] = r]
    /\ held' = IF r.parsed > conn[c].parsed
               THEN [conn |-> c, req |-> r.parsed] ELSE None
    /\ connection_count' = IF r.st = "Closed" /\ conn[c].st # "Closed"
                           THEN connection_count - 1 ELSE connection_count
    /\ UNCHANGED <<callbacks, connections>>

\* The reactor leaves connection c as r: a parsed request is held for
\* submit(), and close_internal() clears the tables through del_fd() and the
\* close callback.
Settle(c, r) ==
    /\ conn' = [conn EXCEPT ![c] = r]
    /\ held' = IF r.parsed > conn[c].parsed
               THEN [conn |-> c, req |-> r.parsed] ELSE None
    /\ IF r.st = "Closed" /\ conn[c].st # "Closed"
       THEN LET f == conn[c].fd
            IN  /\ callbacks' = [callbacks EXCEPT ![f] = None]
                /\ connections' = [connections EXCEPT ![f] = None]
                /\ connection_count' = connection_count - 1
       ELSE UNCHANGED tables

\* The client callback: on_read, on_write, then force_close on a hang-up.  The
\* callback is looked up by descriptor when the event is dispatched.
dispatch_client(e) ==
    /\ ReactorFree /\ pc = "dispatch"
    /\ e \in batch /\ e.kind = "client"
    /\ batch' = batch \ {e}
    /\ LET c == callbacks[e.fd]
       IN  IF c = None
           THEN UNCHANGED <<conn, held, hup, tables>>
           ELSE LET read == IF "IN" \in e.events THEN on_read(conn[c]) ELSE conn[c]
                IN  \E r \in IF "OUT" \in e.events THEN on_write(read) ELSE {read} :
                       /\ Settle(c, r)
                       /\ hup' = IF "HUP" \in e.events THEN c ELSE None
    /\ UNCHANGED <<kernel, pc, todo, deferred, pool>>

\* The end of the client callback: Connection::force_close.
force_close ==
    /\ held = None /\ hup # None
    /\ hup' = None
    /\ deferred' = IF conn[hup].st = "Closed" THEN deferred
                   ELSE Append(deferred, CloseTask(hup))
    /\ UNCHANGED <<conn, kernel, pc, batch, todo, held, tables, pool>>

\* ThreadPool::submit: the reactor blocks here while the queue is full.
submit ==
    /\ held # None
    /\ MaxQueueSize = 0 \/ Len(jobs) < MaxQueueSize
    /\ jobs' = Append(jobs, held)
    /\ held' = None
    /\ UNCHANGED <<conn, kernel, pc, batch, todo, hup, tables, deferred, working>>

\* TCPServer::on_accept and the new-connection callback, one accept at a time.
dispatch_listen ==
    /\ ReactorFree /\ pc = "dispatch"
    /\ [kind |-> "listen"] \in batch
    /\ batch' = batch \ {[kind |-> "listen"]}
    /\ pc' = "accept"
    /\ UNCHANGED <<conn, kernel, todo, held, hup, tables, deferred, pool>>

\* The new descriptor is closed when set_nonblocking() fails or there are
\* max_connections_ already.
accept(c, f) ==
    /\ pc = "accept"
    /\ c \in backlog
    /\ \A d \in Open : conn[d].fd # f
    /\ backlog' = backlog \ {c}
    /\ \/ /\ conn' = [conn EXCEPT ![c].st = "Closed"]
          /\ UNCHANGED tables
       \/ /\ max_connections > 0 => connection_count < max_connections
          /\ conn' = [conn EXCEPT ![c] = accepted(@, f)]
          /\ callbacks' = [callbacks EXCEPT ![f] = c]
          /\ connections' = [connections EXCEPT ![f] = c]
          /\ connection_count' = connection_count + 1
    /\ UNCHANGED <<listen_edge, reactor, deferred, pool>>

\* accept() fails: with EAGAIN when none is left, and with another error it
\* leaves those that wait until the next one comes.  When no descriptor is left
\* it is called again and again.
accept_again ==
    /\ pc = "accept"
    /\ backlog = {} \/ \E f \in Fds : \A d \in Open : conn[d].fd # f
    /\ pc' = "dispatch"
    /\ UNCHANGED <<conn, kernel, batch, todo, held, hup, tables, deferred, pool>>

\* Mutant: a batch beyond the limit is put off as a whole.
dispatch_wakeupAllOrNone ==
    /\ ReactorFree /\ pc = "dispatch"
    /\ [kind |-> "wakeup"] \in batch
    /\ batch' = batch \ {[kind |-> "wakeup"]}
    /\ pc' = "tasks"
    /\ todo' = IF MaxDeferredPerRound > 0 /\ Len(deferred) > MaxDeferredPerRound
               THEN 0 ELSE Len(deferred)
    /\ UNCHANGED <<conn, kernel, held, hup, tables, deferred, pool>>

\* The wakeup callback: run_deferred_tasks on what is queued now.
dispatch_wakeup ==
    /\ ReactorFree /\ pc = "dispatch"
    /\ [kind |-> "wakeup"] \in batch
    /\ batch' = batch \ {[kind |-> "wakeup"]}
    /\ pc' = "tasks"
    /\ todo' = IF MaxDeferredPerRound > 0 /\ Len(deferred) > MaxDeferredPerRound
               THEN MaxDeferredPerRound ELSE Len(deferred)
    /\ UNCHANGED <<conn, kernel, held, hup, tables, deferred, pool>>

run_task ==
    /\ ReactorFree /\ pc = "tasks" /\ todo > 0
    /\ LET t == Head(deferred)
           c == t.conn
       IN  \E r \in IF t.kind = "send" THEN send_internal(conn[c], t.req, t.keep_alive)
                    ELSE {close_internal(conn[c])} :
              Settle(c, r)
    /\ deferred' = Tail(deferred)
    /\ todo' = todo - 1
    /\ UNCHANGED <<kernel, pc, batch, hup, pool>>

end_round ==
    /\ ReactorFree /\ pc = "tasks" /\ todo = 0
    /\ pc' = "dispatch"
    /\ UNCHANGED <<conn, kernel, batch, todo, held, hup, tables, deferred, pool>>

\* The idle callback ends the iteration; Timer::tick may find the cleanup due.
\* The order in which connections_ is walked is any.
idle_cb ==
    /\ ReactorFree /\ pc = "dispatch" /\ batch = {}
    /\ pc' = "wait"
    /\ UNCHANGED <<conn, kernel, batch, todo, held, hup, tables, deferred, pool>>

\* Mutant: drops the connections from connections_ and closes none of them.
cleanup_idleForgets ==
    LET old == {f \in Fds : connections[f] # None /\ conn[connections[f]].idle}
    IN  /\ ReactorFree /\ pc = "dispatch" /\ batch = {}
        /\ pc' = "wait"
        /\ old # {}
        /\ connections' = [f \in Fds |-> IF f \in old THEN None ELSE connections[f]]
        /\ UNCHANGED <<conn, kernel, batch, todo, held, hup, callbacks,
                       connection_count, deferred, pool>>

Arrangements(S) == Bijection(1..Cardinality(S), S)

cleanup_idle_connections ==
    LET old == {f \in Fds : connections[f] # None /\ conn[connections[f]].idle}
    IN  /\ ReactorFree /\ pc = "dispatch" /\ batch = {}
        /\ pc' = "wait"
        /\ old # {}
        /\ \E closes \in Arrangements({CloseTask(connections[f]) : f \in old}) :
              deferred' = deferred \o closes
        /\ connections' = [f \in Fds |-> IF f \in old THEN None ELSE connections[f]]
        /\ UNCHANGED <<conn, kernel, batch, todo, held, hup, callbacks,
                       connection_count, pool>>

-----------------------------------------------------------------------------
(* The workers. *)

take_job(w) ==
    /\ working[w] = None /\ jobs # <<>>
    /\ working' = [working EXCEPT ![w] = Head(jobs)]
    /\ jobs' = Tail(jobs)
    /\ UNCHANGED <<conn, kernel, reactor, tables, deferred>>

\* process_request ends in one Connection::send on each of its paths.
process_request(w, keep_alive) ==
    /\ working[w] # None
    /\ deferred' = Append(deferred, [kind |-> "send", conn |-> working[w].conn,
                                     req |-> working[w].req, keep_alive |-> keep_alive])
    /\ working' = [working EXCEPT ![w] = None]
    /\ UNCHANGED <<conn, kernel, reactor, tables, jobs>>

-----------------------------------------------------------------------------
Client ==
    \E c \in Conns :
        \/ ClientConnects(c)
        \/ \E u \in Unit : ClientSends(c, u)
        \/ \E how \in {"eof", "reset"} : ClientLeaves(c, how)
        \/ ClientDrains(c)
        \/ Ages(c)

Loop ==
    \/ epoll_wait
    \/ \E e \in batch : dispatch_client(e)
    \/ force_close \/ submit
    \/ dispatch_listen \/ accept_again
    \/ \E c \in backlog, f \in Fds : accept(c, f)
    \/ dispatch_wakeup \/ run_task \/ end_round
    \/ idle_cb

Worker(w) == take_job(w) \/ \E ka \in BOOLEAN : process_request(w, ka)

System ==
    /\ Loop \/ cleanup_idle_connections \/ \E w \in Workers : Worker(w)
    /\ UNCHANGED max_connections

Next == System \/ (Client /\ UNCHANGED max_connections)

Spec == Init /\ [][Next]_vars

\* The reactor and the workers keep running (Proxy::forward is bounded by its
\* timeouts, and parse() is taken to return), and the periodic cleanup comes
\* round again and again.
Fairness ==
    /\ WF_vars((Loop \/ cleanup_idle_connections) /\ UNCHANGED max_connections)
    /\ SF_vars(cleanup_idle_connections /\ UNCHANGED max_connections)
    /\ \A w \in Workers : WF_vars(Worker(w) /\ UNCHANGED max_connections)

FairSpec == Spec /\ Fairness

-----------------------------------------------------------------------------
(* Properties. *)

\* Everything under way for connection c between a parsed request and its
\* answer: the submit, the queued job, the worker and the deferred send.
Outstanding(c) ==
    (IF held # None /\ held.conn = c THEN 1 ELSE 0)
    + Cardinality({i \in DOMAIN jobs : jobs[i].conn = c})
    + Cardinality({w \in Workers : working[w] # None /\ working[w].conn = c})
    + Cardinality({i \in DOMAIN deferred :
                      deferred[i].kind = "send" /\ deferred[i].conn = c})

\* A connection is Processing exactly while one answer is under way; only a
\* closed connection may have an answer coming that nobody will read.
OneAnswerUnderWay ==
    \A c \in Conns :
        /\ Outstanding(c) <= 1
        /\ conn[c].st = "Processing" => Outstanding(c) = 1
        /\ Outstanding(c) = 1 => conn[c].st \in {"Processing", "Closed"}

\* Pipelined requests are answered in the order in which they came, each once:
\* the answers written are those to the first requests of the connection, and
\* no request is parsed before the previous one has been answered.
AnswersInOrder ==
    \A c \in Conns :
        /\ \A i \in DOMAIN conn[c].sent : conn[c].sent[i] = i
        /\ conn[c].parsed <= Len(conn[c].sent) + 1

\* The tables agree with the connections: an open one is reachable through its
\* descriptor, a closed one is in no table, one that the idle cleanup took out
\* of connections_ has its close queued, and connection_count_ counts the open
\* ones and keeps to the limit that the accept callback checks.
TablesAgree ==
    /\ connection_count = Cardinality(Open)
    /\ max_connections > 0 => connection_count <= max_connections
    /\ \A f \in Fds : callbacks[f] # None => conn[callbacks[f]].fd = f
    /\ \A f \in Fds : connections[f] # None => callbacks[f] = connections[f]
    /\ \A c \in Open :
         /\ callbacks[conn[c].fd] = c
         /\ connections[conn[c].fd] = c
            \/ \E i \in DOMAIN deferred : deferred[i] = CloseTask(c)

\* Edge-triggered input is not forgotten: when a connection waits for input
\* that has already arrived, an event for it is on its way.
NoInputForgotten ==
    \A c \in Conns :
        conn[c].st \in {"Reading", "Closing"} /\ "IN" \in Events(conn[c])
            => \/ conn[c].armed
               \/ \E e \in batch : e.kind = "client" /\ e.owner = c /\ "IN" \in e.events

\* Every request handed to the pool is answered, or its connection is closed,
\* although the reactor itself blocks on a full job queue.  It rests on callbacks
\* that return: on parse(), which does not always (ParseReturns of HttpParser),
\* and on accept(), which finds a descriptor for every connection here.
RequestsFinish ==
    \A c \in Conns : conn[c].st = "Processing" ~> conn[c].st # "Processing"

\* A connection that stays idle is closed, whatever state it is in, with half a
\* request read too.  It rests on parse() and accept() like RequestsFinish.
IdleIsClosed ==
    \A c \in Conns :
        (c \in Open /\ conn[c].idle) ~> (conn[c].st = "Closed" \/ ~conn[c].idle)
=============================================================================
