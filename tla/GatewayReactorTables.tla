------------------------ MODULE GatewayReactorTables ------------------------
(***************************************************************************)
(* What every step of the reactor does to its bookkeeping: the types, the  *)
(* number of open connections, the two tables by descriptor, the batch of  *)
(* events and the deferred tasks.                                          *)
(***************************************************************************)
EXTENDS GatewayReactorSteps

-----------------------------------------------------------------------------
(* Types. *)

KernelTyped ==
    /\ backlog \subseteq Conns /\ listen_edge \in BOOLEAN
    /\ pc \in {"wait", "dispatch", "accept", "tasks"}
    /\ batch \subseteq Event /\ todo \in Nat
TablesTyped ==
    /\ held \in Job \cup {None} /\ hup \in Conns \cup {None}
    /\ callbacks \in [Fds -> Conns \cup {None}] /\ connections \in [Fds -> Conns \cup {None}]
    /\ connection_count \in Nat
QueuesTyped ==
    /\ deferred \in Seq(Task) /\ jobs \in Seq(Job) /\ working \in [Workers -> Job \cup {None}]

\* A quiet step keeps the types.
LEMMA QuietTyped ==
    ASSUME TypeOK, Quiet
    PROVE  KernelTyped' /\ TablesTyped' /\ QueuesTyped'
  <1>0. KernelTyped /\ TablesTyped /\ QueuesTyped
    BY DEF TypeOK, KernelTyped, TablesTyped, QueuesTyped
  <1> USE DEF KernelTyped, TablesTyped, QueuesTyped
  <1>1. ASSUME NEW c \in Conns, ClientConnects(c)
        PROVE  KernelTyped' /\ TablesTyped' /\ QueuesTyped'
    BY <1>0, <1>1 DEF ClientConnects, kernel, reactor, tables, pool
  <1>2. CASE force_close
    <2>1. hup \in Conns /\ CloseTask(hup) \in Task
      BY <1>0, <1>2 DEF force_close, CloseTask, Task
    <2> QED
      BY <2>1, <1>0, <1>2 DEF force_close, kernel, tables, pool
  <1>3. CASE submit
    BY <1>0, <1>3 DEF submit, kernel, reactor, tables, pool
  <1>4. CASE dispatch_listen
    BY <1>0, <1>4 DEF dispatch_listen, kernel, reactor, tables, pool
  <1>5. CASE accept_again
    BY <1>0, <1>5 DEF accept_again, kernel, reactor, tables, pool
  <1>6. CASE dispatch_wakeup
    BY ReactorAssumption, <1>0, <1>6 DEF dispatch_wakeup, kernel, reactor, tables, pool
  <1>7. CASE end_round
    BY <1>0, <1>7 DEF end_round, kernel, reactor, tables, pool
  <1>8. CASE idle_cb
    BY <1>0, <1>8 DEF idle_cb, kernel, reactor, tables, pool
  <1>9. CASE cleanup_idle_connections
    <2>1. PICK t \in Seq(Task) : deferred' = deferred \o t
      BY <1>9, CleanupCloses
    <2>2. deferred \o t \in Seq(Task)
      BY <2>1, <1>0, Joined
    <2> QED
      BY <2>1, <2>2, <1>0, <1>9, SMTT(60) DEF cleanup_idle_connections, kernel, pool, tables
  <1>10. ASSUME NEW w \in Workers, take_job(w)
         PROVE  KernelTyped' /\ TablesTyped' /\ QueuesTyped'
    BY <1>0, <1>10 DEF take_job, kernel, reactor, tables, pool
  <1>11. ASSUME NEW w \in Workers, NEW ka \in BOOLEAN, process_request(w, ka)
         PROVE  KernelTyped' /\ TablesTyped' /\ QueuesTyped'
    <2>1. [kind |-> "send", conn |-> working[w].conn, req |-> working[w].req, keep_alive |-> ka] \in Task
      BY <1>0, <1>11, SMTT(60) DEF process_request, Job, Task
    <2> QED
      BY <2>1, <1>0, <1>11 DEF process_request, kernel, reactor, tables
  <1> QED
    BY <1>1, <1>2, <1>3, <1>4, <1>5, <1>6, <1>7, <1>8, <1>9, <1>10, <1>11, SMTT(60) DEF Quiet

\* The tables after a connection has been settled.
LEMMA SettledTyped ==
    ASSUME IInv, NEW c \in Conns, NEW q, Settles(c, q)
    PROVE  /\ held' \in Job \cup {None}
           /\ callbacks' \in [Fds -> Conns \cup {None}] /\ connections' \in [Fds -> Conns \cup {None}]
           /\ connection_count' \in Nat
  <1>0. TypeOK /\ q \in Record /\ conn[c] \in Record
    BY DEF IInv, TypeOK, Settles, Leaves
  <1>1. held' \in Job \cup {None}
    BY <1>0, SMTT(60) DEF Settles, Settle, Job, Record
  <1>2. CASE q.st = "Closed" /\ conn[c].st # "Closed"
    <2>1. c \in Open
      BY <1>0, <1>2, SMTT(60) DEF Settles, Open, IsOpen, Record, State
    <2>2. connection_count = Cardinality(Open) /\ IsFiniteSet(Open)
      BY SMTT(60) DEF IInv, TablesAgree, ReactorOK
    <2>3. connection_count \in Nat /\ connection_count # 0
      BY <2>1, <2>2, <1>0, FS_EmptySet DEF TypeOK
    <2> QED
      BY <1>0, <1>1, <1>2, <2>3 DEF Settles, Settle, TypeOK
  <1>3. CASE ~(q.st = "Closed" /\ conn[c].st # "Closed")
    BY <1>0, <1>1, <1>3 DEF Settles, Settle, TypeOK, tables
  <1> QED
    BY <1>2, <1>3

\* Every step keeps the types.
LEMMA StepTypeOK ==
    ASSUME IInv, Step, max_connections' = max_connections
    PROVE  TypeOK'
  <1>0. TypeOK /\ KernelTyped /\ TablesTyped /\ QueuesTyped
    BY DEF IInv, TypeOK, KernelTyped, TablesTyped, QueuesTyped
  <1> SUFFICES KernelTyped' /\ TablesTyped' /\ QueuesTyped'
    BY <1>0, StepEvolves DEF TypeOK, KernelTyped, TablesTyped, QueuesTyped
  <1> USE DEF KernelTyped, TablesTyped, QueuesTyped
  <1>1. CASE Quiet
    BY <1>0, <1>1, QuietTyped
  <1>2. ASSUME NEW e \in batch, Ignored(e)
        PROVE  KernelTyped' /\ TablesTyped' /\ QueuesTyped'
    BY <1>0, <1>2, SMTT(60) DEF Ignored, dispatch_client, kernel, tables, pool
  <1>3. ASSUME NEW e \in batch, Dispatched(e)
        PROVE  KernelTyped' /\ TablesTyped' /\ QueuesTyped'
    <2>1. PICK c : c = callbacks[e.fd]
      OBVIOUS
    <2>2. c \in Conns /\ hup' \in Conns \cup {None} /\ \E q : Settles(c, q)
      BY <1>3, <2>1, Dispatches, SMTT(60) DEF Dispatched, IInv, Open
    <2>3. TablesTyped'
      BY <2>2, SettledTyped
    <2> QED
      BY <2>3, <1>0, <1>3, SMTT(60) DEF Dispatched, dispatch_client, kernel, pool
  <1>4. ASSUME NEW c \in Conns, Touched(c)
        PROVE  KernelTyped' /\ TablesTyped' /\ QueuesTyped'
    BY <1>0, <1>4 DEF Touched, Touch, kernel, reactor, tables, pool
  <1>5. CASE epoll_wait
    <2>1. \A c \in Open : conn[c].fd \in Fds /\ c \in Conns
      BY ReactorAssumption, Zenon DEF IInv, TypeOK, AllSound, Sound, Open, IsOpen, Record
    <2>2. \A c \in Open : [kind |-> "client", fd |-> conn[c].fd, events |-> Events(conn[c]), owner |-> c] \in Event
      BY <2>1, Zenon DEF Event, Events
    <2>3. [kind |-> "listen"] \in Event /\ [kind |-> "wakeup"] \in Event
      BY DEF Event
    <2>4. batch' \subseteq Event
      BY <2>2, <2>3, <1>5 DEF epoll_wait
    <2> QED
      BY <2>4, <1>0, <1>5, Zenon DEF epoll_wait, tables, pool
  <1>6. ASSUME NEW c \in backlog, NEW f \in Fds, accept(c, f)
        PROVE  KernelTyped' /\ TablesTyped' /\ QueuesTyped'
    <2>1. c \in Conns
      BY <1>0
    <2>2. /\ backlog' = backlog \ {c} /\ UNCHANGED <<listen_edge, reactor, deferred, pool>>
          /\ \/ UNCHANGED tables
             \/ /\ callbacks' = [callbacks EXCEPT ![f] = c] /\ connections' = [connections EXCEPT ![f] = c]
                /\ connection_count' = connection_count + 1
      BY <1>6, Zenon DEF accept
    <2>3. KernelTyped' /\ QueuesTyped'
      BY <2>2, <1>0 DEF reactor, pool
    <2>4. TablesTyped'
      BY <2>1, <2>2, <1>0 DEF reactor, tables
    <2> QED
      BY <2>3, <2>4
  <1>7. CASE run_task
    <2>1. PICK c : c = Head(deferred).conn
      OBVIOUS
    <2>2. deferred # <<>> /\ Head(deferred) \in Task /\ \E q : Settles(c, q)
      BY <1>7, <2>1, Runs, SMTT(60) DEF IInv
    <2>3. c \in Conns
      BY <2>1, <2>2, SMTT(60) DEF Task
    <2>4. hup' = hup /\ TablesTyped'
      BY <2>2, <2>3, <1>0, <1>7, SettledTyped, SMTT(60) DEF run_task
    <2>5. Tail(deferred) \in Seq(Task) /\ todo - 1 \in Nat
      BY <2>2, <1>0, <1>7, SMTT(60) DEF run_task
    <2> QED
      BY <2>4, <2>5, <1>0, <1>7, SMTT(60) DEF run_task, kernel, pool
  <1> QED
    BY <1>1, <1>2, <1>3, <1>4, <1>5, <1>6, <1>7, SMTT(60) DEF Step

-----------------------------------------------------------------------------
(* The open connections. *)

Counted ==
    /\ IsFiniteSet(Open) /\ connection_count = Cardinality(Open)
    /\ max_connections > 0 => connection_count <= max_connections

\* A connection that is settled is open after as before, or it is closed and
\* leaves the tables.
LEMMA SettledOpen ==
    ASSUME IInv, NEW c \in Conns, NEW q, Settles(c, q)
    PROVE  \/ /\ q.st = "Closed" /\ c \in Open /\ Open' = Open \ {c}
              /\ conn[c].fd \in Fds
              /\ callbacks' = [callbacks EXCEPT ![conn[c].fd] = None]
              /\ connections' = [connections EXCEPT ![conn[c].fd] = None]
              /\ connection_count' = connection_count - 1
           \/ /\ Open' = Open /\ UNCHANGED tables
              /\ q.fd = conn[c].fd /\ (IsOpen(q) <=> c \in Open)
  <1>1. conn' = [conn EXCEPT ![c] = q] /\ conn \in [Conns -> Record] /\ q \in Record /\ conn[c] \in Record
    BY SMTT(60) DEF IInv, TypeOK, Settles, Settle, Leaves
  <1>2. conn[c].st = "Closed" \/ c \in Open
    BY <1>1, SMTT(60) DEF Settles, Open, IsOpen, Record, State
  <1>3. \A d \in Conns : d # c => (d \in Open' <=> d \in Open)
    BY <1>1 DEF Open
  <1>4. c \in Open' <=> IsOpen(q)
    BY <1>1 DEF Open
  <1>5. CASE q.st = "Closed" /\ conn[c].st # "Closed"
    <2>1. c \in Open /\ Open' = Open \ {c}
      BY <1>2, <1>3, <1>4, <1>5, SMTT(60) DEF Open, IsOpen
    <2>2. conn[c].fd \in Fds
      BY <2>1, <1>1, Zenon DEF IInv, AllSound, Sound, Open, IsOpen, Record
    <2> QED
      BY <2>1, <2>2, <1>5, SMTT(60) DEF Settles, Settle
  <1>6. CASE ~(q.st = "Closed" /\ conn[c].st # "Closed")
    <2>1. UNCHANGED tables
      BY <1>6, SMTT(60) DEF Settles, Settle
    <2>2. q.fd = conn[c].fd /\ (IsOpen(q) <=> c \in Open)
      <3>1. CASE conn[c].st = "Closed"
        BY <3>1 DEF Settles, Open
      <3>2. CASE conn[c].st # "Closed"
        BY <3>2, <1>2, <1>6 DEF Settles, Leaves, Open, IsOpen
      <3> QED
        BY <3>1, <3>2
    <2>3. Open' = Open
      BY <2>2, <1>3, <1>4 DEF Open
    <2> QED
      BY <2>1, <2>2, <2>3, SMTT(60)
  <1> QED
    BY <1>5, <1>6, SMTT(60)

\* Steps that neither open nor close.
LEMMA SameOpen ==
    ASSUME IInv, \/ Quiet
                 \/ \E e \in batch : Ignored(e)
                 \/ \E c \in Conns : Touched(c)
                 \/ epoll_wait
    PROVE  /\ Open' = Open /\ callbacks' = callbacks /\ connection_count' = connection_count
           /\ \A c \in Conns : conn'[c].st = conn[c].st /\ conn'[c].fd = conn[c].fd
  <1>0. TypeOK /\ conn \in [Conns -> Record]
    BY DEF IInv, TypeOK
  <1>1. ASSUME callbacks' = callbacks, connection_count' = connection_count,
               \A c \in Conns : conn'[c].st = conn[c].st /\ conn'[c].fd = conn[c].fd
        PROVE  /\ Open' = Open /\ callbacks' = callbacks /\ connection_count' = connection_count
               /\ \A c \in Conns : conn'[c].st = conn[c].st /\ conn'[c].fd = conn[c].fd
    BY <1>1 DEF Open, IsOpen
  <1>2. CASE Quiet
    BY <1>0, <1>1, <1>2, QuietFrame
  <1>3. ASSUME NEW e \in batch, Ignored(e)
        PROVE  /\ callbacks' = callbacks /\ connection_count' = connection_count
               /\ \A c \in Conns : conn'[c].st = conn[c].st /\ conn'[c].fd = conn[c].fd
    BY <1>3, SMTT(60) DEF Ignored, dispatch_client, tables
  <1>4. ASSUME NEW c \in Conns, Touched(c)
        PROVE  /\ callbacks' = callbacks /\ connection_count' = connection_count
               /\ \A d \in Conns : conn'[d].st = conn[d].st /\ conn'[d].fd = conn[d].fd
    <2>1. PICK q : Touch(c, q) /\ Same(conn[c], q)
      BY <1>4 DEF Touched
    <2>2. conn' = [conn EXCEPT ![c] = q] /\ q.st = conn[c].st /\ q.fd = conn[c].fd
      BY <2>1 DEF Touch, Same
    <2> QED
      BY <2>1, <2>2, <1>0 DEF Touch, tables
  <1>5. CASE epoll_wait
    <2>1. \A r \in Record : [r EXCEPT !.armed = FALSE].st = r.st /\ [r EXCEPT !.armed = FALSE].fd = r.fd
      BY DEF Record
    <2> QED
      BY <2>1, <1>0, <1>1, <1>5, Zenon DEF epoll_wait, tables
  <1> QED
    BY <1>1, <1>2, <1>3, <1>4, <1>5

\* What accept() does.
LEMMA Accepts ==
    ASSUME IInv, NEW c \in backlog, NEW f \in Fds, accept(c, f)
    PROVE  /\ c \in Conns /\ c \notin Open /\ callbacks[f] = None /\ connections[f] = None
           /\ \/ Open' = Open /\ UNCHANGED tables /\ conn'[c].st = "Closed"
              \/ /\ Open' = Open \cup {c} /\ conn'[c].fd = f /\ conn'[c].armed /\ conn'[c].st = "Reading"
                 /\ callbacks' = [callbacks EXCEPT ![f] = c]
                 /\ connections' = [connections EXCEPT ![f] = c]
                 /\ connection_count' = connection_count + 1
                 /\ max_connections > 0 => connection_count < max_connections
           /\ \A d \in Conns : d # c => conn'[d] = conn[d]
  <1>0. TypeOK /\ AllSound /\ TablesAgree /\ conn \in [Conns -> Record]
    BY DEF IInv, TypeOK
  <1>1. c \in Conns /\ conn[c].st = "none" /\ c \notin Open /\ conn[c] \in Record
    BY <1>0 DEF IInv, ReactorOK, Open, IsOpen
  <1>2. callbacks[f] = None
    <2> SUFFICES ASSUME callbacks[f] # None
                 PROVE  FALSE
      OBVIOUS
    <2>1. callbacks[f] \in Open /\ conn[callbacks[f]].fd = f
      BY <1>0, CallbackIsOpen
    <2> QED
      BY <2>1 DEF accept
  <1>3. connections[f] = None
    BY <1>0, <1>2 DEF TablesAgree
  <1>4. CASE conn' = [conn EXCEPT ![c].st = "Closed"] /\ UNCHANGED tables
    <2>1. conn' = [conn EXCEPT ![c].st = "Closed"] /\ UNCHANGED tables
      BY <1>4
    <2>2. conn'[c].st = "Closed" /\ \A d \in Conns : d # c => conn'[d] = conn[d]
      BY <2>1, <1>0, <1>1 DEF Record
    <2>3. Open' = Open
      BY <2>2, <1>1 DEF Open, IsOpen
    <2> QED
      BY <1>1, <1>2, <1>3, <2>1, <2>2, <2>3
  <1>5. CASE ~(conn' = [conn EXCEPT ![c].st = "Closed"] /\ UNCHANGED tables)
    <2>1. /\ conn' = [conn EXCEPT ![c] = accepted(conn[c], f)]
          /\ callbacks' = [callbacks EXCEPT ![f] = c]
          /\ connections' = [connections EXCEPT ![f] = c]
          /\ connection_count' = connection_count + 1
      BY <1>5 DEF accept
    <2>2. accepted(conn[c], f).st = "Reading" /\ accepted(conn[c], f).fd = f /\ accepted(conn[c], f).armed
      BY <1>1 DEF accepted, Record
    <2>3. /\ conn'[c].st = "Reading" /\ conn'[c].fd = f /\ conn'[c].armed
          /\ \A d \in Conns : d # c => conn'[d] = conn[d]
      BY <2>1, <2>2, <1>0, <1>1
    <2>4. Open' = Open \cup {c}
      BY <2>3, <1>1 DEF Open, IsOpen
    <2>5. max_connections > 0 => connection_count < max_connections
      BY <1>5 DEF accept
    <2> QED
      BY <1>1, <1>2, <1>3, <2>1, <2>3, <2>4, <2>5
  <1> QED
    BY <1>4, <1>5

\* connection_count_ counts the open connections.
LEMMA StepCounted ==
    ASSUME IInv, Step, max_connections' = max_connections
    PROVE  Counted'
  <1>0. Counted /\ connection_count \in Nat /\ max_connections \in Nat
    BY ReactorAssumption DEF IInv, TypeOK, TablesAgree, ReactorOK, Counted
  <1>1. PICK n : n = Cardinality(Open)
    OBVIOUS
  <1>2. n \in Nat
    BY <1>0, <1>1 DEF Counted
  <1>3. ASSUME Open' = Open, connection_count' = connection_count
        PROVE  Counted'
    BY <1>0, <1>3 DEF Counted
  <1>4. ASSUME NEW c \in Conns, NEW q, Settles(c, q)
        PROVE  Counted'
    <2>1. CASE Open' = Open /\ UNCHANGED tables
      BY <2>1, <1>3 DEF tables
    <2>2. CASE c \in Open /\ Open' = Open \ {c} /\ connection_count' = connection_count - 1
      <3>1. IsFiniteSet(Open \ {c}) /\ Cardinality(Open \ {c}) = n - 1
        BY <2>2, <1>0, <1>1, FS_RemoveElement DEF Counted
      <3> QED
        BY <3>1, <2>2, <1>0, <1>1, <1>2 DEF Counted
    <2> QED
      BY <2>1, <2>2, <1>4, SettledOpen
  <1>5. ASSUME NEW e \in batch, Dispatched(e)
        PROVE  Counted'
    <2>1. callbacks[e.fd] \in Conns /\ \E q : Settles(callbacks[e.fd], q)
      BY <1>5, Dispatches DEF Dispatched, IInv, Open
    <2> QED
      BY <2>1, <1>4
  <1>6. CASE run_task
    <2>1. Head(deferred) \in Task /\ \E q : Settles(Head(deferred).conn, q)
      BY <1>6, Runs DEF IInv
    <2>2. Head(deferred).conn \in Conns
      BY <2>1 DEF Task
    <2> QED
      BY <2>1, <2>2, <1>4
  <1>7. ASSUME NEW c \in backlog, NEW f \in Fds, accept(c, f)
        PROVE  Counted'
    <2>1. CASE Open' = Open /\ UNCHANGED tables
      BY <2>1, <1>3 DEF tables
    <2>2. CASE /\ Open' = Open \cup {c} /\ connection_count' = connection_count + 1
               /\ max_connections > 0 => connection_count < max_connections
      <3>1. c \notin Open
        BY <1>7, Accepts
      <3>2. IsFiniteSet(Open \cup {c}) /\ Cardinality(Open \cup {c}) = n + 1
        BY <3>1, <1>0, <1>1, FS_AddElement DEF Counted
      <3> QED
        BY <3>2, <2>2, <1>0, <1>1, <1>2 DEF Counted
    <2> QED
      BY <2>1, <2>2, <1>7, Accepts
  <1> QED
    BY <1>3, <1>5, <1>6, <1>7, SameOpen DEF Step

-----------------------------------------------------------------------------
(* The tables. *)

IsQueued(ds, t) == \E i \in DOMAIN ds : ds[i] = t

Reachable ==
    /\ \A f \in Fds : callbacks[f] # None => conn[callbacks[f]].fd = f
    /\ \A f \in Fds : connections[f] # None => callbacks[f] = connections[f]
    /\ \A c \in Open :
         /\ callbacks[conn[c].fd] = c
         /\ connections[conn[c].fd] = c \/ IsQueued(deferred, CloseTask(c))

\* What is queued stays queued until it is run.
LEMMA StaysQueued ==
    ASSUME NEW ds \in Seq(Task), NEW t, IsQueued(ds, t)
    PROVE  /\ \A x \in Task : IsQueued(Append(ds, x), t)
           /\ \A xs \in Seq(Task) : IsQueued(ds \o xs, t)
           /\ ds # <<>> /\ Head(ds) # t => IsQueued(Tail(ds), t)
  <1>1. PICK i \in 1..Len(ds) : ds[i] = t
    BY DEF IsQueued
  <1>2. ASSUME NEW x \in Task
        PROVE  IsQueued(Append(ds, x), t)
    BY <1>1 DEF IsQueued
  <1>3. ASSUME NEW xs \in Seq(Task)
        PROVE  IsQueued(ds \o xs, t)
    BY <1>1 DEF IsQueued
  <1>4. ASSUME ds # <<>>, Head(ds) # t
        PROVE  IsQueued(Tail(ds), t)
    <2>1. i # 1
      BY <1>1, <1>4
    <2>2. i - 1 \in 1..Len(Tail(ds)) /\ Tail(ds)[i - 1] = ds[i] /\ DOMAIN Tail(ds) = 1..Len(Tail(ds))
      BY <1>4, <2>1
    <2> QED
      BY <2>2, <1>1 DEF IsQueued
  <1> QED
    BY <1>2, <1>3, <1>4

\* What is added is queued.
LEMMA BecomesQueued ==
    ASSUME NEW ds \in Seq(Task), NEW xs \in Seq(Task), NEW t, IsQueued(xs, t)
    PROVE  IsQueued(ds \o xs, t)
  <1>1. PICK i \in 1..Len(xs) : xs[i] = t
    BY DEF IsQueued
  <1>2. Len(ds) + i \in DOMAIN (ds \o xs) /\ (ds \o xs)[Len(ds) + i] = xs[i]
    BY <1>1
  <1> QED
    BY <1>1, <1>2 DEF IsQueued

\* Steps that neither open nor close a connection, but the cleanup, leave
\* connections_ and the queued closes.
LEMMA SameTables ==
    ASSUME IInv, ~cleanup_idle_connections,
           \/ Quiet
           \/ \E e \in batch : Ignored(e)
           \/ \E c \in Conns : Touched(c)
           \/ epoll_wait
    PROVE  /\ connections' = connections
           /\ \A t : IsQueued(deferred, t) => IsQueued(deferred', t)
  <1>0. TypeOK /\ deferred \in Seq(Task)
    BY DEF IInv, TypeOK
  <1>1. ASSUME deferred' = deferred
        PROVE  \A t : IsQueued(deferred, t) => IsQueued(deferred', t)
    BY <1>1
  <1>2. ASSUME NEW x \in Task, deferred' = Append(deferred, x)
        PROVE  \A t : IsQueued(deferred, t) => IsQueued(deferred', t)
    BY <1>0, <1>2, StaysQueued
  <1>3. ASSUME NEW c \in Conns, ClientConnects(c)
        PROVE  connections' = connections /\ deferred' = deferred
    BY <1>3 DEF ClientConnects, tables
  <1>4. CASE force_close
    <2>1. CloseTask(hup) \in Task
      BY <1>0, <1>4 DEF force_close, CloseTask, Task, TypeOK
    <2>2. connections' = connections /\ (deferred' = deferred \/ deferred' = Append(deferred, CloseTask(hup)))
      BY <1>4 DEF force_close, tables
    <2> QED
      BY <2>1, <2>2, <1>1, <1>2
  <1>5. CASE submit \/ dispatch_listen \/ accept_again \/ dispatch_wakeup \/ end_round \/ idle_cb
    <2>1. connections' = connections /\ deferred' = deferred
      BY <1>5 DEF submit, dispatch_listen, accept_again, dispatch_wakeup, end_round, idle_cb, tables
    <2> QED
      BY <2>1, <1>1
  <1>6. ASSUME NEW w \in Workers, take_job(w)
        PROVE  connections' = connections /\ deferred' = deferred
    BY <1>6 DEF take_job, tables
  <1>7. ASSUME NEW w \in Workers, NEW ka \in BOOLEAN, process_request(w, ka)
        PROVE  /\ connections' = connections
               /\ \A t : IsQueued(deferred, t) => IsQueued(deferred', t)
    <2> DEFINE x == [kind |-> "send", conn |-> working[w].conn, req |-> working[w].req, keep_alive |-> ka]
    <2>1. x \in Task
      BY <1>0, <1>7 DEF process_request, Job, Task, TypeOK
    <2>2. connections' = connections /\ deferred' = Append(deferred, x)
      BY <1>7 DEF process_request, tables
    <2> HIDE DEF x
    <2> QED
      BY <2>1, <2>2, <1>2
  <1>8. CASE Quiet
    BY <1>8, <1>1, <1>3, <1>4, <1>5, <1>6, <1>7 DEF Quiet
  <1>9. ASSUME NEW e \in batch, Ignored(e)
        PROVE  connections' = connections /\ deferred' = deferred
    BY <1>9 DEF Ignored, dispatch_client, tables
  <1>10. ASSUME NEW c \in Conns, Touched(c)
         PROVE  connections' = connections /\ deferred' = deferred
    BY <1>10 DEF Touched, Touch, tables
  <1>11. CASE epoll_wait
    BY <1>1, <1>11 DEF epoll_wait, tables
  <1> QED
    BY <1>1, <1>8, <1>9, <1>10, <1>11

\* Closing a connection takes it out of the tables; other steps on it leave
\* them as they are.
LEMMA SettledReachable ==
    ASSUME IInv, NEW c \in Conns, NEW q, Settles(c, q),
           \A d \in Conns : (d # c \/ IsOpen(q)) /\ IsQueued(deferred, CloseTask(d))
                               => IsQueued(deferred', CloseTask(d))
    PROVE  Reachable'
  <1>0. Reachable /\ TypeOK /\ conn \in [Conns -> Record] /\ None \notin Conns
    BY ReactorAssumption DEF IInv, TypeOK, TablesAgree, Reachable, IsQueued
  <1>1. conn'[c] = q /\ \A d \in Conns : d # c => conn'[d] = conn[d]
    BY <1>0 DEF Settles, Settle
  <1>2. CASE Open' = Open /\ UNCHANGED tables /\ q.fd = conn[c].fd /\ (IsOpen(q) <=> c \in Open)
    <2>1. \A d \in Conns : conn'[d].fd = conn[d].fd
      BY <1>1, <1>2
    <2>2. callbacks' = callbacks /\ connections' = connections /\ Open' = Open /\ Open \subseteq Conns
      BY <1>2 DEF tables, Open
    <2>3. \A f \in Fds : callbacks[f] # None => callbacks[f] \in Conns
      BY <1>0 DEF TypeOK
    <2>4. \A d \in Open : IsQueued(deferred, CloseTask(d)) => IsQueued(deferred', CloseTask(d))
      BY <2>2, <1>2
    <2> QED
      BY <1>0, <2>1, <2>2, <2>3, <2>4 DEF Reachable
  <1>3. CASE /\ q.st = "Closed" /\ c \in Open /\ Open' = Open \ {c}
             /\ conn[c].fd \in Fds
             /\ callbacks' = [callbacks EXCEPT ![conn[c].fd] = None]
             /\ connections' = [connections EXCEPT ![conn[c].fd] = None]
    <2>1. PICK g \in Fds : g = conn[c].fd
      BY <1>3
    <2>2. callbacks[g] = c
      BY <2>1, <1>0, <1>3 DEF Reachable
    <2>3. \A f \in Fds : callbacks[f] # None /\ f # g => callbacks[f] \in Conns \ {c}
      BY <2>1, <1>0, <1>3 DEF TypeOK, Reachable
    <2>4. /\ callbacks'[g] = None /\ connections'[g] = None
          /\ \A f \in Fds : f # g => callbacks'[f] = callbacks[f] /\ connections'[f] = connections[f]
      BY <2>1, <1>0, <1>3 DEF TypeOK
    <2>5. \A d \in Open \ {c} : d \in Conns /\ conn'[d] = conn[d] /\ conn[d].fd \in Fds /\ conn[d].fd # g
      <3>1. \A d \in Open : conn[d].fd \in Fds /\ d \in Conns
        BY ReactorAssumption, <1>0, Zenon DEF IInv, AllSound, Sound, Open, IsOpen, Record
      <3> QED
        BY <3>1, <2>2, <1>0, <1>1 DEF Reachable
    <2>6. \A f \in Fds : callbacks'[f] # None => conn'[callbacks'[f]].fd = f
      BY <2>3, <2>4, <1>0, <1>1 DEF Reachable
    <2>7. \A f \in Fds : connections'[f] # None => callbacks'[f] = connections'[f]
      BY <2>4, <1>0 DEF Reachable
    <2>8. \A d \in Open' : /\ callbacks'[conn'[d].fd] = d
                           /\ connections'[conn'[d].fd] = d \/ IsQueued(deferred', CloseTask(d))
      BY <2>4, <2>5, <1>0, <1>3 DEF Reachable
    <2> QED
      BY <2>6, <2>7, <2>8 DEF Reachable
  <1> QED
    BY <1>2, <1>3, SettledOpen

\* Every step keeps the connections reachable.
LEMMA StepReachable ==
    ASSUME IInv, Step
    PROVE  Reachable'
  <1>0. Reachable /\ TypeOK /\ conn \in [Conns -> Record] /\ deferred \in Seq(Task) /\ Open \subseteq Conns
    BY DEF IInv, TypeOK, TablesAgree, Reachable, IsQueued, Open
  <1>1. \A f \in Fds : callbacks[f] # None => callbacks[f] \in Conns
    BY <1>0 DEF TypeOK
  <1>2. \A d \in Open : conn[d].fd \in Fds
    BY ReactorAssumption, <1>0, Zenon DEF IInv, AllSound, Sound, Open, IsOpen, Record
  <1>3. CASE cleanup_idle_connections
    <2>1. Quiet
      BY <1>3 DEF Quiet
    <2>2. /\ Open' = Open /\ callbacks' = callbacks
          /\ \A c \in Conns : conn'[c].fd = conn[c].fd
      BY <2>1, SameOpen
    <2>3. PICK t \in Seq(Task) :
             /\ deferred' = deferred \o t
             /\ \A f \in Old : \E i \in DOMAIN t : t[i] = CloseTask(connections[f])
      BY <1>0, <1>3, CleanupCloses, Zenon
    <2>4. \A f \in Fds : connections'[f] = IF f \in Old THEN None ELSE connections[f]
      BY <1>3, SMTT(60) DEF cleanup_idle_connections, Old
    <2>5. \A x : IsQueued(deferred, x) => IsQueued(deferred', x)
      BY <2>3, <1>0, StaysQueued
    <2>6. \A f \in Old : IsQueued(deferred', CloseTask(connections[f]))
      <3>1. \A f \in Old : IsQueued(t, CloseTask(connections[f]))
        BY <2>3 DEF IsQueued
      <3> QED
        BY <3>1, <2>3, <1>0, BecomesQueued
    <2>7. \A d \in Open : connections'[conn[d].fd] = d \/ IsQueued(deferred', CloseTask(d))
      <3> SUFFICES ASSUME NEW d \in Open
                   PROVE  connections'[conn[d].fd] = d \/ IsQueued(deferred', CloseTask(d))
        OBVIOUS
      <3>1. conn[d].fd \in Fds /\ (connections[conn[d].fd] = d \/ IsQueued(deferred, CloseTask(d)))
        BY <1>0, <1>2 DEF Reachable
      <3> QED
        BY <3>1, <2>4, <2>5, <2>6
    <2> QED
      BY <2>2, <2>4, <2>7, <1>0, <1>1, <1>2, SMTT(60) DEF Reachable
  <1>4. ASSUME ~cleanup_idle_connections,
               \/ Quiet
               \/ \E e \in batch : Ignored(e)
               \/ \E c \in Conns : Touched(c)
               \/ epoll_wait
        PROVE  Reachable'
    <2>1. /\ Open' = Open /\ callbacks' = callbacks
          /\ \A c \in Conns : conn'[c].fd = conn[c].fd
      BY <1>4, SameOpen
    <2>2. connections' = connections /\ \A t : IsQueued(deferred, t) => IsQueued(deferred', t)
      BY <1>4, SameTables
    <2> QED
      BY <2>1, <2>2, <1>0, <1>1, <1>2 DEF Reachable
  <1>5. ASSUME NEW e \in batch, Dispatched(e)
        PROVE  Reachable'
    <2>1. callbacks[e.fd] \in Conns /\ \E q : Settles(callbacks[e.fd], q)
      BY <1>5, Dispatches DEF Dispatched, IInv, Open
    <2>2. deferred' = deferred
      BY <1>5 DEF Dispatched, dispatch_client
    <2> QED
      BY <2>1, <2>2, SettledReachable
  <1>6. CASE run_task
    <2>1. PICK h : h = Head(deferred)
      OBVIOUS
    <2>2. h \in Task /\ deferred # <<>>
      BY <2>1, <1>6, Runs DEF IInv
    <2>3. PICK q : Settles(h.conn, q) /\ (h.kind = "close" => q.st = "Closed")
      BY <2>1, <1>6, Runs DEF IInv
    <2>4. h.conn \in Conns
      BY <2>2 DEF Task
    <2>5. deferred' = Tail(deferred)
      BY <1>6 DEF run_task
    <2>6. ASSUME NEW d \in Conns, d # h.conn \/ IsOpen(q), IsQueued(deferred, CloseTask(d))
          PROVE  IsQueued(deferred', CloseTask(d))
      <3>1. h # CloseTask(d)
        BY <2>3, <2>6 DEF CloseTask, IsOpen
      <3> QED
        BY <3>1, <2>1, <2>2, <2>5, <2>6, <1>0, StaysQueued
    <2> QED
      BY <2>3, <2>4, <2>6, SettledReachable
  <1>7. ASSUME NEW c \in backlog, NEW f \in Fds, accept(c, f)
        PROVE  Reachable'
    <2>1. /\ c \in Conns /\ c \notin Open /\ callbacks[f] = None /\ connections[f] = None
          /\ \A d \in Conns : d # c => conn'[d] = conn[d]
      BY <1>7, Accepts
    <2>2. deferred' = deferred
      BY <1>7 DEF accept
    <2>3. \A g \in Fds : callbacks[g] # None => callbacks[g] # c
      BY <2>1, <1>0, CallbackIsOpen DEF IInv
    <2>4. CASE Open' = Open /\ UNCHANGED tables
      BY <2>1, <2>2, <2>3, <2>4, <1>0, <1>1, <1>2, SMTT(60) DEF Reachable, tables
    <2>5. CASE /\ Open' = Open \cup {c} /\ conn'[c].fd = f
               /\ callbacks' = [callbacks EXCEPT ![f] = c]
               /\ connections' = [connections EXCEPT ![f] = c]
      <3>1. /\ callbacks'[f] = c /\ connections'[f] = c
            /\ \A g \in Fds : g # f => callbacks'[g] = callbacks[g] /\ connections'[g] = connections[g]
        BY <2>5, <1>0 DEF TypeOK
      <3>2. \A d \in Open : conn[d].fd # f /\ d # c /\ conn'[d] = conn[d]
        BY <2>1, <1>0 , <1>7 DEF accept
      <3>3. \A g \in Fds : callbacks'[g] # None => conn'[callbacks'[g]].fd = g
        BY <3>1, <2>1, <2>3, <2>5, <1>0, <1>1 DEF Reachable
      <3>4. \A g \in Fds : connections'[g] # None => callbacks'[g] = connections'[g]
        BY <3>1, <1>0 DEF Reachable
      <3>5. \A d \in Open' : /\ callbacks'[conn'[d].fd] = d
                             /\ connections'[conn'[d].fd] = d \/ IsQueued(deferred', CloseTask(d))
        BY <3>1, <3>2, <2>2, <2>5, <1>0, <1>2 DEF Reachable
      <3> QED
        BY <3>3, <3>4, <3>5 DEF Reachable
    <2> QED
      BY <2>4, <2>5, <1>7, Accepts
  <1> QED
    BY <1>3, <1>4, <1>5, <1>6, <1>7 DEF Step

\* So the tables agree with the connections.
LEMMA StepTablesAgree ==
    ASSUME IInv, Step, max_connections' = max_connections
    PROVE  TablesAgree'
  BY StepCounted, StepReachable DEF Counted, Reachable, IsQueued, TablesAgree

-----------------------------------------------------------------------------
(* Events and tasks. *)

\* An event is of a connection that was open under its descriptor.
LEMMA StepBatchOK ==
    ASSUME IInv, Step
    PROVE  BatchOK'
  <1>0. TypeOK /\ BatchOK
    BY DEF IInv
  <1>1. CASE epoll_wait
    <2>1. \A c \in Conns : conn'[c].fd = conn[c].fd /\ conn'[c].st = conn[c].st
      BY <1>1, SameOpen
    <2>2. \A e \in batch' : e.kind = "client" => /\ e.owner \in Conns /\ conn[e.owner].fd = e.fd
                                                  /\ conn[e.owner].st # "none"
      BY <1>1 DEF epoll_wait, Open, IsOpen
    <2> QED
      BY <2>1, <2>2 DEF BatchOK
  <1>2. ASSUME batch' \subseteq batch
        PROVE  BatchOK'
    <2> SUFFICES ASSUME NEW e \in batch, e.kind = "client"
                 PROVE  /\ conn'[e.owner].st # "none"
                        /\ e.owner \in Open' => conn'[e.owner].fd = e.fd
      BY <1>2 DEF BatchOK
    <2>1. PICK c \in Conns : c = e.owner
      BY <1>0 DEF TypeOK, Event
    <2>2. Evolves(conn[c], conn'[c]) /\ conn[c].st # "none" /\ conn[c].st \in State
      BY <2>1, <1>0, StepEvolves, Zenon DEF BatchOK, TypeOK, Record
    <2>3. c \in Open' => c \in Open /\ conn'[c].fd = conn[c].fd
      BY <2>2 DEF Evolves, Open, IsOpen, State
    <2> QED
      BY <2>1, <2>2, <2>3, <1>0 DEF Evolves, BatchOK
  <1>3. CASE Quiet
    BY <1>0, <1>2, <1>3, QuietFrame
  <1>4. ASSUME NEW e \in batch, dispatch_client(e)
        PROVE  batch' \subseteq batch
    BY <1>4 DEF dispatch_client
  <1>5. ASSUME NEW c \in Conns, Touched(c)
        PROVE  batch' \subseteq batch
    BY <1>5 DEF Touched, Touch, reactor
  <1>6. ASSUME NEW c \in backlog, NEW f \in Fds, accept(c, f)
        PROVE  batch' \subseteq batch
    BY <1>6 DEF accept, reactor
  <1>7. CASE run_task
    BY <1>2, <1>7 DEF run_task
  <1> QED
    BY <1>1, <1>2, <1>3, <1>4, <1>5, <1>6, <1>7 DEF Step, Ignored, Dispatched

\* What a worker, the queue or the reactor has of a connection is an answer of
\* one that is processing or closed.
LEMMA OutstandingIs ==
    ASSUME TypeOK, OneAnswerUnderWay, NEW c \in Conns
    PROVE  /\ Outstanding(c) = Under(held, jobs, working, deferred, c)
           /\ Outstanding(c) \in {0, 1}
           /\ Outstanding(c) = 1 => conn[c].st \in {"Processing", "Closed"}
           /\ conn[c].st = "Processing" => Outstanding(c) = 1
  <1>1. Outstanding(c) = Under(held, jobs, working, deferred, c)
    BY UnderIs, Zenon DEF TypeOK, Outstanding, Under, WorkersOn
  <1>2. Under(held, jobs, working, deferred, c) \in Nat
    BY UnderNone, Zenon DEF TypeOK
  <1> QED
    BY <1>1, <1>2 DEF OneAnswerUnderWay

\* A worker works for a connection that has been accepted.
LEMMA WorkedOn ==
    ASSUME TypeOK, OneAnswerUnderWay, NEW w \in Workers, working[w] # None
    PROVE  working[w].conn \in Conns /\ conn[working[w].conn].st \in {"Processing", "Closed"}
  <1>1. PICK c \in Conns : c = working[w].conn
    BY DEF TypeOK, Job
  <1>2. \A v \in Workers : working[v] # None /\ working[v].conn = c
                              => Under(held, jobs, working, deferred, c) > 0
    BY UnderNone, Zenon DEF TypeOK
  <1>3. Under(held, jobs, working, deferred, c) > 0
    BY <1>1, <1>2
  <1>4. /\ Outstanding(c) = Under(held, jobs, working, deferred, c)
        /\ Outstanding(c) \in {0, 1}
        /\ Outstanding(c) = 1 => conn[c].st \in {"Processing", "Closed"}
    BY OutstandingIs
  <1> QED
    BY <1>1, <1>3, <1>4, SMTT(60)

Accepted(ds) == \A i \in DOMAIN ds : conn[ds[i].conn].st # "none"

\* The part of ReactorOK that is not about the open connections.
Ready ==
    /\ todo <= Len(deferred)
    /\ pc = "wait" => batch = {}
    /\ backlog \subseteq {c \in Conns : conn[c].st = "none"}
    /\ hup # None => conn[hup].st # "none"
    /\ Accepted(deferred)

\* Quiet steps.
LEMMA QuietReady ==
    ASSUME IInv, Quiet
    PROVE  Ready'
  <1>0. /\ TypeOK /\ Ready /\ deferred \in Seq(Task) /\ Len(deferred) \in Nat /\ todo \in Nat
        /\ jobs \in Seq(Job) /\ OneAnswerUnderWay
    BY DEF IInv, TypeOK, ReactorOK, Ready, Accepted
  <1>1. conn' = conn
    BY <1>0, QuietFrame
  <1>2. ASSUME deferred' = deferred, todo' = todo, hup' = hup, backlog' = backlog, batch' = batch,
               pc' # "wait" \/ pc' = pc \/ batch = {}
        PROVE  Ready'
    BY <1>0, <1>1, <1>2 DEF Ready, Accepted
  <1>3. ASSUME NEW c \in Conns, ClientConnects(c)
        PROVE  Ready'
    BY <1>0, <1>1, <1>3 DEF ClientConnects, Ready, Accepted, reactor
  <1>4. CASE force_close
    <2>1. CloseTask(hup) \in Task /\ CloseTask(hup).conn = hup /\ conn[hup].st # "none"
      BY <1>0, <1>4 DEF force_close, CloseTask, Task, TypeOK, Ready
    <2> QED
      BY <2>1, <1>0, <1>1, <1>4 DEF force_close, Ready, Accepted, kernel
  <1>5. CASE submit
    BY <1>2, <1>5 DEF submit, kernel
  <1>6. CASE dispatch_listen
    BY <1>0, <1>1, <1>6, SMTT(60) DEF dispatch_listen, kernel, Ready, Accepted
  <1>7. CASE accept_again
    BY <1>0, <1>1, <1>7, SMTT(60) DEF accept_again, kernel, Ready, Accepted
  <1>8. CASE dispatch_wakeup
    <2>1. todo' <= Len(deferred)
      BY <1>0, <1>8, ReactorAssumption DEF dispatch_wakeup
    <2> QED
      BY <2>1, <1>0, <1>1, <1>8 DEF dispatch_wakeup, kernel, Ready, Accepted
  <1>9. CASE end_round
    BY <1>2, <1>9 DEF end_round, kernel
  <1>10. CASE idle_cb
    BY <1>2, <1>10 DEF idle_cb, kernel
  <1>11. CASE cleanup_idle_connections
    <2>1. PICK t \in Seq(Task) :
             /\ deferred' = deferred \o t
             /\ \A i \in DOMAIN t : \E f \in Old : t[i] = CloseTask(connections[f])
      BY <1>0, <1>11, CleanupCloses
    <2>2. \A f \in Old : conn[connections[f]].st # "none"
      <3> SUFFICES ASSUME NEW f \in Old
                   PROVE  conn[connections[f]].st # "none"
        OBVIOUS
      <3>1. f \in Fds /\ connections[f] # None /\ callbacks[f] = connections[f]
        BY DEF Old, IInv, TablesAgree
      <3>2. callbacks[f] \in Open
        BY <3>1, <1>0, CallbackIsOpen DEF IInv
      <3> QED
        BY <3>1, <3>2 DEF Open, IsOpen
    <2>3. \A i \in DOMAIN t : conn[t[i].conn].st # "none"
      BY <2>1, <2>2 DEF CloseTask
    <2>4. /\ Len(deferred \o t) = Len(deferred) + Len(t) /\ Len(t) \in Nat
          /\ \A i \in DOMAIN (deferred \o t) : \/ i \in DOMAIN deferred /\ (deferred \o t)[i] = deferred[i]
                                               \/ \E j \in DOMAIN t : (deferred \o t)[i] = t[j]
      <3>1. \A i \in 1..(Len(deferred) + Len(t)) : i <= Len(deferred) \/ i - Len(deferred) \in 1..Len(t)
        BY <1>0
      <3> QED
        BY <3>1, <1>0
    <2>5. Accepted(deferred \o t)
      BY <2>3, <2>4, <1>0, SMTT(60) DEF Ready, Accepted
    <2>6. todo <= Len(deferred \o t)
      BY <2>4, <1>0 DEF Ready
    <2> QED
      BY <2>1, <2>5, <2>6, <1>0, <1>1, <1>11, SMTT(60) DEF cleanup_idle_connections, kernel, Ready, Accepted
  <1>12. ASSUME NEW w \in Workers, take_job(w)
         PROVE  Ready'
    BY <1>2, <1>12 DEF take_job, kernel, reactor
  <1>13. ASSUME NEW w \in Workers, NEW ka \in BOOLEAN, process_request(w, ka)
         PROVE  Ready'
    <2> DEFINE x == [kind |-> "send", conn |-> working[w].conn, req |-> working[w].req, keep_alive |-> ka]
    <2>1. x \in Task
      BY <1>0, <1>13, SMTT(60) DEF process_request, Job, Task, TypeOK
    <2>2. x.conn = working[w].conn /\ conn[working[w].conn].st # "none"
      BY <1>0, <1>13, WorkedOn, SMTT(60) DEF process_request
    <2>3. deferred' = Append(deferred, x)
      BY <1>13 DEF process_request
    <2> HIDE DEF x
    <2> QED
      BY <2>1, <2>2, <2>3, <1>0, <1>1, <1>13, SMTT(60) DEF process_request, Ready, Accepted, kernel, reactor
  <1> QED
    BY <1>3, <1>4, <1>5, <1>6, <1>7, <1>8, <1>9, <1>10, <1>11, <1>12, <1>13 DEF Quiet

\* Every step.
LEMMA StepReactorOK ==
    ASSUME IInv, Step, max_connections' = max_connections
    PROVE  ReactorOK'
  <1>0. /\ TypeOK /\ Ready /\ deferred \in Seq(Task) /\ Len(deferred) \in Nat /\ todo \in Nat
        /\ None \notin Conns /\ backlog \subseteq Conns
    BY ReactorAssumption, SMTT(60) DEF IInv, TypeOK, ReactorOK, Ready, Accepted
  <1>1. \A c \in Conns : conn[c].st # "none" => conn'[c].st # "none"
    BY StepEvolves DEF Evolves
  <1>2. \A i \in DOMAIN deferred : deferred[i].conn \in Conns
    BY <1>0 DEF Task
  <1> SUFFICES Ready'
    BY StepCounted, SMTT(60) DEF Counted, Ready, ReactorOK, Accepted
  <1>3. ASSUME todo' = todo, deferred' = deferred, hup' = hup,
               pc' = "wait" => batch' = {},
               \A c \in backlog' : c \in Conns /\ conn'[c].st = "none"
        PROVE  Ready'
    <2>1. hup # None => conn'[hup].st # "none"
      BY <1>0, <1>1 DEF Ready, TypeOK
    <2>2. \A i \in DOMAIN deferred : conn'[deferred[i].conn].st # "none"
      BY <1>0, <1>1, <1>2 DEF Ready, Accepted
    <2> QED
      BY <2>1, <2>2, <1>0, <1>3 DEF Ready, Accepted
  <1>4. CASE Quiet
    BY <1>4, QuietReady
  <1>5. ASSUME NEW e \in batch, Ignored(e)
        PROVE  Ready'
    BY <1>0, <1>3, <1>5, SMTT(60) DEF Ignored, dispatch_client, kernel, Ready
  <1>6. ASSUME NEW c \in Conns, NEW q, Settles(c, q)
        PROVE  \A d \in backlog : d \in Conns /\ conn'[d].st = "none"
    <2>1. conn' = [conn EXCEPT ![c] = q] /\ conn[c].st # "none"
      BY <1>6 DEF Settles, Settle
    <2> QED
      BY <2>1, <1>0 DEF Ready, TypeOK
  <1>7. ASSUME NEW e \in batch, Dispatched(e)
        PROVE  Ready'
    <2>1. PICK c : c = callbacks[e.fd]
      OBVIOUS
    <2>2. c \in Conns /\ conn[c].st # "none" /\ (\E q : Settles(c, q)) /\ hup' \in {c, None}
      BY <1>7, <2>1, Dispatches, SMTT(60) DEF Dispatched, IInv, Open, IsOpen
    <2>3. /\ deferred' = deferred /\ todo' = todo /\ pc' = pc /\ pc # "wait" /\ backlog' = backlog
      BY <1>7, SMTT(60) DEF Dispatched, dispatch_client, kernel
    <2>4. \A d \in backlog : d \in Conns /\ conn'[d].st = "none"
      BY <2>2, <1>6
    <2>5. \A i \in DOMAIN deferred : conn'[deferred[i].conn].st # "none"
      BY <1>0, <1>1, <1>2 DEF Ready, Accepted
    <2> QED
      BY <2>2, <2>3, <2>4, <2>5, <1>0, <1>1 DEF Ready, Accepted
  <1>8. ASSUME NEW c \in Conns, Touched(c)
        PROVE  Ready'
    <2>1. \A d \in Conns : conn'[d].st = conn[d].st
      BY <1>8, SameOpen
    <2> QED
      BY <2>1, <1>0, <1>3, <1>8 DEF Touched, Touch, reactor, kernel, Ready
  <1>9. CASE epoll_wait
    <2>1. \A d \in Conns : conn'[d].st = conn[d].st
      BY <1>9, SameOpen
    <2> QED
      BY <2>1, <1>0, <1>3, <1>9 DEF epoll_wait, Ready
  <1>10. ASSUME NEW c \in backlog, NEW f \in Fds, accept(c, f)
         PROVE  Ready'
    <2>1. c \in Conns /\ \A d \in Conns : d # c => conn'[d] = conn[d]
      BY <1>10, Accepts
    <2> QED
      BY <2>1, <1>0, <1>3, <1>10 DEF accept, reactor, Ready
  <1>11. CASE run_task
    <2>1. PICK c : c = Head(deferred).conn
      OBVIOUS
    <2>2. deferred # <<>> /\ Head(deferred) \in Task /\ \E q : Settles(c, q)
      BY <1>11, <2>1, Runs, SMTT(60) DEF IInv
    <2>3. c \in Conns
      BY <2>1, <2>2, SMTT(60) DEF Task
    <2>4. \A d \in backlog : d \in Conns /\ conn'[d].st = "none"
      BY <2>2, <2>3, <1>6
    <2>5. /\ deferred' = Tail(deferred) /\ todo' = todo - 1 /\ pc' = pc /\ pc # "wait"
          /\ backlog' = backlog /\ hup' = hup
      BY <1>11 DEF run_task, kernel
    <2>6. todo' <= Len(deferred')
      BY <2>2, <2>5, <1>0 DEF Ready
    <2>7. \A i \in DOMAIN deferred : conn'[deferred[i].conn].st # "none"
      BY <1>0, <1>1, <1>2 DEF Ready, Accepted
    <2>8. \A i \in DOMAIN Tail(deferred) : conn'[Tail(deferred)[i].conn].st # "none"
      <3>1. \A i \in DOMAIN Tail(deferred) : i + 1 \in DOMAIN deferred /\ Tail(deferred)[i] = deferred[i + 1]
        BY <2>2, <1>0
      <3> QED
        BY <3>1, <2>7
    <2>9. hup # None => conn'[hup].st # "none"
      BY <1>0, <1>1 DEF Ready, TypeOK
    <2> QED
      BY <2>4, <2>5, <2>6, <2>8, <2>9 DEF Ready, Accepted
  <1> QED
    BY <1>4, <1>5, <1>7, <1>8, <1>9, <1>10, <1>11 DEF Step

=============================================================================
