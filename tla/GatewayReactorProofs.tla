------------------------ MODULE GatewayReactorProofs ------------------------
(***************************************************************************)
(* What the reactor promises of its connections, for any number of         *)
(* connections, descriptors and workers and any limits: what every step    *)
(* does to the requests under way and to the input, and with the lemmas of *)
(* GatewayReactorTables that the invariant is inductive.                   *)
(***************************************************************************)
EXTENDS GatewayReactorTables

-----------------------------------------------------------------------------
(* What is under way. *)

\* Steps that do not settle a connection parse nothing and answer nothing.
LEMMA SameParsed ==
    ASSUME IInv, \/ Quiet
                 \/ \E e \in batch : Ignored(e)
                 \/ \E c \in Conns : Touched(c)
                 \/ epoll_wait
                 \/ \E c \in backlog, f \in Fds : accept(c, f)
    PROVE  \A c \in Conns : /\ conn'[c].parsed = conn[c].parsed
                            /\ conn'[c].st # conn[c].st => conn[c].st = "none" /\ conn'[c].st # "Processing"
  <1>0. TypeOK /\ conn \in [Conns -> Record]
    BY DEF IInv, TypeOK
  <1>1. CASE Quiet
    BY <1>0, <1>1, QuietFrame
  <1>2. ASSUME NEW e \in batch, Ignored(e)
        PROVE  conn' = conn
    BY <1>2, SMTT(60) DEF Ignored, dispatch_client
  <1>3. ASSUME NEW c \in Conns, Touched(c)
        PROVE  \A d \in Conns : conn'[d].parsed = conn[d].parsed /\ conn'[d].st = conn[d].st
    <2>1. PICK q : Touch(c, q) /\ Same(conn[c], q)
      BY <1>3 DEF Touched
    <2>2. conn' = [conn EXCEPT ![c] = q] /\ q.parsed = conn[c].parsed /\ q.st = conn[c].st
      BY <2>1 DEF Touch, Same
    <2> QED
      BY <2>2, <1>0
  <1>4. CASE epoll_wait
    <2>1. \A r \in Record : [r EXCEPT !.armed = FALSE].parsed = r.parsed /\ [r EXCEPT !.armed = FALSE].st = r.st
      BY DEF Record
    <2> QED
      BY <2>1, <1>0, <1>4, Zenon DEF epoll_wait
  <1>5. ASSUME NEW c \in backlog, NEW f \in Fds, accept(c, f)
        PROVE  \A d \in Conns : /\ conn'[d].parsed = conn[d].parsed
                                /\ conn'[d].st # conn[d].st => conn[d].st = "none" /\ conn'[d].st # "Processing"
    <2>1. c \in Conns /\ conn[c].st = "none" /\ conn[c] \in Record
      BY <1>0 DEF IInv, ReactorOK
    <2>2. PICK q : conn' = [conn EXCEPT ![c] = q]
                   /\ q \in {[conn[c] EXCEPT !.st = "Closed"], accepted(conn[c], f)}
      BY <1>5 DEF accept
    <2>3. q.parsed = conn[c].parsed /\ q.st \in {"Closed", "Reading"}
      BY <2>1, <2>2, Zenon DEF accepted, Record
    <2> QED
      BY <2>1, <2>2, <2>3, <1>0
  <1> QED
    BY <1>1, <1>2, <1>3, <1>4, <1>5

\* They move what is under way and keep its number.
LEMMA SameUnder ==
    ASSUME IInv, NEW c \in Conns,
           \/ Quiet
           \/ \E e \in batch : Ignored(e)
           \/ \E d \in Conns : Touched(d)
           \/ epoll_wait
           \/ \E d \in backlog, f \in Fds : accept(d, f)
    PROVE  Under(held', jobs', working', deferred', c) = Under(held, jobs, working, deferred, c)
  <1>0. /\ TypeOK /\ held \in Job \cup {None} /\ jobs \in Seq(Job) /\ deferred \in Seq(Task)
        /\ working \in [Workers -> Job \cup {None}]
    BY DEF IInv, TypeOK
  <1>1. ASSUME held' = held, jobs' = jobs, working' = working, deferred' = deferred
        PROVE  Under(held', jobs', working', deferred', c) = Under(held, jobs, working, deferred, c)
    BY <1>1
  <1>2. ASSUME NEW d \in Conns, ClientConnects(d)
        PROVE  held' = held /\ jobs' = jobs /\ working' = working /\ deferred' = deferred
    BY <1>2 DEF ClientConnects, reactor, pool
  <1>3. CASE force_close
    <2>1. held' = held /\ jobs' = jobs /\ working' = working
      BY <1>3, SMTT(60) DEF force_close, pool
    <2>2. CASE deferred' = deferred
      BY <2>1, <2>2
    <2>3. CASE deferred' = Append(deferred, CloseTask(hup))
      <3>1. CloseTask(hup) \in Task /\ CloseTask(hup).kind = "close"
        BY <1>0, <1>3, SMTT(60) DEF force_close, CloseTask, Task, TypeOK
      <3>2. PICK t : t = <<CloseTask(hup)>>
        BY Zenon
      <3>3. t \in Seq(Task) /\ (\A i \in DOMAIN t : t[i].kind = "close") /\ Append(deferred, CloseTask(hup)) = deferred \o t
        BY <3>1, <3>2, <1>0, SMTT(60)
      <3> QED
        BY <3>3, <2>1, <2>3, <1>0, UnderCloses, SMTT(60)
    <2> QED
      BY <2>2, <2>3, <1>3, SMTT(60) DEF force_close
  <1>4. CASE submit
    <2>1. /\ held \in Job /\ held' = None /\ jobs' = Append(jobs, held)
          /\ working' = working /\ deferred' = deferred
      BY <1>0, <1>4 DEF submit
    <2> QED
      BY <2>1, <1>0, UnderSubmit
  <1>5. CASE dispatch_listen \/ accept_again \/ dispatch_wakeup \/ end_round \/ idle_cb
    <2>1. held' = held /\ jobs' = jobs /\ working' = working /\ deferred' = deferred
      BY <1>5 DEF dispatch_listen, accept_again, dispatch_wakeup, end_round, idle_cb, pool
    <2> QED
      BY <2>1
  <1>6. CASE cleanup_idle_connections
    <2>1. PICK t \in Seq(Task) : /\ deferred' = deferred \o t
                                 /\ \A i \in DOMAIN t : \E f \in Old : t[i] = CloseTask(connections[f])
      BY <1>0, <1>6, CleanupCloses, SMTT(60)
    <2>2. \A i \in DOMAIN t : t[i].kind = "close"
      BY <2>1 DEF CloseTask
    <2>3. held' = held /\ jobs' = jobs /\ working' = working
      BY <1>6 DEF cleanup_idle_connections, pool
    <2> QED
      BY <2>1, <2>2, <2>3, <1>0, UnderCloses
  <1>7. ASSUME NEW w \in Workers, take_job(w)
        PROVE  Under(held', jobs', working', deferred', c) = Under(held, jobs, working, deferred, c)
    <2>1. /\ working[w] = None /\ jobs # <<>> /\ working' = [working EXCEPT ![w] = Head(jobs)]
          /\ jobs' = Tail(jobs) /\ held' = held /\ deferred' = deferred
      BY <1>7 DEF take_job, reactor
    <2> QED
      BY <2>1, <1>0, UnderTake, Zenon
  <1>8. ASSUME NEW w \in Workers, NEW ka \in BOOLEAN, process_request(w, ka)
        PROVE  Under(held', jobs', working', deferred', c) = Under(held, jobs, working, deferred, c)
    <2> DEFINE x == [kind |-> "send", conn |-> working[w].conn, req |-> working[w].req, keep_alive |-> ka]
    <2>1. x \in Task /\ x.kind = "send" /\ x.conn = working[w].conn
      BY <1>0, <1>8 DEF process_request, Job, Task
    <2>2. /\ working[w] # None /\ deferred' = Append(deferred, x) /\ working' = [working EXCEPT ![w] = None]
          /\ jobs' = jobs /\ held' = held
      BY <1>8 DEF process_request, reactor
    <2> HIDE DEF x
    <2> QED
      BY <2>1, <2>2, <1>0, UnderAnswer, ZenonT(60)
  <1>9. ASSUME NEW e \in batch, Ignored(e)
        PROVE  held' = held /\ jobs' = jobs /\ working' = working /\ deferred' = deferred
    BY <1>9 DEF Ignored, dispatch_client, pool
  <1>10. ASSUME NEW d \in Conns, Touched(d)
         PROVE  held' = held /\ jobs' = jobs /\ working' = working /\ deferred' = deferred
    BY <1>10 DEF Touched, Touch, reactor, pool
  <1>11. CASE epoll_wait
    BY <1>1, <1>11 DEF epoll_wait, pool
  <1>12. ASSUME NEW d \in backlog, NEW f \in Fds, accept(d, f)
         PROVE  held' = held /\ jobs' = jobs /\ working' = working /\ deferred' = deferred
    BY <1>12 DEF accept, reactor, pool
  <1>13. CASE Quiet
    BY <1>1, <1>2, <1>3, <1>4, <1>5, <1>6, <1>7, <1>8, <1>13 DEF Quiet
  <1> QED
    BY <1>1, <1>9, <1>10, <1>11, <1>12, <1>13

\* What settling connection c as q leaves under way, but for a request that it
\* parses.
Left(c) == Under(None, jobs, working, deferred', c)

\* A step that settles a connection.
LEMMA SettledUnder ==
    ASSUME IInv, (\E e \in batch : Dispatched(e)) \/ run_task
    PROVE  \E c \in Conns, q \in Record :
             /\ Settles(c, q) /\ jobs' = jobs /\ working' = working
             /\ \A i \in DOMAIN deferred' : \E j \in DOMAIN deferred : deferred'[i] = deferred[j]
             /\ \A d \in Conns \ {c} : Left(d) = Under(held, jobs, working, deferred, d)
             /\ q.parsed # conn[c].parsed => Left(c) = 0
             /\ q.parsed = conn[c].parsed =>
                   /\ Left(c) \in {0, 1}
                   /\ q.st = "Processing" => Left(c) = 1
                   /\ Left(c) = 1 => q.st \in {"Processing", "Closed"}
  <1>0. /\ TypeOK /\ OneAnswerUnderWay /\ deferred \in Seq(Task) /\ jobs \in Seq(Job)
        /\ working \in [Workers -> Job \cup {None}]
    BY DEF IInv, TypeOK
  <1>1. ASSUME NEW e \in batch, Dispatched(e)
        PROVE  \E c \in Conns, q \in Record :
                 /\ Settles(c, q) /\ jobs' = jobs /\ working' = working
                 /\ deferred' = deferred /\ c \in Open
                 /\ conn[c].st = "Processing" => q = conn[c]
    <2>1. PICK c : c = callbacks[e.fd]
      OBVIOUS
    <2>2. PICK q : Settles(c, q) /\ (conn[c].st = "Processing" => q = conn[c])
      BY <1>1, <2>1, Dispatches DEF Dispatched, IInv
    <2>3. c \in Open /\ c \in Conns
      BY <1>1, <2>1, Dispatches DEF Dispatched, IInv, Open
    <2>4. q \in Record
      BY <2>2 DEF Settles, Leaves
    <2> QED
      BY <2>2, <2>3, <2>4, <1>1 DEF Dispatched, dispatch_client, pool
  <1>2. ASSUME NEW c \in Conns, NEW q \in Record, Settles(c, q), jobs' = jobs, working' = working,
               deferred' = deferred, c \in Open, conn[c].st = "Processing" => q = conn[c]
        PROVE  /\ \A i \in DOMAIN deferred' : \E j \in DOMAIN deferred : deferred'[i] = deferred[j]
               /\ \A d \in Conns \ {c} : Left(d) = Under(held, jobs, working, deferred, d)
               /\ q.parsed # conn[c].parsed => Left(c) = 0
               /\ q.parsed = conn[c].parsed =>
                     /\ Left(c) \in {0, 1}
                     /\ q.st = "Processing" => Left(c) = 1
                     /\ Left(c) = 1 => q.st \in {"Processing", "Closed"}
    <2>1. held = None
      BY <1>2 DEF Settles
    <2>2. \A d \in Conns : Left(d) = Under(held, jobs, working, deferred, d)
      BY <2>1, <1>2 DEF Left
    <2>3. /\ Left(c) \in {0, 1} /\ (Left(c) = 1 => conn[c].st \in {"Processing", "Closed"})
          /\ conn[c].st = "Processing" => Left(c) = 1
      BY <2>2, <1>0, OutstandingIs
    <2>4. conn[c].st # "Closed"
      BY <1>2 DEF Open, IsOpen
    <2>5. q.parsed = conn[c].parsed => (q.st = "Processing" => q = conn[c])
      <3>1. conn[c].parsed \in Nat
        BY <1>0, <1>2 DEF TypeOK, Record
      <3> QED
        BY <3>1, <1>2 DEF Settles, Leaves
    <2> QED
      BY <1>2, <2>2, <2>3, <2>4, <2>5
  <1>3. CASE run_task
    <2>1. PICK h : h = Head(deferred)
      OBVIOUS
    <2>2. h \in Task /\ deferred # <<>>
      BY <2>1, <1>3, Runs DEF IInv
    <2>3. PICK c \in Conns : c = h.conn
      BY <2>2 DEF Task
    <2>4. PICK q : /\ Settles(c, q) /\ (h.kind = "close" => q.st = "Closed")
                   /\ h.kind = "send" => \/ /\ conn[c].st = "Processing"
                                            /\ q.parsed = conn[c].parsed => q.st # "Processing"
                                         \/ conn[c].st = "Closed"
      BY <2>1, <2>3, <1>3, Runs DEF IInv
    <2>5. /\ deferred' = Tail(deferred) /\ jobs' = jobs /\ working' = working /\ held = None
          /\ q \in Record
      BY <2>4, <1>3 DEF run_task, pool, ReactorFree, Settles, Leaves
    <2>6. \A i \in DOMAIN deferred' : \E j \in DOMAIN deferred : deferred'[i] = deferred[j]
      <3>1. \A i \in DOMAIN Tail(deferred) : i + 1 \in DOMAIN deferred /\ Tail(deferred)[i] = deferred[i + 1]
        BY <2>2, <1>0
      <3> QED
        BY <3>1, <2>5
    <2>7. \A d \in Conns : Under(held, jobs, working, deferred, d)
                             = Left(d) + (IF h.kind = "send" /\ h.conn = d THEN 1 ELSE 0)
      BY <2>1, <2>2, <2>5, <1>0, UnderTaken DEF Left
    <2>8. \A d \in Conns : Left(d) \in Nat
      <3>1. deferred' \in Seq(Task)
        BY <2>2, <2>5, <1>0
      <3> QED
        BY <3>1, <1>0, UnderNone, Zenon DEF Left
    <2>9. \A d \in Conns \ {c} : Left(d) = Under(held, jobs, working, deferred, d)
      BY <2>3, <2>7, <2>8
    <2>10. PICK n : n = Under(held, jobs, working, deferred, c)
      OBVIOUS
    <2>11. n \in {0, 1} /\ (n = 1 => conn[c].st \in {"Processing", "Closed"})
      BY <2>10, <1>0, OutstandingIs
    <2>12. q.parsed # conn[c].parsed => q.st = "Processing" /\ conn[c].st # "Closed"
      BY <2>4 DEF Settles, Leaves
    <2>13. CASE h.kind = "send"
      <3>1. Left(c) = 0
        BY <2>3, <2>7, <2>8, <2>10, <2>11, <2>13
      <3>2. q.parsed = conn[c].parsed => q.st # "Processing"
        BY <2>4, <2>13 DEF Settles
      <3> QED
        BY <3>1, <3>2, <2>4, <2>5, <2>6, <2>9
    <2>14. CASE h.kind = "close"
      <3>1. Left(c) = n
        BY <2>7, <2>8, <2>10, <2>14
      <3>2. q.st = "Closed" /\ q.parsed = conn[c].parsed
        BY <2>4, <2>12, <2>14
      <3> QED
        BY <3>1, <3>2, <2>4, <2>5, <2>6, <2>9, <2>11
    <2> QED
      BY <2>2, <2>13, <2>14 DEF Task
  <1> QED
    BY <1>1, <1>2, <1>3

\* An answer is under way exactly for a connection that is processing.
LEMMA StepOneAnswerUnderWay ==
    ASSUME IInv, Step, TypeOK'
    PROVE  OneAnswerUnderWay'
  <1>0. TypeOK /\ OneAnswerUnderWay /\ TypeOK'
    BY DEF IInv
  <1>1. \A c \in Conns : Outstanding(c)' = Under(held', jobs', working', deferred', c)
    BY <1>0, UnderIs, Zenon DEF TypeOK, Outstanding, Under, WorkersOn
  <1>2. ASSUME \A c \in Conns :
                  /\ Under(held', jobs', working', deferred', c) \in {0, 1}
                  /\ conn'[c].st = "Processing" => Under(held', jobs', working', deferred', c) = 1
                  /\ Under(held', jobs', working', deferred', c) = 1 => conn'[c].st \in {"Processing", "Closed"}
        PROVE  OneAnswerUnderWay'
    BY <1>1, <1>2 DEF OneAnswerUnderWay
  <1>3. \A c \in Conns :
           /\ Under(held, jobs, working, deferred, c) \in {0, 1}
           /\ conn[c].st = "Processing" => Under(held, jobs, working, deferred, c) = 1
           /\ Under(held, jobs, working, deferred, c) = 1 => conn[c].st \in {"Processing", "Closed"}
    BY <1>0, OutstandingIs
  <1>4. ASSUME \/ Quiet
               \/ \E e \in batch : Ignored(e)
               \/ \E d \in Conns : Touched(d)
               \/ epoll_wait
               \/ \E d \in backlog, f \in Fds : accept(d, f)
        PROVE  OneAnswerUnderWay'
    <2>1. \A c \in Conns : Under(held', jobs', working', deferred', c) = Under(held, jobs, working, deferred, c)
      BY <1>4, SameUnder
    <2>2. \A c \in Conns : conn'[c].st # conn[c].st => conn[c].st = "none" /\ conn'[c].st # "Processing"
      BY <1>4, SameParsed
    <2> QED
      BY <2>1, <2>2, <1>2, <1>3
  <1>5. CASE (\E e \in batch : Dispatched(e)) \/ run_task
    <2>1. PICK c \in Conns, q \in Record :
             /\ Settles(c, q) /\ jobs' = jobs /\ working' = working
             /\ \A d \in Conns \ {c} : Left(d) = Under(held, jobs, working, deferred, d)
             /\ q.parsed # conn[c].parsed => Left(c) = 0
             /\ q.parsed = conn[c].parsed =>
                   /\ Left(c) \in {0, 1}
                   /\ q.st = "Processing" => Left(c) = 1
                   /\ Left(c) = 1 => q.st \in {"Processing", "Closed"}
      BY <1>5, SettledUnder
    <2>2. conn' = [conn EXCEPT ![c] = q] /\ conn[c].parsed \in Nat
      BY <2>1, <1>0 DEF Settles, Settle, TypeOK, Record
    <2>3. conn'[c] = q /\ \A d \in Conns \ {c} : conn'[d] = conn[d]
      BY <2>2, <1>0 DEF TypeOK
    <2>4. /\ deferred' \in Seq(Task) /\ jobs \in Seq(Job) /\ working \in [Workers -> Job \cup {None}]
      BY <1>0 DEF TypeOK
    <2>5. CASE q.parsed = conn[c].parsed
      <3>1. held' = None
        BY <2>1, <2>2, <2>5 DEF Settles, Settle
      <3>2. \A d \in Conns : Under(held', jobs', working', deferred', d) = Left(d)
        BY <3>1, <2>1 DEF Left
      <3> QED
        BY <3>2, <2>1, <2>3, <2>5, <1>2, <1>3
    <2>6. CASE q.parsed # conn[c].parsed
      <3>1. q.parsed = conn[c].parsed + 1 /\ q.st = "Processing"
        BY <2>1, <2>6 DEF Settles, Leaves
      <3>2. held' = [conn |-> c, req |-> q.parsed]
        BY <3>1, <2>1, <2>2 DEF Settles, Settle
      <3>3. held' \in Job /\ held'.conn = c
        BY <3>1, <3>2, <2>2 DEF Job
      <3>4. \A d \in Conns : Under(held', jobs', working', deferred', d) = Left(d) + (IF c = d THEN 1 ELSE 0)
        BY <3>3, <2>1, <2>4, UnderHeld DEF Left
      <3>5. Left(c) = 0 /\ \A d \in Conns \ {c} : Left(d) \in {0, 1}
        BY <2>1, <2>6, <1>3
      <3>6. Under(held', jobs', working', deferred', c) = 1
        BY <3>4, <3>5
      <3>7. \A d \in Conns \ {c} : Under(held', jobs', working', deferred', d) = Left(d)
        BY <3>4, <3>5
      <3> QED
        BY <3>1, <3>6, <3>7, <2>1, <2>3, <1>2, <1>3
    <2> QED
      BY <2>5, <2>6
  <1> QED
    BY <1>4, <1>5 DEF Step

\* UnderWayIsLast of these queues.
Latest(h, js, wk, ds) ==
    /\ h # None => h.req = conn[h.conn].parsed
    /\ \A i \in DOMAIN js : js[i].req = conn[js[i].conn].parsed
    /\ \A w \in Workers : wk[w] # None => wk[w].req = conn[wk[w].conn].parsed
    /\ \A i \in DOMAIN ds : ds[i].kind = "send" => ds[i].req = conn[ds[i].conn].parsed

\* Quiet steps pass it on as it is.
LEMMA QuietLatest ==
    ASSUME IInv, Quiet
    PROVE  Latest(held', jobs', working', deferred')
  <1>0. /\ TypeOK /\ held \in Job \cup {None} /\ jobs \in Seq(Job) /\ deferred \in Seq(Task)
        /\ working \in [Workers -> Job \cup {None}] /\ Latest(held, jobs, working, deferred)
    BY DEF IInv, TypeOK, UnderWayIsLast, Latest
  <1>1. ASSUME held' = held, jobs' = jobs, working' = working, deferred' = deferred
        PROVE  Latest(held', jobs', working', deferred')
    BY <1>0, <1>1
  <1>2. ASSUME NEW t \in Seq(Task), \A i \in DOMAIN t : t[i].kind = "close",
               deferred' = deferred \o t, held' = held, jobs' = jobs, working' = working
        PROVE  Latest(held', jobs', working', deferred')
    <2>1. \A i \in DOMAIN deferred' : \/ i \in DOMAIN deferred /\ deferred'[i] = deferred[i]
                                      \/ deferred'[i].kind = "close"
      BY <1>0, <1>2
    <2> QED
      BY <2>1, <1>0, <1>2, SMTT(60) DEF Latest
  <1>3. ASSUME NEW c \in Conns, ClientConnects(c)
        PROVE  Latest(held', jobs', working', deferred')
    BY <1>1, <1>3 DEF ClientConnects, reactor, pool
  <1>4. CASE force_close
    <2>1. held' = held /\ jobs' = jobs /\ working' = working
      BY <1>4 DEF force_close, pool
    <2>2. CASE deferred' = deferred
      BY <2>1, <2>2, <1>1
    <2>3. CASE deferred' = Append(deferred, CloseTask(hup))
      <3>1. CloseTask(hup) \in Task /\ CloseTask(hup).kind = "close"
        BY <1>0, <1>4 DEF force_close, CloseTask, Task, TypeOK
      <3>2. PICK t : t = <<CloseTask(hup)>>
        BY Zenon
      <3>3. t \in Seq(Task) /\ (\A i \in DOMAIN t : t[i].kind = "close") /\ Append(deferred, CloseTask(hup)) = deferred \o t
        BY <3>1, <3>2, <1>0
      <3> QED
        BY <3>3, <2>1, <2>3, <1>2
    <2> QED
      BY <2>2, <2>3, <1>4 DEF force_close
  <1>5. CASE submit
    <2>1. /\ held # None /\ held' = None /\ jobs' = Append(jobs, held)
          /\ working' = working /\ deferred' = deferred
      BY <1>5 DEF submit
    <2>2. \A i \in DOMAIN jobs' : (i \in DOMAIN jobs /\ jobs'[i] = jobs[i]) \/ jobs'[i] = held
      BY <2>1, <1>0
    <2> QED
      BY <2>1, <2>2, <1>0 DEF Latest
  <1>6. CASE dispatch_listen \/ accept_again \/ dispatch_wakeup \/ end_round \/ idle_cb
    <2>1. held' = held /\ jobs' = jobs /\ working' = working /\ deferred' = deferred
      BY <1>6 DEF dispatch_listen, accept_again, dispatch_wakeup, end_round, idle_cb, pool
    <2> QED
      BY <2>1, <1>1
  <1>7. CASE cleanup_idle_connections
    <2>1. PICK t \in Seq(Task) : /\ deferred' = deferred \o t
                                 /\ \A i \in DOMAIN t : \E f \in Old : t[i] = CloseTask(connections[f])
      BY <1>0, <1>7, CleanupCloses, Zenon
    <2>2. \A i \in DOMAIN t : t[i].kind = "close"
      BY <2>1 DEF CloseTask
    <2>3. held' = held /\ jobs' = jobs /\ working' = working
      BY <1>7, SMTT(60) DEF cleanup_idle_connections, pool
    <2> QED
      BY <2>1, <2>2, <2>3, <1>2
  <1>8. ASSUME NEW w \in Workers, take_job(w)
        PROVE  Latest(held', jobs', working', deferred')
    <2>1. /\ jobs # <<>> /\ working' = [working EXCEPT ![w] = Head(jobs)]
          /\ jobs' = Tail(jobs) /\ held' = held /\ deferred' = deferred
      BY <1>8 DEF take_job, reactor
    <2>2. 1 \in DOMAIN jobs /\ Head(jobs) = jobs[1]
      BY <2>1, <1>0
    <2>3. \A i \in DOMAIN jobs' : i + 1 \in DOMAIN jobs /\ jobs'[i] = jobs[i + 1]
      BY <2>1, <1>0
    <2>4. \A v \in Workers : working'[v] = working[v] \/ working'[v] = jobs[1]
      BY <2>1, <2>2, <1>0
    <2> QED
      BY <2>1, <2>2, <2>3, <2>4, <1>0 DEF Latest
  <1>9. ASSUME NEW w \in Workers, NEW ka \in BOOLEAN, process_request(w, ka)
        PROVE  Latest(held', jobs', working', deferred')
    <2>1. PICK x : x = [kind |-> "send", conn |-> working[w].conn, req |-> working[w].req, keep_alive |-> ka]
      BY Zenon
    <2>2. /\ working[w] # None /\ deferred' = Append(deferred, x) /\ working' = [working EXCEPT ![w] = None]
          /\ jobs' = jobs /\ held' = held
      BY <2>1, <1>9 DEF process_request, reactor
    <2>3. x \in Task /\ x.conn = working[w].conn /\ x.req = working[w].req
      BY <2>1, <2>2, <1>0 DEF Job, Task
    <2>4. \A i \in DOMAIN deferred' : (i \in DOMAIN deferred /\ deferred'[i] = deferred[i]) \/ deferred'[i] = x
      BY <2>2, <2>3, <1>0
    <2>5. \A v \in Workers : working'[v] = working[v] \/ working'[v] = None
      BY <2>2, <1>0
    <2> QED
      BY <2>2, <2>3, <2>4, <2>5, <1>0 DEF Latest
  <1> QED
    BY <1>3, <1>4, <1>5, <1>6, <1>7, <1>8, <1>9 DEF Quiet

\* What is under way is for the last request of its connection.
LEMMA StepUnderWayIsLast ==
    ASSUME IInv, Step, TypeOK'
    PROVE  UnderWayIsLast'
  <1>0. /\ TypeOK /\ TypeOK' /\ Latest(held, jobs, working, deferred)
        /\ jobs \in Seq(Job) /\ deferred \in Seq(Task) /\ working \in [Workers -> Job \cup {None}]
        /\ held' \in Job \cup {None} /\ jobs' \in Seq(Job) /\ deferred' \in Seq(Task)
        /\ working' \in [Workers -> Job \cup {None}]
    BY SMTT(60) DEF IInv, TypeOK, UnderWayIsLast, Latest
  <1>1. /\ held' # None => held'.conn \in Conns
        /\ \A i \in DOMAIN jobs' : jobs'[i].conn \in Conns
        /\ \A w \in Workers : working'[w] # None => working'[w].conn \in Conns
        /\ \A i \in DOMAIN deferred' : deferred'[i].conn \in Conns
    <2>1. \A j \in Job : j.conn \in Conns
      BY DEF Job
    <2>2. \A t \in Task : t.conn \in Conns
      BY DEF Task
    <2>3. /\ \A i \in DOMAIN jobs' : jobs'[i] \in Job
          /\ \A i \in DOMAIN deferred' : deferred'[i] \in Task
      BY <1>0
    <2> QED
      BY <2>1, <2>2, <2>3, <1>0, SMTT(60)
  <1>2. ASSUME \A c \in Conns : conn'[c].parsed = conn[c].parsed,
               Latest(held', jobs', working', deferred')
        PROVE  UnderWayIsLast'
    BY <1>1, <1>2 DEF Latest, UnderWayIsLast
  <1>3. CASE \/ Quiet
             \/ \E e \in batch : Ignored(e)
             \/ \E d \in Conns : Touched(d)
             \/ epoll_wait
             \/ \E d \in backlog, f \in Fds : accept(d, f)
    <2>1. \A c \in Conns : conn'[c].parsed = conn[c].parsed
      BY <1>3, SameParsed
    <2>2. ASSUME held' = held, jobs' = jobs, working' = working, deferred' = deferred
          PROVE  Latest(held', jobs', working', deferred')
      BY <2>2, <1>0
    <2>3. ASSUME Quiet
          PROVE  Latest(held', jobs', working', deferred')
      BY <2>3, QuietLatest
    <2>4. ASSUME NEW e \in batch, Ignored(e)
          PROVE  Latest(held', jobs', working', deferred')
      BY <2>2, <2>4 DEF Ignored, dispatch_client, pool
    <2>5. ASSUME NEW d \in Conns, Touched(d)
          PROVE  Latest(held', jobs', working', deferred')
      BY <2>2, <2>5 DEF Touched, Touch, reactor, pool
    <2>6. ASSUME epoll_wait
          PROVE  Latest(held', jobs', working', deferred')
      BY <2>2, <2>6 DEF epoll_wait, pool
    <2>7. ASSUME NEW d \in backlog, NEW f \in Fds, accept(d, f)
          PROVE  Latest(held', jobs', working', deferred')
      BY <2>2, <2>7 DEF accept, reactor, pool
    <2>8. Latest(held', jobs', working', deferred')
      BY <1>3, <2>3, <2>4, <2>5, <2>6, <2>7
    <2> QED
      BY <2>1, <2>8, <1>2
  <1>4. CASE (\E e \in batch : Dispatched(e)) \/ run_task
    <2>1. PICK c \in Conns, q \in Record :
             /\ Settles(c, q) /\ jobs' = jobs /\ working' = working
             /\ \A i \in DOMAIN deferred' : \E j \in DOMAIN deferred : deferred'[i] = deferred[j]
             /\ q.parsed # conn[c].parsed => Left(c) = 0
      BY <1>4, SettledUnder
    <2>2. conn' = [conn EXCEPT ![c] = q] /\ conn[c].parsed \in Nat
      BY <2>1, <1>0, SMTT(60) DEF Settles, Settle, TypeOK, Record
    <2>3. conn'[c] = q /\ \A d \in Conns \ {c} : conn'[d] = conn[d]
      BY <2>2, <1>0 DEF TypeOK
    <2>4. Latest(None, jobs', working', deferred')
      BY <2>1, <1>0 DEF Latest
    <2>5. CASE q.parsed = conn[c].parsed
      <3>1. held' = None
        BY <2>1, <2>2, <2>5 DEF Settles, Settle
      <3>2. \A d \in Conns : conn'[d].parsed = conn[d].parsed
        BY <2>3, <2>5
      <3> QED
        BY <3>1, <3>2, <2>4, <1>2
    <2>6. CASE q.parsed # conn[c].parsed
      <3>1. q.parsed = conn[c].parsed + 1
        BY <2>1, <2>6 DEF Settles, Leaves
      <3>2. held' = [conn |-> c, req |-> q.parsed]
        BY <3>1, <2>1, <2>2, SMTT(60) DEF Settles, Settle
      <3>3. /\ \A i \in DOMAIN jobs' : jobs'[i].conn # c
            /\ \A w \in Workers : working'[w] # None => working'[w].conn # c
            /\ \A i \in DOMAIN deferred' : deferred'[i].kind = "send" => deferred'[i].conn # c
        <4>1. Under(None, jobs', working', deferred', c) = 0
          BY <2>1, <2>6 DEF Left
        <4> QED
          BY <4>1, <1>0, NothingUnder, SMTT(60)
      <3>4. held'.req = conn'[held'.conn].parsed
        BY <3>2, <2>3
      <3>5. /\ \A i \in DOMAIN jobs' : conn'[jobs'[i].conn] = conn[jobs'[i].conn]
            /\ \A w \in Workers : working'[w] # None => conn'[working'[w].conn] = conn[working'[w].conn]
            /\ \A i \in DOMAIN deferred' :
                  deferred'[i].kind = "send" => conn'[deferred'[i].conn] = conn[deferred'[i].conn]
        BY <3>3, <2>3, <1>1
      <3> QED
        BY <3>4, <3>5, <2>4, SMTT(60) DEF Latest, UnderWayIsLast
    <2> QED
      BY <2>5, <2>6
  <1> QED
    BY <1>3, <1>4 DEF Step

-----------------------------------------------------------------------------
(* Input. *)

\* NoInputForgotten of one connection: what it waits for is announced.
Announced(c) ==
    Waits(conn[c]) =>
        \/ conn[c].armed
        \/ \E e \in batch : e.kind = "client" /\ e.owner = c /\ "IN" \in e.events

\* Input that a connection waits for stays announced.
LEMMA StepNoInputForgotten ==
    ASSUME IInv, Step
    PROVE  NoInputForgotten'
  <1>0. /\ TypeOK /\ AllSound /\ TablesAgree /\ BatchOK /\ ReactorOK
        /\ conn \in [Conns -> Record] /\ None \notin Conns
    BY ReactorAssumption DEF IInv, TypeOK
  <1>1. \A c \in Conns : Announced(c)
    BY DEF IInv, NoInputForgotten, Announced, Waits
  <1>2. SUFFICES \A c \in Conns : Announced(c)'
    BY DEF NoInputForgotten, Announced, Waits
  <1>3. ASSUME NEW c \in Conns, conn'[c] = conn[c],
               \A e \in batch : e.kind = "client" /\ e.owner = c => e \in batch'
        PROVE  Announced(c)'
    BY <1>1, <1>3 DEF Announced
  <1>4. CASE Quiet
    BY <1>0, <1>3, <1>4, QuietFrame
  <1>5. \A c \in Conns : Waits(conn[c]) => c \in Open
    BY <1>0 DEF Waits, Open, IsOpen
  <1>6. ASSUME NEW e \in batch, dispatch_client(e), NEW c \in Open, e.owner = c
        PROVE  callbacks[e.fd] = c
    <2>1. conn[c].fd = e.fd
      BY <1>0, <1>6, SMTT(60) DEF BatchOK, dispatch_client
    <2> QED
      BY <2>1, <1>0, <1>6 DEF TablesAgree
  <1>7. ASSUME NEW e \in batch, Ignored(e), NEW c \in Conns
        PROVE  Announced(c)'
    <2>1. conn' = conn /\ batch' = batch \ {e}
      BY <1>7 DEF Ignored, dispatch_client
    <2>2. CASE ~Waits(conn[c])
      BY <2>1, <2>2 DEF Announced
    <2>3. CASE Waits(conn[c])
      <3>1. e.owner # c
        BY <2>3, <1>0, <1>5, <1>6, <1>7 DEF Ignored
      <3> QED
        BY <3>1, <2>1, <1>3
    <2> QED
      BY <2>2, <2>3
  <1>8. ASSUME NEW d \in Conns, Touched(d), NEW c \in Conns
        PROVE  Announced(c)'
    <2>1. PICK q : Touch(d, q) /\ Same(conn[d], q)
      BY <1>8 DEF Touched
    <2>2. conn' = [conn EXCEPT ![d] = q] /\ batch' = batch
      BY <2>1 DEF Touch, reactor
    <2>3. CASE c # d
      BY <2>2, <2>3, <1>0, <1>3
    <2>4. CASE c = d
      BY <2>1, <2>2, <2>4, <1>0, <1>1 DEF Announced, Same
    <2> QED
      BY <2>3, <2>4
  <1>9. ASSUME epoll_wait, NEW c \in Conns
        PROVE  Announced(c)'
    <2>1. conn'[c] = [conn[c] EXCEPT !.armed = FALSE] /\ batch = {}
      BY <1>0, <1>9 DEF epoll_wait, ReactorOK
    <2>2. Events(conn'[c]) = Events(conn[c]) /\ (Waits(conn'[c]) => Waits(conn[c]))
      BY <2>1, <1>0, Zenon DEF Events, Waits, Record, IsOpen
    <2>3. ASSUME Waits(conn'[c])
          PROVE  \E e \in batch' : e.kind = "client" /\ e.owner = c /\ "IN" \in e.events
      <3>1. conn[c].armed /\ c \in Open /\ "IN" \in Events(conn[c])
        BY <2>1, <2>2, <2>3, <1>1, <1>5 DEF Announced, Waits
      <3>2. PICK e : e = [kind |-> "client", fd |-> conn[c].fd, events |-> Events(conn[c]), owner |-> c]
        BY Zenon
      <3>3. e \in batch'
        BY <3>1, <3>2, <1>9, Zenon DEF epoll_wait
      <3>4. e.kind = "client" /\ e.owner = c /\ "IN" \in e.events
        BY <3>1, <3>2
      <3> QED
        BY <3>3, <3>4
    <2> QED
      BY <2>3 DEF Announced
  <1>10. ASSUME NEW d \in backlog, NEW f \in Fds, accept(d, f), NEW c \in Conns
         PROVE  Announced(c)'
    <2>1. batch' = batch
      BY <1>10 DEF accept, reactor
    <2>2. CASE c # d
      BY <2>1, <2>2, <1>3, <1>10, Accepts
    <2>3. CASE c = d
      <3>1. conn'[c].st = "Closed" \/ conn'[c].armed
        BY <2>3, <1>10, Accepts
      <3> QED
        BY <3>1 DEF Announced, Waits
    <2> QED
      BY <2>2, <2>3
  <1>11. ASSUME NEW e \in batch, Dispatched(e), NEW c \in Conns
         PROVE  Announced(c)'
    <2>1. PICK d : d = callbacks[e.fd]
      OBVIOUS
    <2>2. PICK q : Settles(d, q) /\ (q.armed \/ ~Waits(q) \/ (q = conn[d] /\ "IN" \notin e.events))
      BY <2>1, <1>0, <1>11, Dispatches, SMTT(60) DEF Dispatched
    <2>3. conn' = [conn EXCEPT ![d] = q] /\ batch' = batch \ {e} /\ d \in Conns /\ d \in Open
      BY <2>1, <2>2, <1>0, <1>11, Dispatches, Zenon DEF Dispatched, dispatch_client, Settles, Settle, Open
    <2>4. CASE c # d
      <3>1. conn'[c] = conn[c]
        BY <2>3, <2>4, <1>0
      <3>2. CASE ~Waits(conn[c])
        BY <3>1, <3>2 DEF Announced
      <3>3. CASE Waits(conn[c])
        <4>1. e.owner # c
          BY <3>3, <2>1, <2>4, <1>5, <1>6, <1>11 DEF Dispatched
        <4> QED
          BY <4>1, <3>1, <2>3, <1>3
      <3> QED
        BY <3>2, <3>3
    <2>5. CASE c = d
      <3>1. conn'[c] = q
        BY <2>3, <2>5, <1>0
      <3>2. CASE q.armed \/ ~Waits(q)
        BY <3>1, <3>2 DEF Announced
      <3>3. CASE q = conn[d] /\ "IN" \notin e.events
        BY <3>1, <3>3, <2>3, <2>5, <1>1 DEF Announced
      <3> QED
        BY <3>2, <3>3, <2>2
    <2> QED
      BY <2>4, <2>5
  <1>12. ASSUME run_task, NEW c \in Conns
         PROVE  Announced(c)'
    <2>1. PICK d : d = Head(deferred).conn
      OBVIOUS
    <2>2. PICK q : Settles(d, q) /\ (q.armed \/ ~Waits(q))
      BY <2>1, <1>12, Runs, SMTT(60) DEF IInv
    <2>3. conn' = [conn EXCEPT ![d] = q] /\ batch' = batch
      BY <2>2, <1>12, SMTT(60) DEF Settles, Settle, run_task
    <2>4. CASE c # d
      BY <2>3, <2>4, <1>0, <1>3
    <2>5. CASE c = d
      BY <2>2, <2>3, <2>5, <1>0 DEF Announced
    <2> QED
      BY <2>4, <2>5
  <1> QED
    BY <1>4, <1>7, <1>8, <1>9, <1>10, <1>11, <1>12 DEF Step

-----------------------------------------------------------------------------
(* The theorems. *)

\* No connection has been made.
LEMMA InitIInv ==
    ASSUME Init
    PROVE  IInv
  <1>0. <<>> \in Seq(Task) /\ <<>> \in Seq(Job) /\ <<>> \in Seq(Unit) /\ <<>> \in Seq(Nat)
        /\ <<>> \in Seq(Unit \ {"big"}) /\ DOMAIN <<>> = {} /\ Len(<<>>) = 0
    BY NoneOf
  <1>1. Unused \in Record /\ Sound(Unused) /\ Unused.st = "none"
    BY <1>0, SMTT(60) DEF Unused, Record, Sound, State
  <1>2. \A c \in Conns : conn[c] = Unused
    BY DEF Init
  <1>3. Open = {}
    BY <1>1, <1>2 DEF Open, IsOpen
  <1>4. /\ TypeOK /\ AllSound
    BY <1>0, <1>1, ReactorAssumption, Zenon DEF Init, TypeOK, AllSound
  <1>5. UnderWayIsLast /\ BatchOK
    BY <1>0 DEF Init, UnderWayIsLast, BatchOK
  <1>6. ReactorOK
    BY <1>0, <1>3, FS_EmptySet DEF Init, ReactorOK
  <1>7. TablesAgree
    <2>1. Cardinality({}) = 0
      BY FS_EmptySet
    <2>2. connection_count = 0 /\ (max_connections > 0 => 0 <= max_connections)
      BY ReactorAssumption DEF Init
    <2>3. \A f \in Fds : callbacks[f] = None /\ connections[f] = None
      BY DEF Init
    <2> QED
      BY <2>1, <2>2, <2>3, <1>3 DEF TablesAgree
  <1>8. NoInputForgotten
    BY <1>1, <1>2 DEF NoInputForgotten
  <1>9. OneAnswerUnderWay
    <2>1. ASSUME NEW c \in Conns
          PROVE  Outstanding(c) = 0
      <3>1. /\ {i \in DOMAIN jobs : jobs[i].conn = c} = {}
            /\ {w \in Workers : working[w] # None /\ working[w].conn = c} = {}
            /\ {i \in DOMAIN deferred : deferred[i].kind = "send" /\ deferred[i].conn = c} = {}
            /\ held = None
        BY <1>0 DEF Init
      <3>2. Cardinality({}) = 0
        BY FS_EmptySet
      <3>3. Outstanding(c) = 0 + 0 + 0 + 0
        BY <3>1, <3>2, Zenon DEF Outstanding
      <3> QED
        BY <3>3
    <2> QED
      BY <2>1, <1>1, <1>2 DEF OneAnswerUnderWay
  <1> QED
    BY <1>4, <1>5, <1>6, <1>7, <1>8, <1>9 DEF IInv

\* Every step keeps the inductive invariant.
LEMMA NextIInv ==
    ASSUME IInv, [Next]_vars
    PROVE  IInv'
  <1>1. CASE Next
    <2>1. TypeOK
      BY DEF IInv
    <2>2. Step /\ max_connections' = max_connections
      BY <2>1, <1>1, Steps
    <2>3. TypeOK'
      BY <2>2, StepTypeOK
    <2>4. AllSound'
      BY <2>2, StepEvolves DEF Evolves, AllSound
    <2>5. UnderWayIsLast' /\ OneAnswerUnderWay'
      BY <2>2, <2>3, StepUnderWayIsLast, StepOneAnswerUnderWay
    <2>6. ReactorOK' /\ BatchOK' /\ TablesAgree' /\ NoInputForgotten'
      BY <2>2, StepReactorOK, StepBatchOK, StepTablesAgree, StepNoInputForgotten
    <2> QED
      BY <2>3, <2>4, <2>5, <2>6 DEF IInv
  <1>2. CASE UNCHANGED vars
    <2>1. /\ conn' = conn /\ backlog' = backlog /\ listen_edge' = listen_edge
          /\ pc' = pc /\ batch' = batch /\ todo' = todo /\ held' = held /\ hup' = hup
          /\ callbacks' = callbacks /\ connections' = connections
          /\ connection_count' = connection_count /\ max_connections' = max_connections
          /\ deferred' = deferred /\ jobs' = jobs /\ working' = working
      BY <1>2 DEF vars, kernel, reactor, tables, pool
    <2>2. Open' = Open
      BY <2>1, Zenon DEF Open
    <2>3. \A c \in Conns : Outstanding(c)' = Outstanding(c)
      BY <2>1, Zenon DEF Outstanding
    <2>4. TypeOK'
      BY <2>1, Zenon DEF IInv, TypeOK
    <2>5. AllSound' /\ UnderWayIsLast' /\ BatchOK'
      BY <2>1, <2>2, Zenon DEF IInv, AllSound, UnderWayIsLast, BatchOK
    <2>6. ReactorOK' /\ NoInputForgotten'
      BY <2>1, <2>2, Zenon DEF IInv, ReactorOK, NoInputForgotten
    <2>7. TablesAgree'
      BY <2>1, <2>2, Zenon DEF IInv, TablesAgree
    <2>8. OneAnswerUnderWay'
      BY <2>1, <2>3, Zenon DEF IInv, OneAnswerUnderWay
    <2> QED
      BY <2>4, <2>5, <2>6, <2>7, <2>8 DEF IInv
  <1> QED
    BY <1>1, <1>2

\* The inductive invariant holds throughout.
LEMMA Invariance == Spec => []IInv
  BY InitIInv, NextIInv, PTL DEF Spec

\* The event loop, the pool's queue and its workers never hold two answers for
\* a connection, and hold one whenever it is processing: send_internal() finds
\* its connection processing, or closed, whatever is pipelined or torn down.
THEOREM OneAnswer == Spec => []OneAnswerUnderWay
  <1>1. IInv => OneAnswerUnderWay
    BY DEF IInv
  <1> QED
    BY <1>1, Invariance, PTL

\* Pipelined requests are answered in the order of their arrival, each once,
\* and the next is parsed after the answer to the last, with any number of
\* workers.
THEOREM InOrder == Spec => []AnswersInOrder
  <1>1. IInv => AnswersInOrder
    <2> SUFFICES ASSUME IInv, NEW c \in Conns
                 PROVE  /\ \A i \in DOMAIN conn[c].sent : conn[c].sent[i] = i
                        /\ conn[c].parsed <= Len(conn[c].sent) + 1
      BY DEF AnswersInOrder
    <2>1. conn[c] \in Record /\ Sound(conn[c])
      BY DEF IInv, TypeOK, AllSound
    <2>2. conn[c].parsed \in Nat /\ Len(conn[c].sent) \in Nat /\ conn[c].st \in State
      BY <2>1, SMTT(60) DEF Record
    <2> QED
      BY <2>1, <2>2 DEF Sound, State
  <1> QED
    BY <1>1, Invariance, PTL

\* callbacks_, connections_ and connection_count_ agree with the connections
\* that are open, however closes, accepts of a reused descriptor and the idle
\* cleanup interleave, and max_connections_ is kept.
THEOREM TablesStayConsistent == Spec => []TablesAgree
  <1>1. IInv => TablesAgree
    BY DEF IInv
  <1> QED
    BY <1>1, Invariance, PTL

\* Edge-triggered epoll loses no input: a connection that waits for what has
\* arrived will be reported, or its event is in the batch being dispatched.
THEOREM InputIsAnnounced == Spec => []NoInputForgotten
  <1>1. IInv => NoInputForgotten
    BY DEF IInv
  <1> QED
    BY <1>1, Invariance, PTL
=============================================================================
