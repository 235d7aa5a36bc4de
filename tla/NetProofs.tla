----------------------------- MODULE NetProofs ------------------------------
(***************************************************************************)
(* The event loop that runs the gateway's callbacks, and the pooled        *)
(* connections to a backend, each by itself.                               *)
(*                                                                         *)
(* The eventfd protocol of EventLoop loses no wakeup, for any number of    *)
(* threads, tasks and any batch size.  NoLostWakeup is not inductive: it   *)
(* says nothing of the time the reactor spends inside the wakeup callback, *)
(* and needs that a readable eventfd is still on epoll's ready list.  The  *)
(* three queues of the loop are one for its callers: a batch is only taken *)
(* when the last one is done, and kept back when nothing else is.          *)
(*                                                                         *)
(* The pool counts its leases exactly, for any number of workers,          *)
(* connections and idle entries.  When responses carry a Content-Length    *)
(* and the backend does not pause for longer than the short timeout, every *)
(* response handed to a request is the whole of its own and no idle        *)
(* connection has anything to read.  Neither of the two is inductive: the  *)
(* invariant says of every worker that reads what it has read, what waits  *)
(* in its socket and what the backend has yet to send, one after the       *)
(* other, is the response to its request, and that its connection is       *)
(* quiet before it sends and when it gives the connection back.            *)
(***************************************************************************)
EXTENDS EventLoop, BackendPool, FiniteSetTheorems, SequenceTheorems,
        WellFoundedInduction, TLAPS

-----------------------------------------------------------------------------
(* The event loop. *)

\* Only epoll_wait takes the eventfd off the ready list, and then the counter
\* is either zero or about to be drained.
ReadableIsListed == eventfd /\ pc # "drain" => edge

\* A task pushed after the batch was taken still has its wakeup.
DeferredIsSignalled ==
    pc \notin {"drain", "swap"} /\ deferred_tasks # <<>>
        => eventfd \/ writers # {}

\* Tasks held over from a round have the wakeup written at its end.
PendingIsSignalled ==
    pc \in {"enter", "check", "wait", "idle"} /\ pending_tasks # <<>>
        => eventfd \/ writers # {}

IInv ==
    /\ TypeOK
    /\ ReadableIsListed
    /\ DeferredIsSignalled
    /\ PendingIsSignalled

-----------------------------------------------------------------------------
(* A queue kept in two sequences, one after the other: putting to the      *)
(* second and taking from the first are puts to and takes from the whole.  *)

\* Appending to the second of two sequences appends to both together.
LEMMA AppendBehind ==
    ASSUME NEW S, NEW s \in Seq(S), NEW t \in Seq(S), NEW x \in S
    PROVE  s \o Append(t, x) = Append(s \o t, x)
  <1>1. <<x>> \in Seq(S) /\ s \o t \in Seq(S)
    BY ConcatProperties
  <1>2. Append(t, x) = t \o <<x>> /\ Append(s \o t, x) = (s \o t) \o <<x>>
    BY <1>1, AppendIsConcat
  <1> QED
    BY <1>1, <1>2, ConcatAssociative

\* Taking from the first of two sequences takes from both together.
LEMMA TakeFromFront ==
    ASSUME NEW S, NEW s \in Seq(S), NEW t \in Seq(S), s # <<>>
    PROVE  /\ s \o t # <<>> /\ Head(s \o t) = Head(s)
           /\ Tail(s \o t) = Tail(s) \o t
  <1> DEFINE x == Head(s)
             r == Tail(s)
  <1>1. x \in S /\ r \in Seq(S) /\ <<x>> \in Seq(S)
    OBVIOUS
  <1>2. s = <<x>> \o r
    OBVIOUS
  <1> HIDE DEF x, r
  <1>3. r \o t \in Seq(S) /\ s \o t = <<x>> \o (r \o t)
    BY <1>1, <1>2, ConcatAssociative, ConcatProperties
  <1> DEFINE u == r \o t
  <1> HIDE DEF u
  <1>4. u \in Seq(S) => <<x>> \o u # <<>> /\ Head(<<x>> \o u) = x /\ Tail(<<x>> \o u) = u
    BY <1>1
  <1> QED
    BY <1>3, <1>4 DEF x, r, u

-----------------------------------------------------------------------------
\* At the start nothing is queued and nobody has signalled.
LEMMA InitIInv == Init => IInv
  <1> SUFFICES ASSUME Init
               PROVE  IInv
    OBVIOUS
  <1>1. <<>> \in Seq(Nat)
    OBVIOUS
  <1>2. 0 \in Nat
    OBVIOUS
  <1>3. TypeOK
    BY <1>1, <1>2, Zenon DEF Init, TypeOK, Control
  <1>4. ReadableIsListed
    BY DEF Init, ReadableIsListed
  <1> QED
    BY <1>3, <1>4 DEF Init, IInv, DeferredIsSignalled, PendingIsSignalled

\* defer(), stop() and their eventfd write, from any thread at any time.
LEMMA CallersIInv ==
    ASSUME IInv, NEW t \in Callers, defer(t) \/ stop(t) \/ write_wakeup(t)
    PROVE  IInv'
  <1>1. CASE defer(t)
    <2>1. TypeOK'
      BY <1>1 DEF IInv, TypeOK, defer
    <2>2. writers' # {}
      BY <1>1 DEF defer
    <2> QED
      BY <1>1, <2>1, <2>2 DEF IInv, ReadableIsListed, DeferredIsSignalled,
         PendingIsSignalled, defer
  <1>2. CASE stop(t)
    <2>1. TypeOK'
      BY <1>2, Zenon DEF IInv, TypeOK, stop, queues
    <2>2. writers' # {}
      BY <1>2 DEF stop
    <2> QED
      BY <1>2, <2>1, <2>2 DEF IInv, ReadableIsListed, DeferredIsSignalled,
         PendingIsSignalled, stop, queues
  <1>3. CASE write_wakeup(t)
    <2>1. TypeOK'
      BY <1>3 DEF IInv, TypeOK, write_wakeup, signal, queues
    <2> QED
      BY <1>3, <2>1 DEF IInv, ReadableIsListed, DeferredIsSignalled,
         PendingIsSignalled, write_wakeup, signal, queues
  <1> QED
    BY <1>1, <1>2, <1>3

\* The reactor outside the wakeup callback: the queues are not touched.
LEMMA WaitingIInv ==
    ASSUME IInv,
           \/ run_enter \/ run_check \/ epoll_wait \/ idle_cb
           \/ epoll_interrupted \/ epoll_failed
    PROVE  IInv'
  <1>1. TypeOK'
    BY Zenon DEF IInv, TypeOK, Control, Goto, queues, run_enter, run_check,
       epoll_wait, idle_cb, epoll_interrupted, epoll_failed
  <1>2. CASE run_enter \/ run_check \/ idle_cb \/ epoll_interrupted \/ epoll_failed
    BY <1>1, <1>2, SMTT(60) DEF IInv, TypeOK, ReadableIsListed, DeferredIsSignalled,
       PendingIsSignalled, Goto, queues, run_enter, run_check, idle_cb,
       epoll_interrupted, epoll_failed
  <1>3. CASE epoll_wait
    BY <1>1, <1>3 DEF IInv, TypeOK, ReadableIsListed, DeferredIsSignalled,
       PendingIsSignalled, Goto, queues, epoll_wait
  <1> QED
    BY <1>2, <1>3

\* The wakeup callback: the counter is drained before the tasks are taken, so
\* whoever pushes after the swap signals after the drain.
LEMMA CallbackIInv ==
    ASSUME IInv,
           \/ drain_wakeup \/ swap_tasks \/ run_task \/ end_round
           \/ rewrite_wakeup
    PROVE  IInv'
  <1>1. CASE drain_wakeup
    BY <1>1, Zenon DEF IInv, TypeOK, Control, ReadableIsListed, DeferredIsSignalled,
       PendingIsSignalled, Goto, queues, drain_wakeup
  <1>2. CASE swap_tasks
    <2> DEFINE batch == pending_tasks \o deferred_tasks
    <2>1. batch \in Seq(Nat) /\ Len(batch) \in Nat
      BY DEF IInv, TypeOK
    <2>2. TypeOK'
      BY <1>2, <2>1, LoopAssumption DEF IInv, TypeOK, Control, Goto, swap_tasks
    <2> QED
      BY <1>2, <2>2 DEF IInv, ReadableIsListed, DeferredIsSignalled,
         PendingIsSignalled, Goto, swap_tasks
  <1>3. CASE run_task
    <2>1. TypeOK'
      BY <1>3 DEF IInv, TypeOK, Control, Goto, run_task
    <2> QED
      BY <1>3, <2>1 DEF IInv, ReadableIsListed, DeferredIsSignalled,
         PendingIsSignalled, Goto, run_task
  <1>4. CASE end_round
    <2>1. TypeOK'
      BY <1>4 DEF IInv, TypeOK, Control, Goto, end_round
    <2> QED
      BY <1>4, <2>1 DEF IInv, ReadableIsListed, DeferredIsSignalled,
         PendingIsSignalled, Goto, end_round
  <1>5. CASE rewrite_wakeup
    BY <1>5 DEF IInv, TypeOK, Control, ReadableIsListed, DeferredIsSignalled,
       PendingIsSignalled, Goto, signal, queues, rewrite_wakeup
  <1> QED
    BY <1>1, <1>2, <1>3, <1>4, <1>5

\* Every step preserves the invariant.
LEMMA NextIInv == IInv /\ [Next]_vars => IInv'
  <1> SUFFICES ASSUME IInv, [Next]_vars
               PROVE  IInv'
    OBVIOUS
  <1>1. CASE UNCHANGED vars
    BY <1>1 DEF IInv, TypeOK, ReadableIsListed, DeferredIsSignalled,
       PendingIsSignalled, vars, queues
  <1>2. CASE Next
    BY <1>2, CallersIInv, WaitingIInv, CallbackIInv DEF Next, Loop
  <1> QED
    BY <1>1, <1>2

\* No wakeup is lost between defer() and the wakeup callback: a reactor about
\* to sleep in epoll_wait with tasks queued is going to be woken.
THEOREM WakeupSafe == Spec => []NoLostWakeup
  <1>1. IInv => NoLostWakeup
    BY DEF IInv, ReadableIsListed, DeferredIsSignalled, PendingIsSignalled,
       NoLostWakeup, Backlog
  <1> QED
    BY <1>1, InitIInv, NextIInv, PTL DEF Spec

\* The fields of the loop keep their types.
THEOREM TypeCorrect == Spec => []TypeOK
  <1>1. IInv => TypeOK
    BY DEF IInv
  <1> QED
    BY <1>1, InitIInv, NextIInv, PTL DEF Spec

-----------------------------------------------------------------------------
\* There is a batch only during a round, and then nothing is held over.
OneBatch ==
    /\ pc # "run" => tasks = <<>>
    /\ pc = "run" => pending_tasks = <<>>

Queued == tasks \o pending_tasks \o deferred_tasks

\* A step that leaves the tasks alone.
LEMMA Elsewhere ==
    ASSUME OneBatch, UNCHANGED <<tasks, pending_tasks, deferred_tasks, done>>,
           pc' = pc \/ (pc # "run" /\ pc' # "run")
    PROVE  OneBatch' /\ UNCHANGED <<Queued, done>>
  BY DEF OneBatch, Queued

\* defer() puts a task at the end of the queue.
LEMMA DeferPuts ==
    ASSUME TypeOK, OneBatch, NEW t \in Callers, defer(t)
    PROVE  OneBatch' /\ FIFO!Put
  <1>1. /\ deferred_tasks' = Append(deferred_tasks, pushed + 1)
        /\ UNCHANGED <<pc, tasks, pending_tasks, done>>
        /\ pushed + 1 \in 1..MaxTasks /\ pushed + 1 \in Nat
    BY LoopAssumption DEF TypeOK, defer
  <1>2. /\ tasks \o pending_tasks \in Seq(Nat)
        /\ deferred_tasks \in Seq(Nat)
    BY DEF TypeOK
  <1>3. (tasks \o pending_tasks) \o Append(deferred_tasks, pushed + 1)
            = Append((tasks \o pending_tasks) \o deferred_tasks, pushed + 1)
    <2> DEFINE s == tasks \o pending_tasks
               x == pushed + 1
    <2>1. s \in Seq(Nat) /\ x \in Nat
      BY <1>1, <1>2
    <2> HIDE DEF s, x
    <2>2. s \o Append(deferred_tasks, x) = Append(s \o deferred_tasks, x)
      BY <2>1, <1>2, AppendBehind, SMTT(60)
    <2> QED
      BY <2>2 DEF s, x
  <1>4. FIFO!Put
    BY <1>1, <1>3 DEF FIFO!Put
  <1> QED
    BY <1>1, <1>4 DEF OneBatch

\* A task that is run is taken from the front.
LEMMA RunTakes ==
    ASSUME TypeOK, OneBatch, run_task
    PROVE  OneBatch' /\ FIFO!Take
  <1>1. /\ tasks # <<>> /\ tasks' = Tail(tasks) /\ done' = Head(tasks)
        /\ UNCHANGED <<pending_tasks, deferred_tasks>>
        /\ pc = "run" /\ pc' = "run"
    BY DEF run_task, Goto
  <1>2. /\ tasks \in Seq(Nat) /\ pending_tasks \in Seq(Nat) /\ deferred_tasks \in Seq(Nat)
        /\ tasks \o pending_tasks \in Seq(Nat)
    BY DEF TypeOK
  <1> DEFINE s == tasks \o pending_tasks
  <1>3. s # <<>> /\ Head(s) = Head(tasks) /\ Tail(s) = Tail(tasks) \o pending_tasks
    BY <1>1, <1>2, TakeFromFront, Zenon
  <1>4. /\ s \o deferred_tasks # <<>> /\ Head(s \o deferred_tasks) = Head(s)
        /\ Tail(s \o deferred_tasks) = Tail(s) \o deferred_tasks
    <2> HIDE DEF s
    <2>1. s \in Seq(Nat)
      BY <1>2 DEF s
    <2> QED
      BY <2>1, <1>2, <1>3, TakeFromFront, Zenon
  <1>5. FIFO!Take
    BY <1>1, <1>3, <1>4, Zenon DEF FIFO!Take
  <1> QED
    BY <1>1, <1>5 DEF OneBatch

\* Taking a batch and keeping back the rest of it move tasks within the queue.
LEMMA BatchesKeep ==
    ASSUME TypeOK, OneBatch, swap_tasks \/ end_round
    PROVE  OneBatch' /\ UNCHANGED <<Queued, done>>
  <1> DEFINE p == pending_tasks \o deferred_tasks
  <1>0. /\ tasks \in Seq(Nat) /\ pending_tasks \in Seq(Nat) /\ deferred_tasks \in Seq(Nat)
        /\ p \in Seq(Nat)
    BY DEF TypeOK
  <1>1. CASE swap_tasks
    <2>1. /\ tasks = <<>> /\ tasks' = p /\ pending_tasks' = <<>> /\ deferred_tasks' = <<>>
          /\ done' = done /\ pc' = "run"
      BY <1>1 DEF swap_tasks, Goto, OneBatch
    <2>2. <<>> \o pending_tasks = pending_tasks
      BY <1>0, ConcatEmptySeq
    <2>3. p \o <<>> = p
      <3> HIDE DEF p
      <3> QED
        BY <1>0, ConcatEmptySeq
    <2> QED
      BY <2>1, <2>2, <2>3 DEF Queued, OneBatch
  <1>2. CASE end_round
    <2>1. /\ pending_tasks = <<>> /\ pending_tasks' = tasks /\ tasks' = <<>>
          /\ UNCHANGED <<deferred_tasks, done>> /\ pc' # "run"
      BY <1>2 DEF end_round, Goto, OneBatch
    <2>2. <<>> \o tasks = tasks /\ tasks \o <<>> = tasks
      BY <1>0, ConcatEmptySeq
    <2> QED
      BY <2>1, <2>2 DEF Queued, OneBatch
  <1> QED
    BY <1>1, <1>2

\* Every step of the loop is a step of the queue, or none.
LEMMA NextQueue ==
    TypeOK /\ OneBatch /\ [Next]_vars
        => OneBatch' /\ [FIFO!Put \/ FIFO!Take]_<<Queued, done>>
  <1> SUFFICES ASSUME TypeOK, OneBatch, [Next]_vars
               PROVE  OneBatch' /\ [FIFO!Put \/ FIFO!Take]_<<Queued, done>>
    OBVIOUS
  <1>1. CASE \E t \in Callers : defer(t)
    BY <1>1, DeferPuts
  <1>2. CASE run_task
    BY <1>2, RunTakes
  <1>3. CASE swap_tasks \/ end_round
    BY <1>3, BatchesKeep
  <1>4. CASE \E t \in Callers : stop(t) \/ write_wakeup(t)
    BY <1>4, Elsewhere DEF stop, write_wakeup, queues
  <1>5. CASE \/ run_enter \/ run_check \/ epoll_wait \/ drain_wakeup \/ rewrite_wakeup
             \/ idle_cb \/ epoll_interrupted \/ epoll_failed
    BY <1>5, Elsewhere DEF run_enter, run_check, epoll_wait, drain_wakeup, rewrite_wakeup,
       idle_cb, epoll_interrupted, epoll_failed, Goto, queues
  <1>6. CASE UNCHANGED vars
    BY <1>6, Elsewhere DEF vars, queues
  <1> QED
    BY <1>1, <1>2, <1>3, <1>4, <1>5, <1>6 DEF Next, Loop

\* Tasks run one at a time in the order in which they were deferred, whatever
\* the number of threads and the limit of a round: deferred_tasks_, the batch
\* and pending_tasks_ implement a queue.
THEOREM LoopIsQueue == Spec => RunsInOrder
  <1>1. Init => OneBatch /\ FIFO!Init
    <2>1. ASSUME Init
          PROVE  OneBatch /\ FIFO!Init
      <3>1. tasks = <<>> /\ pending_tasks = <<>> /\ deferred_tasks = <<>> /\ done = 0 /\ pc = "enter"
        BY <2>1 DEF Init
      <3> QED
        BY <3>1 DEF OneBatch, FIFO!Init
    <2> QED
      BY <2>1
  <1>2. IInv => TypeOK
    BY DEF IInv
  <1>3. TypeOK /\ OneBatch /\ [Next]_vars
            => OneBatch' /\ [FIFO!Put \/ FIFO!Take]_<<tasks \o pending_tasks \o deferred_tasks, done>>
    BY NextQueue DEF Queued
  <1> QED
    BY <1>1, <1>2, <1>3, InitIInv, NextIInv, PTL DEF Spec, RunsInOrder, FIFO!Spec

-----------------------------------------------------------------------------
(* The pooled connections. *)

\* Where a worker holds a connection.
Holding == {"send", "recv", "release", "push", "evict"}

\* A worker has a connection from the time acquire() returned one until it is
\* given back, and a request from acquire() on.
LeasesHeld ==
    /\ \A w \in Workers : lease[w] # None <=> stage[w] \in Holding
    /\ \A w \in Workers : stage[w] # "ready" => req[w] \in 1..MaxRequests
    /\ requests = 0 => \A w \in Workers : stage[w] = "ready"

LeaseIInv == PoolTypeOK /\ LeasesExact /\ LeasesHeld

Quiet(s) == s.rx = <<>> /\ s.owed = <<>>

\* What has been read, what can be read and what is to come, one after the
\* other, is the response to request n, or its beginning if the backend hung up.
Answering(s, r, n) ==
    /\ \A i \in 1..Len(r) : r[i] = [req |-> n, part |-> i]
    /\ \A i \in 1..Len(s.rx) : s.rx[i] = [req |-> n, part |-> Len(r) + i]
    /\ \A i \in 1..Len(s.owed) : s.owed[i] = [req |-> n, part |-> Len(r) + Len(s.rx) + i]
    /\ s.peer = "open" => Len(r) + Len(s.rx) + Len(s.owed) = Chunks
    /\ s.peer # "open" => Len(r) + Len(s.rx) <= Chunks /\ s.owed = <<>>
    /\ s.peer = "reset" => s.rx = <<>>

\* A connection carries the answer to one request at most: it is quiet unless
\* its user is reading, and what that one has read and will read is its answer.
Reading(w) ==
    /\ stage[w] \in {"ready", "connect", "send"} => resp[w] = <<>>
    /\ stage[w] \in {"send", "release", "push"} => Quiet(conn[lease[w]])
    /\ stage[w] \in {"recv", "release"} => Answering(conn[lease[w]], resp[w], req[w])
    /\ stage[w] = "recv" => Len(resp[w]) < Chunks

AnswersApart == IdleIsQuiet /\ \A w \in Workers : Reading(w)

-----------------------------------------------------------------------------
(* Leases. *)

Stages == {"ready", "connect", "send", "recv", "release", "push", "evict"}

\* A set of naturals that is not empty has a least element, which is its Min.
LEMMA LeastOf ==
    ASSUME NEW S \in SUBSET Nat, S # {}
    PROVE  Min(S) \in S /\ \A n \in S : Min(S) <= n
PROOF
  <1> DEFINE R == OpToRel(<, Nat)
  <1>1. IsWellFoundedOn(R, Nat)
    BY NatLessThanWellFounded, Zenon
  <1> HIDE DEF R
  <1>2. PICK m \in S : \A n \in S : ~(<<n, m>> \in R)
    BY <1>1, WFMin, Zenon
  <1>3. \A n \in S : m <= n
    <2> SUFFICES ASSUME NEW n \in S, n < m
                 PROVE  FALSE
      BY <1>2
    <2>1. <<n, m>> \in R
      BY DEF R, OpToRel
    <2> QED
      BY <2>1, <1>2
  <1>4. \E x \in S : \A y \in S : x =< y
    BY <1>3
  <1> QED
    BY <1>4, Zenon DEF Min

\* The sockets that the methods make are sockets.
LEMMA SocketMade ==
    ASSUME NEW s \in Socket
    PROVE  /\ Dropped \in Socket /\ [Dropped EXCEPT !.fd = "open"] \in Socket
           /\ touch(s) \in Socket /\ [s EXCEPT !.fd = "closed"] \in Socket
PROOF
  <1>1. Dropped \in Socket
    BY DEF Socket, Dropped
  <1>2. [Dropped EXCEPT !.fd = "open"] \in Socket
    BY <1>1 DEF Socket
  <1>3. touch(s) \in Socket /\ [s EXCEPT !.fd = "closed"] \in Socket
    BY Zenon DEF Socket, touch
  <1> QED
    BY <1>1, <1>2, <1>3

Active == {w \in Workers : stage[w] # "ready"}

\* The number of forwards under way.
LEMMA ActiveFinite == IsFiniteSet(Active) /\ Cardinality(Active) \in Nat
PROOF
  BY PoolAssumption, FS_Subset, FS_CardinalityType DEF Active

\* A worker that begins counts once more, one that ends once less.
LEMMA ActiveMoves ==
    ASSUME PoolTypeOK, NEW w \in Workers, NEW to, stage' = [stage EXCEPT ![w] = to]
    PROVE  /\ stage[w] = "ready" /\ to # "ready" => Cardinality(Active') = Cardinality(Active) + 1
           /\ stage[w] # "ready" /\ to = "ready" =>
                 Cardinality(Active') = Cardinality(Active) - 1 /\ Cardinality(Active) > 0
           /\ stage[w] # "ready" /\ to # "ready" => Active' = Active
PROOF
  <1>1. \A v \in Workers : stage'[v] = IF v = w THEN to ELSE stage[v]
    BY DEF PoolTypeOK
  <1>2. CASE stage[w] = "ready" /\ to # "ready"
    <2>1. Active' = Active \cup {w} /\ w \notin Active
      BY <1>1, <1>2 DEF Active
    <2> QED
      BY <2>1, <1>2, ActiveFinite, FS_AddElement
  <1>3. CASE stage[w] # "ready" /\ to = "ready"
    <2>1. Active' = Active \ {w} /\ w \in Active
      BY <1>1, <1>3 DEF Active
    <2>2. Cardinality(Active') = Cardinality(Active) - 1
      BY <2>1, ActiveFinite, FS_RemoveElement
    <2>3. Cardinality(Active) # 0
      BY <2>1, ActiveFinite, FS_EmptySet
    <2> QED
      BY <2>2, <2>3, <1>3, ActiveFinite
  <1>4. CASE stage[w] # "ready" /\ to # "ready"
    BY <1>1, <1>4 DEF Active
  <1> QED
    BY <1>2, <1>3, <1>4

\* Where workers are, apart from the connections' contents.
Frame == UNCHANGED <<idle, active_count, lease, requests>>

\* The worker goes on with the connection it has.
LEMMA MovesKeep ==
    ASSUME LeaseIInv, NEW w \in Workers, NEW to \in Holding, stage[w] \in Holding,
           stage' = [stage EXCEPT ![w] = to], Frame, req' = req
    PROVE  LeasesExact' /\ LeasesHeld' /\ stage' \in [Workers -> Stages]
PROOF
  <1>1. stage[w] # "ready" /\ to # "ready" /\ Holding \subseteq Stages
    BY DEF Holding, Stages
  <1>2. Active' = Active
    BY <1>1, ActiveMoves, Zenon DEF LeaseIInv
  <1>3. stage \in [Workers -> Stages]
    BY DEF LeaseIInv, PoolTypeOK, Stages
  <1>4. \A v \in Workers : /\ stage'[v] \in Holding <=> stage[v] \in Holding
                           /\ stage'[v] = "ready" <=> stage[v] = "ready"
    BY <1>1, <1>3
  <1>5. LeasesExact'
    BY <1>2, Zenon DEF LeaseIInv, LeasesExact, Leased, Frame, Active
  <1>6. LeasesHeld'
    BY <1>4 DEF LeaseIInv, LeasesHeld, Frame
  <1> QED
    BY <1>1, <1>3, <1>5, <1>6

\* Only what connections carry changes.
LEMMA SameLeases ==
    ASSUME LeaseIInv, UNCHANGED <<idle, active_count, worker, requests>>
    PROVE  LeasesExact' /\ LeasesHeld'
PROOF
  BY DEF LeaseIInv, LeasesExact, LeasesHeld, Leased, worker

\* Every place but those of the sockets has a value of its type.
PoolTyped ==
    /\ idle \in Seq(Conns) /\ active_count \in Nat
    /\ stage \in [Workers -> Stages] /\ lease \in [Workers -> Conns \cup {None}]
    /\ req \in [Workers -> 0..MaxRequests] /\ resp \in [Workers -> Seq(Piece)]
    /\ requests \in 0..MaxRequests

\* The types are those of the sockets and the others.
LEMMA TypeParts ==
    /\ PoolTypeOK <=> conn \in [Conns -> Socket] /\ PoolTyped
    /\ PoolTypeOK' <=> conn' \in [Conns -> Socket] /\ PoolTyped'
PROOF
  BY DEF PoolTypeOK, PoolTyped, Stages

\* A sequence without repetition stays one when something new is appended.
LEMMA AppendNew ==
    ASSUME NEW s \in Seq(Conns), IsInjective(s), NEW c \in Conns, c \notin Range(s)
    PROVE  /\ Append(s, c) \in Seq(Conns) /\ Len(Append(s, c)) = Len(s) + 1
           /\ IsInjective(Append(s, c)) /\ Range(Append(s, c)) = Range(s) \cup {c}
PROOF
  <1> DEFINE t == Append(s, c)
  <1>1. /\ t \in Seq(Conns) /\ Len(t) = Len(s) + 1 /\ Len(s) \in Nat
        /\ DOMAIN t = 1..(Len(s) + 1) /\ DOMAIN s = 1..Len(s)
        /\ \A i \in 1..Len(s) : t[i] = s[i]
        /\ t[Len(s) + 1] = c
    OBVIOUS
  <1> HIDE DEF t
  <1>2. \A i \in DOMAIN t : i \in DOMAIN s \/ i = Len(s) + 1
    BY <1>1
  <1>3. Range(t) = Range(s) \cup {c}
    <2>1. \A x \in Range(t) : x \in Range(s) \cup {c}
      BY <1>1, <1>2 DEF Range
    <2>2. \A i \in DOMAIN s : i \in DOMAIN t /\ t[i] = s[i]
      BY <1>1
    <2>3. Len(s) + 1 \in DOMAIN t
      BY <1>1
    <2> QED
      BY <2>1, <2>2, <2>3, <1>1 DEF Range
  <1>4. ASSUME NEW i \in DOMAIN t, NEW j \in DOMAIN t, t[i] = t[j]
        PROVE  i = j
    <2>1. CASE i \in DOMAIN s /\ j \in DOMAIN s
      BY <2>1, <1>1, <1>4 DEF IsInjective
    <2>2. CASE i \in DOMAIN s /\ j = Len(s) + 1
      BY <2>2, <1>1, <1>4 DEF Range
    <2>3. CASE j \in DOMAIN s /\ i = Len(s) + 1
      BY <2>3, <1>1, <1>4 DEF Range
    <2> QED
      BY <2>1, <2>2, <2>3, <1>2
  <1> QED
    BY <1>1, <1>3, <1>4 DEF t, IsInjective

\* A forward ends: its connection is gone, or in the queue.
LEMMA EndsKeep ==
    ASSUME LeaseIInv, NEW w \in Workers, stage[w] # "ready", Return(w), Decrement,
           \/ idle' = idle
           \/ stage[w] \in Holding /\ Len(idle) < MaxIdle /\ idle' = Append(idle, lease[w])
    PROVE  LeasesExact' /\ LeasesHeld' /\ PoolTyped'
PROOF
  <1> USE DEF LeaseIInv
  <1>1. PoolTyped
    BY TypeParts
  <1>2. /\ stage' = [stage EXCEPT ![w] = "ready"] /\ lease' = [lease EXCEPT ![w] = None]
        /\ req' = [req EXCEPT ![w] = 0] /\ resp' = [resp EXCEPT ![w] = <<>>] /\ requests' = requests
    BY DEF Return, Enter, Hold
  <1>3. active_count' = Cardinality(Active') /\ active_count' \in Nat
    <2>1. Cardinality(Active') = Cardinality(Active) - 1 /\ Cardinality(Active) > 0
      BY <1>2, ActiveMoves, Zenon
    <2>2. active_count = Cardinality(Active)
      BY DEF LeasesExact, Active
    <2> QED
      BY <2>1, <2>2, ActiveFinite DEF Decrement
  <1>4. stage[w] \in Holding => lease[w] \in Conns /\ lease[w] \notin Range(idle)
    BY <1>1 DEF LeasesHeld, LeasesExact, Leased, PoolTyped
  <1>5. /\ idle' \in Seq(Conns) /\ IsInjective(idle') /\ Len(idle') <= MaxIdle
        /\ Range(idle') \subseteq Range(idle) \cup {lease[w]}
    <2>1. CASE idle' = idle
      BY <2>1, <1>1 DEF PoolTyped, LeasesExact
    <2>2. CASE stage[w] \in Holding /\ Len(idle) < MaxIdle /\ idle' = Append(idle, lease[w])
      BY <2>2, <1>1, <1>4, AppendNew, PoolAssumption DEF PoolTyped, LeasesExact
    <2> QED
      BY <2>1, <2>2
  <1>6. \A v \in Workers : lease'[v] = IF v = w THEN None ELSE lease[v]
    BY <1>1, <1>2 DEF PoolTyped
  <1>7. \A u, v \in Workers : lease'[u] = lease'[v] /\ lease'[u] # None => u = v
    BY <1>6 DEF LeasesExact
  <1>8. Leased' \cap Range(idle') = {}
    <2>1. ASSUME NEW v \in Workers, lease'[v] # None
          PROVE  lease'[v] \notin Range(idle')
      <3>1. v # w /\ lease'[v] = lease[v] /\ lease[v] # lease[w]
        BY <1>6, <2>1 DEF LeasesExact
      <3>2. lease[v] \notin Range(idle)
        BY <3>1, <2>1 DEF LeasesExact, Leased
      <3> QED
        BY <3>1, <3>2, <1>5
    <2> QED
      BY <2>1 DEF Leased
  <1>9. LeasesExact'
    BY <1>3, <1>5, <1>7, <1>8 DEF LeasesExact, Active
  <1>10. \A v \in Workers : stage'[v] = IF v = w THEN "ready" ELSE stage[v]
    BY <1>1, <1>2 DEF PoolTyped
  <1>11. \A v \in Workers : v # w => req'[v] = req[v]
    BY <1>1, <1>2 DEF PoolTyped
  <1>12. LeasesHeld'
    BY <1>2, <1>6, <1>10, <1>11 DEF LeasesHeld, Holding
  <1>13. PoolTyped'
    BY <1>1, <1>2, <1>3, <1>5, PoolAssumption DEF PoolTyped, Stages
  <1> QED
    BY <1>9, <1>12, <1>13

\* The part of a sequence from a place on.
LEMMA RestOf ==
    ASSUME NEW s \in Seq(Conns), NEW i \in 1..Len(s), IsInjective(s)
    PROVE  LET t == SubSeq(s, i + 1, Len(s))
           IN  /\ t \in Seq(Conns) /\ Len(t) <= Len(s) /\ IsInjective(t)
               /\ Range(t) \subseteq Range(s) /\ s[i] \notin Range(t)
PROOF
  <1> DEFINE t == SubSeq(s, i + 1, Len(s))
  <1>1. /\ t \in Seq(Conns) /\ Len(t) = Len(s) - i /\ DOMAIN t = 1..(Len(s) - i)
        /\ \A j \in 1..(Len(s) - i) : t[j] = s[i + j]
        /\ Len(s) \in Nat /\ DOMAIN s = 1..Len(s)
    OBVIOUS
  <1> HIDE DEF t
  <1>2. \A j \in DOMAIN t : i + j \in DOMAIN s /\ i + j # i /\ t[j] = s[i + j]
    BY <1>1
  <1>3. IsInjective(t)
    <2> SUFFICES ASSUME NEW j \in DOMAIN t, NEW k \in DOMAIN t, t[j] = t[k]
                 PROVE  j = k
      BY DEF IsInjective
    <2>1. i + j = i + k
      BY <1>2 DEF IsInjective
    <2> QED
      BY <2>1, <1>1
  <1>4. Range(t) \subseteq Range(s)
    BY <1>2 DEF Range
  <1>5. s[i] \notin Range(t)
    BY <1>1, <1>2 DEF Range, IsInjective
  <1>6. Len(t) <= Len(s)
    BY <1>1
  <1> QED
    BY <1>1, <1>3, <1>4, <1>5, <1>6 DEF t

\* acquire() finds no live connection, or the first after some dead ones.
FindsNone(w) ==
    /\ idle' = <<>> /\ lease' = lease /\ stage' = [stage EXCEPT ![w] = "connect"]
    /\ conn' = [c \in Conns |-> IF c \in Range(idle) THEN Dropped ELSE conn[c]]

Reuses(w, i, dead) ==
    /\ idle' = SubSeq(idle, i + 1, Len(idle))
    /\ dead \cap Range(idle') = {} /\ idle[i] \notin dead
    /\ lease' = [lease EXCEPT ![w] = idle[i]]
    /\ stage' = [stage EXCEPT ![w] = "send"]
    /\ conn' = [c \in Conns |-> IF c \in dead THEN Dropped
                                ELSE IF c = idle[i] THEN touch(conn[c]) ELSE conn[c]]

\* What acquire() does: the first live connection of the queue, or none.
LEMMA Acquires ==
    ASSUME LeaseIInv, NEW w \in Workers, acquire(w)
    PROVE  /\ stage[w] = "ready" /\ requests' = requests + 1 /\ requests < MaxRequests
           /\ req' = [req EXCEPT ![w] = requests + 1]
           /\ active_count' = active_count + 1 /\ resp' = resp
           /\ FindsNone(w) \/ \E i \in DOMAIN idle, dead \in SUBSET Range(idle) : Reuses(w, i, dead)
PROOF
  <1> DEFINE live == {i \in DOMAIN idle : is_alive(conn[idle[i]])}
             Dead(n) == {idle[i] : i \in 1..n}
  <1>1. idle \in Seq(Conns) /\ IsInjective(idle) /\ DOMAIN idle = 1..Len(idle) /\ Len(idle) \in Nat
    BY DEF LeaseIInv, PoolTypeOK, LeasesExact
  <1>2. /\ stage[w] = "ready" /\ requests' = requests + 1 /\ requests < MaxRequests
        /\ req' = [req EXCEPT ![w] = requests + 1]
        /\ active_count' = active_count + 1 /\ resp' = resp
    BY DEF acquire, At
  <1>3. CASE live = {}
    <2>1. idle' = <<>> /\ lease' = lease /\ Drop(Dead(Len(idle))) /\ Enter(w, "connect")
      BY <1>3 DEF acquire
    <2>2. Dead(Len(idle)) = Range(idle)
      BY <1>1 DEF Range
    <2> QED
      BY <1>2, <2>1, <2>2 DEF Drop, Enter, FindsNone
  <1>4. CASE live # {}
    <2> DEFINE i == Min(live)
    <2>1. i \in live
      <3>1. live \in SUBSET Nat
        BY <1>1
      <3> HIDE DEF live
      <3> QED
        BY <3>1, <1>4, LeastOf
    <2>2. /\ idle' = SubSeq(idle, i + 1, Len(idle))
          /\ conn' = [c \in Conns |-> IF c \in Dead(i - 1) THEN Dropped
                                      ELSE IF c = idle[i] THEN touch(conn[c]) ELSE conn[c]]
          /\ Enter(w, "send") /\ Hold(w, idle[i])
      BY <1>4, Zenon DEF acquire
    <2> HIDE DEF i
    <2>3. Dead(i - 1) \in SUBSET Range(idle) /\ idle[i] \notin Dead(i - 1)
      BY <2>1, <1>1 DEF Range, IsInjective
    <2>4. \A j \in 1..Len(idle') : i + j \in DOMAIN idle /\ idle'[j] = idle[i + j]
      BY <2>1, <2>2, <1>1
    <2>5. DOMAIN idle' = 1..Len(idle')
      BY <2>1, <2>2, <1>1
    <2>6. Dead(i - 1) \cap Range(idle') = {}
      <3> SUFFICES ASSUME NEW k \in 1..(i - 1), NEW j \in 1..Len(idle'), idle[k] = idle'[j]
                   PROVE  FALSE
        BY <2>5 DEF Range
      <3>1. k \in DOMAIN idle /\ i + j # k
        BY <2>1, <1>1
      <3> QED
        BY <3>1, <2>4, <1>1 DEF IsInjective
    <2> HIDE DEF Dead
    <2>7. Reuses(w, i, Dead(i - 1))
      BY <2>2, <2>3, <2>6 DEF Reuses, Enter, Hold
    <2> QED
      BY <1>2, <2>1, <2>3, <2>7
  <1> QED
    BY <1>3, <1>4

\* A forward begins.
LEMMA AcquireKeeps ==
    ASSUME LeaseIInv, NEW w \in Workers, acquire(w)
    PROVE  LeaseIInv'
PROOF
  <1> USE DEF LeaseIInv
  <1>1. PoolTyped /\ conn \in [Conns -> Socket]
    BY TypeParts
  <1>2. /\ stage[w] = "ready" /\ requests' = requests + 1 /\ requests < MaxRequests
        /\ req' = [req EXCEPT ![w] = requests + 1]
        /\ active_count' = active_count + 1 /\ resp' = resp
    BY Acquires
  <1>3. requests' \in 1..MaxRequests /\ requests' # 0
    BY <1>1, <1>2, PoolAssumption DEF PoolTyped
  <1>4. lease[w] = None
    BY <1>2 DEF LeasesHeld, Holding
  <1>5. \A v \in Workers : req'[v] = IF v = w THEN requests' ELSE req[v]
    BY <1>1, <1>2 DEF PoolTyped
  <1>6. req' \in [Workers -> 0..MaxRequests] /\ active_count' \in Nat /\ requests' \in 0..MaxRequests
    BY <1>1, <1>2, <1>3 DEF PoolTyped
  <1>7. active_count = Cardinality(Active)
    BY DEF LeasesExact, Active
  <1>8. CASE FindsNone(w)
    <2> USE <1>8 DEF FindsNone
    <2>1. conn' \in [Conns -> Socket]
      BY <1>1, <1>8, SocketMade, Zenon
    <2>2. \A v \in Workers : stage'[v] = IF v = w THEN "connect" ELSE stage[v]
      BY <1>1, <1>8 DEF PoolTyped
    <2>3. active_count' = Cardinality(Active')
      <3>1. Cardinality(Active') = Cardinality(Active) + 1
        <4>1. stage' = [stage EXCEPT ![w] = "connect"] /\ stage[w] = "ready" /\ "connect" # "ready"
          BY <1>2, <1>8
        <4> QED
          BY <4>1, ActiveMoves, Zenon
      <3> QED
        BY <3>1, <1>2, <1>7
    <2>4. PoolTyped'
      BY <1>1, <1>2, <1>6, <1>8 DEF PoolTyped, Stages
    <2>5. idle' \in Seq(Conns) /\ IsInjective(idle') /\ Len(idle') <= MaxIdle /\ Range(idle') = {}
      BY <1>8, PoolAssumption DEF IsInjective, Range
    <2>6. LeasesExact'
      BY <2>3, <2>5, <1>8 DEF LeasesExact, Leased, Active
    <2>7. LeasesHeld'
      BY <2>2, <1>2, <1>3, <1>4, <1>5, <1>8 DEF LeasesHeld, Holding
    <2> QED
      BY <2>1, <2>4, <2>6, <2>7, TypeParts
  <1>9. ASSUME NEW i \in DOMAIN idle, NEW dead \in SUBSET Range(idle), Reuses(w, i, dead)
        PROVE  LeaseIInv'
    <2> USE <1>9 DEF Reuses
    <2>1. conn' \in [Conns -> Socket]
      <3>1. \A c \in Conns : Dropped \in Socket /\ touch(conn[c]) \in Socket /\ conn[c] \in Socket
        BY <1>1, SocketMade, Zenon
      <3> QED
        BY <3>1
    <2>2. \A v \in Workers : stage'[v] = IF v = w THEN "send" ELSE stage[v]
      BY <1>1, <1>9 DEF PoolTyped
    <2>3. active_count' = Cardinality(Active')
      <3>1. Cardinality(Active') = Cardinality(Active) + 1
        <4>1. stage' = [stage EXCEPT ![w] = "send"] /\ stage[w] = "ready" /\ "send" # "ready"
          BY <1>2, <1>9
        <4> QED
          BY <4>1, ActiveMoves, Zenon
      <3> QED
        BY <3>1, <1>2, <1>7
    <2>4. /\ idle[i] \in Conns /\ idle[i] # None /\ idle[i] \in Range(idle) /\ idle[i] \notin Range(idle')
          /\ idle' \in Seq(Conns) /\ Len(idle') <= Len(idle) /\ IsInjective(idle')
          /\ Range(idle') \subseteq Range(idle)
      <3>1. i \in 1..Len(idle) /\ idle \in Seq(Conns) /\ IsInjective(idle)
        BY <1>1 DEF PoolTyped, LeasesExact
      <3>2. idle[i] \in Conns /\ idle[i] \in Range(idle)
        BY <3>1 DEF Range
      <3> QED
        BY <3>1, <3>2, <1>9, RestOf, PoolAssumption
    <2>5. PoolTyped'
      BY <1>1, <1>2, <1>6, <1>9, <2>4 DEF PoolTyped, Stages
    <2>6. \A v \in Workers : lease'[v] = IF v = w THEN idle[i] ELSE lease[v]
      BY <1>1, <1>9 DEF PoolTyped
    <2>7. \A v \in Workers : lease[v] # None => lease[v] \notin Range(idle)
      BY DEF LeasesExact, Leased
    <2>8. \A u, v \in Workers : lease'[u] = lease'[v] /\ lease'[u] # None => u = v
      BY <2>4, <2>6, <2>7 DEF LeasesExact
    <2>9. Leased' \cap Range(idle') = {}
      BY <2>4, <2>6, <2>7 DEF Leased
    <2>10. Len(idle') <= MaxIdle
      <3>1. Len(idle) \in Nat /\ Len(idle') \in Nat
        BY <2>4, <1>1 DEF PoolTyped
      <3> QED
        BY <3>1, <2>4, PoolAssumption DEF LeasesExact
    <2>11. LeasesExact'
      BY <2>3, <2>4, <2>8, <2>9, <2>10 DEF LeasesExact, Active
    <2>12. LeasesHeld'
      BY <2>2, <2>4, <2>6, <1>2, <1>3, <1>5 DEF LeasesHeld, Holding
    <2> QED
      BY <2>1, <2>5, <2>11, <2>12, TypeParts
  <1> QED
    BY <1>8, <1>9, Acquires

\* acquire() has made a connection.
LEMMA ConnectedKeeps ==
    ASSUME LeaseIInv, NEW w \in Workers, NEW c \in Conns, connected(w, c)
    PROVE  LeaseIInv'
PROOF
  <1> USE DEF LeaseIInv
  <1>1. PoolTyped /\ conn \in [Conns -> Socket]
    BY TypeParts
  <1>2. /\ stage[w] = "connect" /\ c \in Free
        /\ conn' = [conn EXCEPT ![c] = [Dropped EXCEPT !.fd = "open"]]
        /\ lease' = [lease EXCEPT ![w] = c] /\ stage' = [stage EXCEPT ![w] = "send"]
        /\ UNCHANGED <<idle, active_count, req, resp, requests>>
    BY DEF connected, At, Hold, Enter
  <1>3. conn' \in [Conns -> Socket]
    <2>1. [Dropped EXCEPT !.fd = "open"] \in Socket
      BY <1>1, SocketMade, Zenon
    <2> QED
      BY <1>1, <1>2, <2>1
  <1>4. PoolTyped'
    BY <1>1, <1>2 DEF PoolTyped, Stages
  <1>5. Active' = Active
    <2>1. stage' = [stage EXCEPT ![w] = "send"] /\ stage[w] # "ready" /\ "send" # "ready"
      BY <1>2
    <2> QED
      BY <2>1, ActiveMoves, Zenon
  <1>6. \A v \in Workers : /\ lease'[v] = IF v = w THEN c ELSE lease[v]
                           /\ stage'[v] = IF v = w THEN "send" ELSE stage[v]
    BY <1>1, <1>2 DEF PoolTyped
  <1>7. /\ c # None /\ c \notin Range(idle) /\ \A v \in Workers : lease[v] # c
    BY <1>2, PoolAssumption DEF Free, Leased
  <1>8. \A u, v \in Workers : lease'[u] = lease'[v] /\ lease'[u] # None => u = v
    BY <1>6, <1>7 DEF LeasesExact
  <1>9. Leased' \cap Range(idle') = {}
    <2>1. \A v \in Workers : lease[v] # None => lease[v] \notin Range(idle)
      BY DEF LeasesExact, Leased
    <2>2. \A v \in Workers : lease'[v] # None => lease'[v] \notin Range(idle)
      BY <2>1, <1>6, <1>7
    <2> QED
      BY <2>2, <1>2 DEF Leased
  <1>10. LeasesExact'
    BY <1>2, <1>5, <1>8, <1>9, Zenon DEF LeasesExact, Active
  <1>11. LeasesHeld'
    BY <1>2, <1>6, <1>7 DEF LeasesHeld, Holding
  <1> QED
    BY <1>3, <1>4, <1>10, <1>11, TypeParts

\* Dropping connections and the state of their sockets.
LEMMA DropTyped ==
    ASSUME conn \in [Conns -> Socket], NEW cs, Drop(cs)
    PROVE  conn' \in [Conns -> Socket]
PROOF
  <1>1. \A c \in Conns : Dropped \in Socket /\ conn[c] \in Socket
    BY SocketMade, Zenon
  <1> QED
    BY <1>1 DEF Drop

\* cleanup_idle() takes connections out of the queue and leaves the others.
LEMMA CleanupTakes ==
    ASSUME LeaseIInv, cleanup_idle
    PROVE  /\ UNCHANGED <<active_count, worker, requests>>
           /\ idle' \in Seq(Conns) /\ IsInjective(idle') /\ Len(idle') <= MaxIdle
           /\ \E old \in SUBSET Range(idle) : /\ Range(idle') \subseteq Range(idle) \ old
                                              /\ Drop(old)
PROOF
  <1> DEFINE old == {c \in Range(idle) : conn[c].old}
             kept == {i \in DOMAIN idle : idle[i] \notin old}
  <1>1. /\ Drop(old) /\ UNCHANGED <<active_count, worker, requests>>
        /\ \E p \in [1..Cardinality(kept) -> kept] :
              /\ \A i, j \in DOMAIN p : i < j => p[i] < p[j]
              /\ idle' = [i \in DOMAIN p |-> idle[p[i]]]
    BY Zenon DEF cleanup_idle
  <1>2. PICK p \in [1..Cardinality(kept) -> kept] :
              /\ \A i, j \in DOMAIN p : i < j => p[i] < p[j]
              /\ idle' = [i \in DOMAIN p |-> idle[p[i]]]
    BY <1>1, Zenon
  <1>3. /\ idle \in Seq(Conns) /\ IsInjective(idle) /\ DOMAIN idle = 1..Len(idle)
        /\ Len(idle) \in Nat /\ Len(idle) <= MaxIdle
    BY DEF LeaseIInv, PoolTypeOK, LeasesExact
  <1>4. IsFiniteSet(kept) /\ Cardinality(kept) \in Nat /\ Cardinality(kept) <= Len(idle)
    <2>1. kept \subseteq 1..Len(idle)
      BY <1>3
    <2> HIDE DEF kept
    <2> QED
      <3>1. IsFiniteSet(1..Len(idle)) /\ Cardinality(1..Len(idle)) = Len(idle)
        <4> DEFINE n == Len(idle)
        <4>1. n \in Nat /\ 1 \in Int /\ n \in Int
          BY <1>3
        <4> HIDE DEF n
        <4>2. IsFiniteSet(1..n) /\ Cardinality(1..n) = IF 1 > n THEN 0 ELSE n - 1 + 1
          BY <4>1, FS_Interval
        <4>3. Cardinality(1..n) = n
          BY <4>1, <4>2
        <4> QED
          BY <4>2, <4>3 DEF n
      <3>2. IsFiniteSet(kept) /\ Cardinality(kept) <= Cardinality(1..Len(idle))
        BY <2>1, <3>1, FS_Subset, Zenon
      <3>3. Cardinality(kept) \in Nat
        BY <3>2, FS_CardinalityType
      <3> QED
        BY <3>1, <3>2, <3>3
  <1> HIDE DEF old
  <1>5. \A i \in 1..Cardinality(kept) : p[i] \in DOMAIN idle /\ idle[p[i]] \notin old
    OBVIOUS
  <1> HIDE DEF kept
  <1>6. idle' \in Seq(Conns) /\ DOMAIN idle' = 1..Cardinality(kept) /\ Len(idle') = Cardinality(kept)
    BY <1>2, <1>3, <1>4, <1>5
  <1>7. \A i \in DOMAIN idle' : idle'[i] = idle[p[i]] /\ i \in 1..Cardinality(kept) /\ p[i] \in Nat
    BY <1>2, <1>3, <1>5, <1>6
  <1>8. IsInjective(idle')
    <2> SUFFICES ASSUME NEW i \in DOMAIN idle', NEW j \in DOMAIN idle', idle'[i] = idle'[j], i # j
                 PROVE  FALSE
      BY DEF IsInjective
    <2>1. p[i] = p[j]
      BY <1>3, <1>5, <1>7 DEF IsInjective
    <2>2. i < j \/ j < i
      BY <1>4, <1>6
    <2> QED
      BY <2>1, <2>2, <1>2, <1>7, <1>6
  <1>9. Range(idle') \subseteq Range(idle) \ old
    BY <1>5, <1>7 DEF Range
  <1>10. Len(idle') <= MaxIdle
    BY <1>3, <1>4, <1>6, PoolAssumption
  <1>11. old \in SUBSET Range(idle)
    BY DEF old
  <1> QED
    BY <1>1, <1>6, <1>8, <1>9, <1>10, <1>11

\* The housekeeping thread and warm_up() leave the leases as they are.
LEMMA OthersKeep ==
    ASSUME LeaseIInv, cleanup_idle \/ \E c \in Conns : warm_up(c)
    PROVE  LeaseIInv'
PROOF
  <1> USE DEF LeaseIInv
  <1>1. PoolTyped /\ conn \in [Conns -> Socket]
    BY TypeParts
  <1>2. CASE cleanup_idle
    <2>1. PICK old \in SUBSET Range(idle) : Range(idle') \subseteq Range(idle) \ old /\ Drop(old)
      BY <1>2, CleanupTakes
    <2>2. /\ UNCHANGED <<active_count, worker, requests>>
          /\ idle' \in Seq(Conns) /\ IsInjective(idle') /\ Len(idle') <= MaxIdle
      BY <1>2, CleanupTakes
    <2>3. conn' \in [Conns -> Socket]
      BY <1>1, <2>1, DropTyped
    <2>4. LeasesExact'
      BY <2>1, <2>2 DEF LeasesExact, Leased, worker
    <2>5. LeasesHeld' /\ PoolTyped'
      BY <2>2, <1>1 DEF LeasesHeld, PoolTyped, worker
    <2> QED
      BY <2>3, <2>4, <2>5, TypeParts
  <1>3. ASSUME NEW c \in Conns, warm_up(c)
        PROVE  LeaseIInv'
    <2>1. /\ requests = 0 /\ c \notin Range(idle) /\ c \notin Leased /\ Len(idle) < MaxIdle
          /\ conn' = [conn EXCEPT ![c] = [Dropped EXCEPT !.fd = "open"]]
          /\ idle' = Append(idle, c) /\ Decrement /\ UNCHANGED <<worker, requests>>
      BY <1>3 DEF warm_up, Free
    <2>2. conn' \in [Conns -> Socket]
      <3>1. [Dropped EXCEPT !.fd = "open"] \in Socket
        BY <1>1, SocketMade, Zenon
      <3> QED
        BY <3>1, <1>1, <2>1
    <2>3. active_count = 0
      <3>1. Active = {}
        BY <2>1 DEF Active, LeasesHeld
      <3> QED
        BY <3>1, FS_EmptySet, Zenon DEF LeasesExact, Active
    <2>4. active_count' = active_count
      BY <2>1, <2>3 DEF Decrement
    <2>5. /\ idle' \in Seq(Conns) /\ IsInjective(idle') /\ Range(idle') = Range(idle) \cup {c}
          /\ Len(idle') = Len(idle) + 1 /\ Len(idle) \in Nat
      BY <2>1, <1>1, AppendNew DEF PoolTyped, LeasesExact
    <2>6. Len(idle') <= MaxIdle
      BY <2>1, <2>5, PoolAssumption
    <2>7. LeasesExact'
      BY <2>1, <2>4, <2>5, <2>6 DEF LeasesExact, Leased, worker
    <2>8. LeasesHeld' /\ PoolTyped'
      BY <2>1, <2>4, <2>5, <1>1 DEF LeasesHeld, PoolTyped, worker
    <2> QED
      BY <2>2, <2>7, <2>8, TypeParts
  <1> QED
    BY <1>2, <1>3

\* The pieces of a response.
LEMMA PiecesTyped ==
    ASSUME NEW n \in 1..MaxRequests
    PROVE  Pieces(n) \in Seq(Piece) /\ Len(Pieces(n)) = Chunks
PROOF
  <1>1. \A i \in 1..Chunks : [req |-> n, part |-> i] \in Piece
    BY DEF Piece
  <1> QED
    BY <1>1, PoolAssumption DEF Pieces

\* The steps of an exchange: the worker goes on with its connection, whose
\* socket alone changes, and may have read more.
LEMMA ExchangeMoves ==
    ASSUME LeaseIInv, NEW w \in Workers,
           \/ send_all(w) \/ send_failed(w) \/ (\E k \in 1..(2 * Chunks) : recv_data(w, k))
           \/ recv_eof(w) \/ recv_error(w) \/ recv_timeout(w) \/ release(w)
    PROVE  /\ stage[w] \in Holding /\ lease[w] \in Conns /\ Frame /\ req' = req
           /\ \E to \in Holding : stage' = [stage EXCEPT ![w] = to]
           /\ \E s \in Socket : conn' = [conn EXCEPT ![lease[w]] = s]
           /\ \E r \in Seq(Piece) : resp' = [resp EXCEPT ![w] = r]
PROOF
  <1> DEFINE s == conn[lease[w]]
  <1>1. PoolTyped /\ conn \in [Conns -> Socket]
    BY TypeParts DEF LeaseIInv
  <1>2. stage[w] \in {"send", "recv", "release"}
    BY Zenon DEF send_all, send_failed, recv_data, recv_eof, recv_error, recv_timeout, release, At
  <1>3. /\ stage[w] \in Holding /\ lease[w] \in Conns /\ req[w] \in 1..MaxRequests
        /\ s \in Socket /\ resp[w] \in Seq(Piece) /\ resp = [resp EXCEPT ![w] = resp[w]]
        /\ conn = [conn EXCEPT ![lease[w]] = s]
    <2>1. stage[w] \in Holding /\ stage[w] # "ready"
      BY <1>2 DEF Holding
    <2>2. lease[w] \in Conns /\ req[w] \in 1..MaxRequests
      BY <2>1, <1>1 DEF LeaseIInv, LeasesHeld, PoolTyped
    <2> QED
      BY <2>1, <2>2, <1>1 DEF PoolTyped
  <1> DEFINE Goal == /\ Frame /\ req' = req
                     /\ \E to \in Holding : stage' = [stage EXCEPT ![w] = to]
                     /\ \E t \in Socket : conn' = [conn EXCEPT ![lease[w]] = t]
                     /\ \E r \in Seq(Piece) : resp' = [resp EXCEPT ![w] = r]
  <1>4. CASE send_all(w)
    <2> DEFINE t == [s EXCEPT !.owed = IF s.peer = "open" THEN @ \o Pieces(req[w]) ELSE @]
    <2>1. conn' = [conn EXCEPT ![lease[w]] = t]
      BY <1>4 DEF send_all
    <2>2. t \in Socket
      <3>1. s.owed \in Seq(Piece) /\ Pieces(req[w]) \in Seq(Piece)
        BY <1>3, PiecesTyped DEF Socket
      <3>2. s.owed \o Pieces(req[w]) \in Seq(Piece)
        BY <3>1
      <3> QED
        BY <3>1, <3>2, <1>3, Zenon DEF Socket
    <2>3. /\ stage' = [stage EXCEPT ![w] = "recv"]
          /\ UNCHANGED <<idle, active_count, lease, req, resp, requests>>
      BY <1>4 DEF send_all, Enter
    <2>4. "recv" \in Holding
      BY DEF Holding
    <2> HIDE DEF t
    <2> QED
      BY <2>1, <2>2, <2>3, <2>4, <1>3, Zenon DEF Frame
  <1>5. CASE send_failed(w) \/ release(w)
    <2>1. /\ \E to \in {"evict", "push"} : stage' = [stage EXCEPT ![w] = to]
          /\ UNCHANGED <<conn, idle, active_count, lease, req, resp, requests>>
      BY <1>5 DEF send_failed, release, Enter
    <2>2. {"evict", "push"} \subseteq Holding
      BY DEF Holding
    <2> QED
      BY <2>1, <2>2, <1>3, Zenon DEF Frame
  <1>6. ASSUME NEW k \in 1..(2 * Chunks), recv_data(w, k)
        PROVE  Goal
    <2> DEFINE r == resp[w] \o SubSeq(s.rx, 1, k)
               rest == [s EXCEPT !.rx = SubSeq(@, k + 1, Len(@))]
               t == IF Complete(r) THEN touch(rest) ELSE rest
    <2>1. /\ k \in 1..Len(s.rx) /\ resp' = [resp EXCEPT ![w] = r]
          /\ conn' = [conn EXCEPT ![lease[w]] = t]
          /\ \E to \in {"release", "recv"} : stage' = [stage EXCEPT ![w] = to]
          /\ UNCHANGED <<idle, active_count, lease, req, requests>>
      BY <1>6, Zenon DEF recv_data, Enter
    <2>2. s.rx \in Seq(Piece) /\ Len(s.rx) \in Nat
      BY <1>3 DEF Socket
    <2>3. r \in Seq(Piece) /\ SubSeq(s.rx, k + 1, Len(s.rx)) \in Seq(Piece)
      BY <2>1, <2>2, <1>3
    <2>4. rest \in Socket
      BY <2>3, <1>3, Zenon DEF Socket
    <2>5. t \in Socket
      BY <2>4, SocketMade, Zenon
    <2>6. {"release", "recv"} \subseteq Holding
      BY DEF Holding
    <2> HIDE DEF t, r
    <2> QED
      BY <2>1, <2>3, <2>5, <2>6, Zenon DEF Frame
  <1>7. ASSUME NEW t \in Socket, Leave(w, t)
        PROVE  Goal
    <2> DEFINE u == IF resp[w] = <<>> THEN [t EXCEPT !.fd = "closed"] ELSE t
    <2>1. /\ conn' = [conn EXCEPT ![lease[w]] = u]
          /\ \E to \in {"evict", "release"} : stage' = [stage EXCEPT ![w] = to]
          /\ UNCHANGED <<idle, active_count, lease, req, resp, requests>>
      BY <1>7, Zenon DEF Leave, Enter
    <2>2. u \in Socket
      BY <1>7, SocketMade
    <2>3. {"evict", "release"} \subseteq Holding
      BY DEF Holding
    <2> HIDE DEF u
    <2> QED
      BY <2>1, <2>2, <2>3, <1>3, Zenon DEF Frame
  <1>8. CASE recv_eof(w) \/ recv_error(w) \/ recv_timeout(w)
    <2>1. touch(s) \in Socket /\ [s EXCEPT !.fd = "closed"] \in Socket
      BY <1>3, SocketMade
    <2>2. Leave(w, touch(s)) \/ Leave(w, [s EXCEPT !.fd = "closed"])
      BY <1>8 DEF recv_eof, recv_error, recv_timeout
    <2>3. PICK t \in Socket : Leave(w, t)
      BY <2>1, <2>2, Zenon
    <2>4. Goal
      BY <2>3, <1>7, Zenon
    <2> QED
      BY <2>4, <1>3, Zenon
  <1> QED
    BY <1>3, <1>4, <1>5, <1>6, <1>8

\* The backend, or time, changes a socket.
LEMMA PeerMoves ==
    ASSUME LeaseIInv, NEW c \in Conns,
           Ages(c) \/ BackendSends(c) \/ \E how \in {"eof", "reset"} : BackendLeaves(c, how)
    PROVE  /\ UNCHANGED <<idle, active_count, worker, requests>>
           /\ \E s \in Socket : conn' = [conn EXCEPT ![c] = s]
PROOF
  <1> DEFINE s == conn[c]
  <1>1. s \in Socket /\ s.rx \in Seq(Piece) /\ s.owed \in Seq(Piece) /\ <<>> \in Seq(Piece)
    BY DEF LeaseIInv, PoolTypeOK, Socket
  <1>2. CASE Ages(c)
    <2>1. [s EXCEPT !.old = TRUE] \in Socket
      BY <1>1, Zenon DEF Socket
    <2> QED
      BY <1>2, <2>1, Zenon DEF Ages
  <1>3. CASE BackendSends(c)
    <2>1. Append(s.rx, Head(s.owed)) \in Seq(Piece) /\ Tail(s.owed) \in Seq(Piece)
      BY <1>1, <1>3 DEF BackendSends
    <2>2. [s EXCEPT !.rx = Append(@, Head(s.owed)), !.owed = Tail(@)] \in Socket
      BY <1>1, <2>1, Zenon DEF Socket
    <2>3. conn' = [conn EXCEPT ![c] = [s EXCEPT !.rx = Append(@, Head(s.owed)), !.owed = Tail(@)]]
      BY <1>3, Zenon DEF BackendSends, LeaseIInv, PoolTypeOK
    <2> QED
      BY <1>3, <2>2, <2>3, Zenon DEF BackendSends
  <1>4. ASSUME NEW how \in {"eof", "reset"}, BackendLeaves(c, how)
        PROVE  /\ UNCHANGED <<idle, active_count, worker, requests>>
               /\ \E t \in Socket : conn' = [conn EXCEPT ![c] = t]
    <2> DEFINE t == [s EXCEPT !.peer = how, !.owed = <<>>, !.rx = IF how = "reset" THEN <<>> ELSE @]
    <2>1. t \in Socket
      BY <1>1, <1>4, Zenon DEF Socket
    <2>2. conn' = [conn EXCEPT ![c] = t]
      BY <1>4, Zenon DEF BackendLeaves, LeaseIInv, PoolTypeOK
    <2> QED
      BY <1>4, <2>1, <2>2, Zenon DEF BackendLeaves
  <1> QED
    BY <1>2, <1>3, <1>4

\* The invariant of the leases is inductive.
LEMMA NextLease == LeaseIInv /\ [ForwardNext]_forward_vars => LeaseIInv'
PROOF
  <1> SUFFICES ASSUME LeaseIInv, [ForwardNext]_forward_vars
               PROVE  LeaseIInv'
    OBVIOUS
  <1>1. PoolTyped /\ conn \in [Conns -> Socket]
    BY TypeParts DEF LeaseIInv
  <1>2. ASSUME NEW w \in Workers, forward_pooled(w)
        PROVE  LeaseIInv'
    <2>1. CASE acquire(w)
      BY <2>1, AcquireKeeps
    <2>2. CASE \E c \in Conns : connected(w, c)
      BY <2>2, ConnectedKeeps
    <2>3. CASE connect_failed(w) \/ release_push(w) \/ evict(w)
      <3>1. stage[w] # "ready" /\ Return(w) /\ Decrement
        BY <2>3 DEF connect_failed, release_push, evict, At
      <3>2. \/ idle' = idle
            \/ stage[w] \in Holding /\ Len(idle) < MaxIdle /\ idle' = Append(idle, lease[w])
        BY <2>3 DEF connect_failed, release_push, evict, At, Holding
      <3>3. conn' = conn \/ \E cs : Drop(cs)
        BY <2>3 DEF connect_failed, release_push, evict
      <3>4. conn' \in [Conns -> Socket]
        BY <3>3, <1>1, DropTyped
      <3> QED
        BY <3>1, <3>2, <3>4, EndsKeep, TypeParts DEF LeaseIInv
    <2>4. CASE \/ send_all(w) \/ send_failed(w) \/ (\E k \in 1..(2 * Chunks) : recv_data(w, k))
               \/ recv_eof(w) \/ recv_error(w) \/ recv_timeout(w) \/ release(w)
      <3>1. /\ stage[w] \in Holding /\ Frame /\ req' = req /\ lease[w] \in Conns
            /\ \E to \in Holding : stage' = [stage EXCEPT ![w] = to]
            /\ \E s \in Socket : conn' = [conn EXCEPT ![lease[w]] = s]
            /\ \E r \in Seq(Piece) : resp' = [resp EXCEPT ![w] = r]
        BY <2>4, ExchangeMoves
      <3>2. LeasesExact' /\ LeasesHeld' /\ stage' \in [Workers -> Stages]
        BY <3>1, MovesKeep, Zenon
      <3>3. conn' \in [Conns -> Socket] /\ resp' \in [Workers -> Seq(Piece)]
        BY <3>1, <1>1 DEF PoolTyped
      <3>4. PoolTyped'
        BY <3>1, <3>2, <3>3, <1>1 DEF PoolTyped, Frame
      <3> QED
        BY <3>2, <3>3, <3>4, TypeParts DEF LeaseIInv
    <2> QED
      BY <1>2, <2>1, <2>2, <2>3, <2>4 DEF forward_pooled
  <1>3. CASE cleanup_idle \/ \E c \in Conns : warm_up(c)
    BY <1>3, OthersKeep
  <1>4. ASSUME NEW c \in Conns,
               Ages(c) \/ BackendSends(c) \/ \E how \in {"eof", "reset"} : BackendLeaves(c, how)
        PROVE  LeaseIInv'
    <2>1. UNCHANGED <<idle, active_count, worker, requests>> /\ \E s \in Socket : conn' = [conn EXCEPT ![c] = s]
      BY <1>4, PeerMoves
    <2>2. LeasesExact' /\ LeasesHeld'
      BY <2>1, SameLeases
    <2>3. conn' \in [Conns -> Socket] /\ PoolTyped'
      BY <2>1, <1>1 DEF PoolTyped, worker
    <2> QED
      BY <2>2, <2>3, TypeParts DEF LeaseIInv
  <1>5. CASE UNCHANGED forward_vars
    <2>1. LeasesExact' /\ LeasesHeld'
      BY <1>5, SameLeases DEF forward_vars
    <2>2. conn' \in [Conns -> Socket] /\ PoolTyped'
      BY <1>1, <1>5 DEF forward_vars, PoolTyped, worker
    <2> QED
      BY <2>1, <2>2, TypeParts DEF LeaseIInv
  <1> QED
    BY <1>2, <1>3, <1>4, <1>5 DEF ForwardNext

\* At first nobody holds a connection and none is idle.
LEMMA InitLease == ForwardInit => LeaseIInv
PROOF
  <1> SUFFICES ASSUME ForwardInit
               PROVE  LeaseIInv
    OBVIOUS
  <1> USE DEF ForwardInit
  <1>1. PoolTypeOK
    <2>1. Dropped \in Socket
      BY DEF Dropped, Socket
    <2> QED
      BY <2>1, PoolAssumption DEF PoolTypeOK
  <1>2. Active = {}
    BY DEF Active
  <1>3. LeasesExact
    <2>1. Leased = {}
      BY DEF Leased
    <2>2. active_count = Cardinality(Active)
      BY <1>2, FS_EmptySet
    <2>3. IsInjective(idle) /\ Len(idle) <= MaxIdle
      BY PoolAssumption DEF IsInjective
    <2> QED
      BY <2>1, <2>2, <2>3 DEF LeasesExact, Active
  <1>4. LeasesHeld
    BY DEF LeasesHeld, Holding
  <1> QED
    BY <1>1, <1>3, <1>4 DEF LeaseIInv

\* Every lease of a backend connection is exclusive, counted and given back.
THEOREM LeasesAreExact == ForwardSpec => []LeasesExact
PROOF
  <1>1. LeaseIInv => LeasesExact
    BY DEF LeaseIInv
  <1> QED
    BY InitLease, NextLease, <1>1, PTL DEF ForwardSpec

-----------------------------------------------------------------------------
(* Answers. *)

\* A worker whose connection and place do not change reads as before.
LEMMA SameReading ==
    ASSUME NEW v, Reading(v),
           stage'[v] = stage[v], lease'[v] = lease[v], resp'[v] = resp[v], req'[v] = req[v],
           stage[v] \in Holding => conn'[lease[v]] = conn[lease[v]]
    PROVE  Reading(v)'
PROOF
  <1>1. CASE stage[v] \in Holding
    BY <1>1 DEF Reading
  <1>2. CASE stage[v] \notin Holding
    BY <1>2 DEF Reading, Holding
  <1> QED
    BY <1>1, <1>2

\* What a response is does not depend on when the socket was used, or is closed.
LEMMA SameAnswer ==
    ASSUME NEW s \in Socket, NEW r, NEW n
    PROVE  /\ Answering(touch(s), r, n) <=> Answering(s, r, n)
           /\ Answering([s EXCEPT !.fd = "closed"], r, n) <=> Answering(s, r, n)
           /\ Quiet(touch(s)) <=> Quiet(s)
           /\ Quiet([s EXCEPT !.fd = "closed"]) <=> Quiet(s)
PROOF
  <1> DEFINE c == [s EXCEPT !.fd = "closed"]
  <1>0. /\ touch(s).rx = s.rx /\ touch(s).owed = s.owed /\ touch(s).peer = s.peer
    BY SMT DEF touch, Socket
  <1>1. c.rx = s.rx /\ c.owed = s.owed /\ c.peer = s.peer
    BY SMT DEF Socket
  <1> HIDE DEF c
  <1>2. \A t : t.rx = s.rx /\ t.owed = s.owed /\ t.peer = s.peer =>
                (Answering(t, r, n) <=> Answering(s, r, n)) /\ (Quiet(t) <=> Quiet(s))
    BY Zenon DEF Answering, Quiet
  <1>3. /\ Answering(touch(s), r, n) <=> Answering(s, r, n)
        /\ Quiet(touch(s)) <=> Quiet(s)
    BY <1>0, <1>2, Zenon
  <1>4. /\ Answering(c, r, n) <=> Answering(s, r, n)
        /\ Quiet(c) <=> Quiet(s)
    BY <1>1, <1>2, Zenon
  <1> QED
    BY <1>3, <1>4 DEF c

\* The part of a piece.
LEMMA PartOf ==
    ASSUME NEW n, NEW i, NEW p, p = [req |-> n, part |-> i]
    PROVE  p.part = i
PROOF
  OBVIOUS

\* Counting the pieces read, received and owed.
LEMMA PiecesLeft ==
    ASSUME NEW a \in Nat, NEW b \in Nat, NEW k \in 1..b
    PROVE  /\ a + k \in Nat /\ a + k > 0 /\ b - k \in Nat
           /\ (a + k) + (b - k) = a + b
PROOF
  OBVIOUS

\* A piece that comes is no longer owed.
LEMMA PieceComes ==
    ASSUME NEW a \in Nat, NEW b \in Nat, NEW c \in Nat
    PROVE  a + (b + 1) + (c - 1) = a + b + c /\ 0 + 0 + a = a
PROOF
  OBVIOUS

\* When all the pieces are read none is left.
LEMMA PiecesRead ==
    ASSUME NEW a \in Nat, NEW b \in Nat, NEW c \in Nat, NEW m \in Nat
    PROVE  /\ a + b + c = m => a <= m /\ (a >= m => b = 0 /\ c = 0)
           /\ a + b + c = m => a + b <= m /\ a + 0 <= m
           /\ a + b <= m => a <= m /\ (a >= m => b = 0)
PROOF
  OBVIOUS

\* Reading some of what has arrived leaves the rest of the answer; and with
\* Content-Length the answer is complete when all of it is there.
LEMMA ReadsOn ==
    ASSUME ContentLength, NEW s \in Socket, NEW r \in Seq(Piece), NEW n,
           Answering(s, r, n), NEW k \in 1..Len(s.rx)
    PROVE  LET q == r \o SubSeq(s.rx, 1, k)
               t == [s EXCEPT !.rx = SubSeq(@, k + 1, Len(@))]
           IN  /\ q \in Seq(Piece) /\ t \in Socket /\ Answering(t, q, n)
               /\ Complete(q) => Len(q) = Chunks /\ Quiet(t)
               /\ ~Complete(q) => Len(q) < Chunks
PROOF
  <1> DEFINE q == r \o SubSeq(s.rx, 1, k)
             t == [s EXCEPT !.rx = SubSeq(@, k + 1, Len(@))]
  <1>1. /\ s.rx \in Seq(Piece) /\ s.owed \in Seq(Piece)
        /\ Len(s.rx) \in Nat /\ Len(s.owed) \in Nat /\ Len(r) \in Nat
    BY DEF Socket
  <1>2. /\ q \in Seq(Piece) /\ Len(q) = Len(r) + k /\ DOMAIN q = 1..(Len(r) + k)
        /\ \A i \in 1..Len(r) : q[i] = r[i]
        /\ \A i \in (Len(r) + 1)..(Len(r) + k) : q[i] = s.rx[i - Len(r)]
    BY <1>1
  <1>3. /\ SubSeq(s.rx, k + 1, Len(s.rx)) \in Seq(Piece)
        /\ Len(SubSeq(s.rx, k + 1, Len(s.rx))) = Len(s.rx) - k
        /\ \A i \in 1..(Len(s.rx) - k) : SubSeq(s.rx, k + 1, Len(s.rx))[i] = s.rx[i + k]
    BY <1>1
  <1>4. /\ t \in Socket /\ t.owed = s.owed /\ t.peer = s.peer
        /\ t.rx = SubSeq(s.rx, k + 1, Len(s.rx))
    BY <1>3, Zenon DEF Socket
  <1> HIDE DEF q, t
  <1>5. /\ \A i \in 1..Len(r) : r[i] = [req |-> n, part |-> i]
        /\ \A i \in 1..Len(s.rx) : s.rx[i] = [req |-> n, part |-> Len(r) + i]
        /\ \A i \in 1..Len(s.owed) : s.owed[i] = [req |-> n, part |-> Len(r) + Len(s.rx) + i]
    BY DEF Answering
  <1>6. /\ s.peer = "open" => Len(r) + Len(s.rx) + Len(s.owed) = Chunks
        /\ s.peer # "open" => Len(r) + Len(s.rx) <= Chunks /\ s.owed = <<>>
        /\ s.peer = "reset" => s.rx = <<>>
    BY Zenon DEF Answering
  <1>7. \A i \in 1..Len(q) : q[i] = [req |-> n, part |-> i]
    <2> SUFFICES ASSUME NEW i \in 1..Len(q)
                 PROVE  q[i] = [req |-> n, part |-> i]
      OBVIOUS
    <2>1. CASE i <= Len(r)
      <3>1. i \in 1..Len(r)
        BY <2>1, <1>1, <1>2
      <3> QED
        BY <3>1, <1>2, <1>5, Zenon
    <2>2. CASE i > Len(r)
      <3>1. i - Len(r) \in 1..Len(s.rx) /\ Len(r) + (i - Len(r)) = i /\ i \in (Len(r) + 1)..(Len(r) + k)
        BY <2>2, <1>1, <1>2
      <3> QED
        BY <3>1, <1>2, <1>5, Zenon
    <2> QED
      BY <2>1, <2>2, <1>1, <1>2
  <1>8. \A i \in 1..Len(t.rx) : t.rx[i] = [req |-> n, part |-> Len(q) + i]
    <2> SUFFICES ASSUME NEW i \in 1..Len(t.rx)
                 PROVE  t.rx[i] = [req |-> n, part |-> Len(q) + i]
      OBVIOUS
    <2>1. /\ i + k \in 1..Len(s.rx) /\ t.rx[i] = s.rx[i + k]
          /\ Len(r) + (i + k) = Len(q) + i
      BY <1>1, <1>2, <1>3, <1>4
    <2> QED
      BY <2>1, <1>5
  <1>9. /\ Len(q) + Len(t.rx) = Len(r) + Len(s.rx) /\ Len(q) \in Nat /\ Len(q) > 0
        /\ Len(t.rx) \in Nat /\ Len(t.owed) = Len(s.owed)
    <2>1. Len(t.rx) = Len(s.rx) - k /\ Len(t.owed) = Len(s.owed)
      BY <1>3, <1>4
    <2>2. /\ Len(r) + k \in Nat /\ Len(r) + k > 0 /\ Len(s.rx) - k \in Nat
          /\ (Len(r) + k) + (Len(s.rx) - k) = Len(r) + Len(s.rx)
      BY <1>1, PiecesLeft, Zenon
    <2> QED
      BY <2>1, <2>2, <1>2, Zenon
  <1>10. /\ t.peer = "open" => Len(q) + Len(t.rx) + Len(t.owed) = Chunks
         /\ t.peer # "open" => Len(q) + Len(t.rx) <= Chunks /\ t.owed = <<>>
         /\ t.peer # "reset"
    <2>1. s.rx # <<>>
      BY <1>1
    <2> QED
      BY <2>1, <1>4, <1>6, <1>9, Zenon
  <1>11. Answering(t, q, n)
    <2>1. \A i \in 1..Len(t.owed) : t.owed[i] = [req |-> n, part |-> Len(q) + Len(t.rx) + i]
      BY <1>4, <1>5, <1>9
    <2> QED
      BY <2>1, <1>7, <1>8, <1>10, Zenon DEF Answering
  <1>12. Len(q) <= Chunks /\ (Len(q) >= Chunks => Len(t.rx) = 0 /\ Len(t.owed) = 0)
    <2>1. t.owed = <<>> => Len(t.owed) = 0
      OBVIOUS
    <2>2. Chunks \in Nat /\ Len(t.owed) \in Nat
      BY <1>1, <1>9, PoolAssumption
    <2>3. CASE t.peer = "open"
      <3>1. Len(q) + Len(t.rx) + Len(t.owed) = Chunks
        BY <2>3, <1>10, Zenon
      <3>2. Len(q) \in Nat /\ Len(t.rx) \in Nat
        BY <1>9
      <3> DEFINE a == Len(q)
                 b == Len(t.rx)
                 c == Len(t.owed)
      <3>3. a + b + c = Chunks /\ a \in Nat /\ b \in Nat /\ c \in Nat
        BY <3>1, <3>2, <2>2, Zenon
      <3> HIDE DEF a, b, c
      <3>4. a <= Chunks /\ (a >= Chunks => b = 0 /\ c = 0)
        BY <3>3, <2>2, PiecesRead
      <3> QED
        BY <3>4 DEF a, b, c
    <2>4. CASE t.peer # "open"
      <3>1. Len(q) + Len(t.rx) <= Chunks /\ Len(t.owed) = 0
        BY <2>1, <2>4, <1>10
      <3> QED
        BY <3>1, <2>2, <1>9, PiecesRead, Zenon
    <2> QED
      BY <2>3, <2>4
  <1>13. Complete(q) <=> Len(q) >= Chunks
    <2>1. \A i \in 1..Len(q) : q[i].part = i
      <3> SUFFICES ASSUME NEW i \in 1..Len(q)
                   PROVE  q[i].part = i
        OBVIOUS
      <3>1. q[i] = [req |-> n, part |-> i]
        BY <1>7
      <3> QED
        BY <3>1, PartOf, Zenon
    <2>2. {i \in DOMAIN q : q[i].part = 1} = {1}
      BY <2>1, <1>2, <1>9
    <2>3. Min({1}) = 1
      <3>1. {1} \in SUBSET Nat /\ {1} # {}
        OBVIOUS
      <3> QED
        BY <3>1, LeastOf
    <2>4. Complete(q) <=> Len(q) >= 1 + Chunks - 1
      BY <2>2, <2>3, Zenon DEF Complete
    <2> QED
      BY <2>4, <1>9, PoolAssumption
  <1>14. Len(q) >= Chunks => Quiet(t)
    BY <1>1, <1>3, <1>4, <1>12 DEF Quiet
  <1> QED
    BY <1>2, <1>4, <1>9, <1>11, <1>12, <1>13, <1>14, PoolAssumption DEF q, t

\* A step that leaves a worker and its connection alone.
Untouched(v) ==
    /\ stage'[v] = stage[v] /\ lease'[v] = lease[v] /\ resp'[v] = resp[v] /\ req'[v] = req[v]
    /\ stage[v] \in Holding => conn'[lease[v]] = conn[lease[v]]

\* A held connection is in nobody else's hands, nor in the queue.
LEMMA HeldApart ==
    ASSUME LeaseIInv, NEW v \in Workers, stage[v] \in Holding
    PROVE  /\ lease[v] \in Conns /\ lease[v] \notin Range(idle)
           /\ \A w \in Workers : w # v => lease[w] # lease[v]
PROOF
  <1>1. lease[v] # None /\ lease[v] \in Conns
    BY DEF LeaseIInv, LeasesHeld, PoolTypeOK
  <1> QED
    BY <1>1 DEF LeaseIInv, LeasesExact, Leased

\* The workers a step does not touch read as before.
LEMMA ApartKept ==
    ASSUME AnswersApart, NEW W \in SUBSET Workers, IdleIsQuiet',
           \A v \in Workers \ W : Untouched(v), \A v \in W : Reading(v)'
    PROVE  AnswersApart'
PROOF
  <1>1. ASSUME NEW v \in Workers \ W
        PROVE  Reading(v)'
    BY SameReading DEF AnswersApart, Untouched
  <1> QED
    BY <1>1 DEF AnswersApart

\* A step of an exchange concerns its worker only.
LEMMA ExchangeApart ==
    ASSUME LeaseIInv, AnswersApart, NEW w \in Workers, Reading(w)',
           stage[w] \in Holding, Frame, req' = req,
           \E to : stage' = [stage EXCEPT ![w] = to],
           \E s : conn' = [conn EXCEPT ![lease[w]] = s],
           \E r : resp' = [resp EXCEPT ![w] = r]
    PROVE  AnswersApart'
PROOF
  <1>1. /\ stage \in [Workers -> Stages] /\ resp \in [Workers -> Seq(Piece)]
        /\ conn \in [Conns -> Socket] /\ Range(idle) \subseteq Conns
    BY DEF LeaseIInv, PoolTypeOK, Stages, Range
  <1>2. ASSUME NEW v \in Workers \ {w}
        PROVE  Untouched(v)
    <2>1. stage'[v] = stage[v] /\ lease'[v] = lease[v] /\ resp'[v] = resp[v] /\ req'[v] = req[v]
      BY <1>1 DEF Frame
    <2>2. ASSUME stage[v] \in Holding
          PROVE  conn'[lease[v]] = conn[lease[v]]
      <3>1. lease[v] \in Conns /\ lease[v] # lease[w]
        BY <2>2, HeldApart
      <3> QED
        BY <3>1, <1>1
    <2> QED
      BY <2>1, <2>2 DEF Untouched
  <1>3. IdleIsQuiet'
    <2>1. \A c \in Range(idle) : c \in Conns /\ c # lease[w]
      BY <1>1, HeldApart
    <2>2. \A c \in Range(idle) : conn'[c] = conn[c]
      BY <2>1, <1>1
    <2>3. idle' = idle /\ IdleIsQuiet
      BY DEF Frame, AnswersApart
    <2> QED
      BY <2>2, <2>3 DEF IdleIsQuiet
  <1> QED
    <2>1. {w} \in SUBSET Workers /\ \A v \in {w} : Reading(v)'
      OBVIOUS
    <2> QED
      BY <2>1, <1>2, <1>3, ApartKept, Zenon

\* An answer of which nothing has been received.
LEMMA AnswerToCome ==
    ASSUME NEW t, NEW r, NEW n, Len(r) = 0, Len(t.rx) = 0, t.rx = <<>>, Len(t.owed) \in Nat,
           \A i \in 1..Len(t.owed) : t.owed[i] = [req |-> n, part |-> i],
           t.peer = "open" => Len(t.owed) = Chunks, t.peer # "open" => t.owed = <<>>
    PROVE  Answering(t, r, n)
PROOF
  <1>1. \A i \in 1..Len(r) : r[i] = [req |-> n, part |-> i]
    OBVIOUS
  <1>2. \A i \in 1..Len(t.rx) : t.rx[i] = [req |-> n, part |-> Len(r) + i]
    OBVIOUS
  <1>3. Len(r) + Len(t.rx) = 0
    OBVIOUS
  <1>4. \A i \in 1..Len(t.owed) : Len(r) + Len(t.rx) + i = i
    BY <1>3
  <1>5. \A i \in 1..Len(t.owed) : t.owed[i] = [req |-> n, part |-> Len(r) + Len(t.rx) + i]
    BY <1>4, Zenon
  <1>6. t.peer = "open" => Len(r) + Len(t.rx) + Len(t.owed) = Chunks
    BY <1>3
  <1>7. Len(r) + Len(t.rx) <= Chunks
    BY <1>3, PoolAssumption
  <1> QED
    BY <1>1, <1>2, <1>5, <1>6, <1>7, Zenon DEF Answering

\* The request is sent on a quiet connection: its answer is to come.
LEMMA AnswerOwed ==
    ASSUME NEW s \in Socket, Quiet(s), s.peer # "reset", NEW n \in 1..MaxRequests
    PROVE  LET t == [s EXCEPT !.owed = IF s.peer = "open" THEN @ \o Pieces(n) ELSE @]
           IN  Answering(t, <<>>, n)
PROOF
  <1> DEFINE t == [s EXCEPT !.owed = IF s.peer = "open" THEN @ \o Pieces(n) ELSE @]
  <1>1. /\ Pieces(n) \in Seq(Piece) /\ Len(Pieces(n)) = Chunks /\ Chunks \in Nat
        /\ \A i \in 1..Chunks : Pieces(n)[i] = [req |-> n, part |-> i]
    BY PiecesTyped, PoolAssumption DEF Pieces
  <1>2. s.owed = <<>> /\ s.rx = <<>> /\ <<>> \o Pieces(n) = Pieces(n)
    BY <1>1 DEF Quiet
  <1>3. /\ t.rx = <<>> /\ t.peer = s.peer
        /\ t.owed = IF s.peer = "open" THEN Pieces(n) ELSE <<>>
    BY <1>2 DEF Socket
  <1> SUFFICES Answering(t, <<>>, n)
    OBVIOUS
  <1> HIDE DEF t
  <1>4. CASE s.peer = "open"
    <2>1. t.owed = Pieces(n) /\ t.rx = <<>> /\ t.peer = "open" /\ Len(t.rx) = 0
      BY <1>3, <1>4
    <2>2. /\ \A i \in 1..Len(t.owed) : t.owed[i] = [req |-> n, part |-> i]
          /\ Len(t.owed) = Chunks
      BY <2>1, <1>1
    <2>3. /\ t.peer = "open" => Len(t.owed) = Chunks
          /\ t.peer # "open" => t.owed = <<>>
          /\ Len(t.rx) = 0 /\ t.rx = <<>> /\ Len(t.owed) \in Nat /\ Len(<<>>) = 0
      BY <2>1, <2>2, <1>1
    <2> QED
      BY <2>2, <2>3, AnswerToCome, Zenon
  <1>5. CASE s.peer # "open"
    <2>1. t.owed = <<>> /\ t.rx = <<>> /\ t.peer # "open" /\ Len(t.rx) = 0 /\ Len(t.owed) = 0
      BY <1>3, <1>5
    <2>2. \A i \in 1..Len(t.owed) : t.owed[i] = [req |-> n, part |-> i]
      BY <2>1
    <2>3. /\ t.peer = "open" => Len(t.owed) = Chunks
          /\ t.peer # "open" => t.owed = <<>>
          /\ Len(t.rx) = 0 /\ t.rx = <<>> /\ Len(t.owed) \in Nat /\ Len(<<>>) = 0
      BY <2>1, <2>2, <1>1
    <2> QED
      BY <2>2, <2>3, AnswerToCome, Zenon
  <1> QED
    BY <1>4, <1>5

\* The backend sends the next piece of an answer.
LEMMA AnswerComes ==
    ASSUME NEW s \in Socket, NEW r \in Seq(Piece), NEW n, Answering(s, r, n), s.owed # <<>>
    PROVE  LET t == [s EXCEPT !.rx = Append(@, Head(s.owed)), !.owed = Tail(@)]
           IN  Answering(t, r, n)
PROOF
  <1> DEFINE t == [s EXCEPT !.rx = Append(@, Head(s.owed)), !.owed = Tail(@)]
             x == Append(s.rx, Head(s.owed))
             o == Tail(s.owed)
  <1>1. /\ s.rx \in Seq(Piece) /\ s.owed \in Seq(Piece)
        /\ Len(s.rx) \in Nat /\ Len(s.owed) \in Nat /\ Len(r) \in Nat /\ Len(s.owed) > 0
    BY DEF Socket
  <1>2. /\ t.rx = x /\ t.owed = o /\ t.peer = s.peer
    BY DEF Socket
  <1>3. /\ Len(x) = Len(s.rx) + 1 /\ \A i \in 1..Len(s.rx) : x[i] = s.rx[i]
        /\ x[Len(s.rx) + 1] = s.owed[1]
    BY <1>1
  <1>4. /\ Len(o) = Len(s.owed) - 1 /\ \A i \in 1..(Len(s.owed) - 1) : o[i] = s.owed[i + 1]
    BY <1>1
  <1> HIDE DEF t, x, o
  <1>5. /\ \A i \in 1..Len(r) : r[i] = [req |-> n, part |-> i]
        /\ \A i \in 1..Len(s.rx) : s.rx[i] = [req |-> n, part |-> Len(r) + i]
        /\ \A i \in 1..Len(s.owed) : s.owed[i] = [req |-> n, part |-> Len(r) + Len(s.rx) + i]
    BY DEF Answering
  <1>6. s.peer = "open" /\ Len(r) + Len(s.rx) + Len(s.owed) = Chunks
    BY Zenon DEF Answering
  <1>7. \A i \in 1..Len(x) : x[i] = [req |-> n, part |-> Len(r) + i]
    <2> SUFFICES ASSUME NEW i \in 1..Len(x)
                 PROVE  x[i] = [req |-> n, part |-> Len(r) + i]
      OBVIOUS
    <2>1. CASE i \in 1..Len(s.rx)
      BY <2>1, <1>3, <1>5
    <2>2. CASE i = Len(s.rx) + 1
      <3>1. 1 \in 1..Len(s.owed) /\ Len(r) + Len(s.rx) + 1 = Len(r) + i
        BY <2>2, <1>1
      <3> QED
        BY <3>1, <2>2, <1>3, <1>5
    <2> QED
      BY <2>1, <2>2, <1>1, <1>3
  <1>8. \A i \in 1..Len(o) : o[i] = [req |-> n, part |-> Len(r) + Len(x) + i]
    <2> SUFFICES ASSUME NEW i \in 1..Len(o)
                 PROVE  o[i] = [req |-> n, part |-> Len(r) + Len(x) + i]
      OBVIOUS
    <2>1. i + 1 \in 1..Len(s.owed) /\ o[i] = s.owed[i + 1] /\ i \in Nat
      BY <1>1, <1>4
    <2> DEFINE a == Len(r)
               b == Len(s.rx)
    <2>2. a \in Nat /\ b \in Nat /\ Len(x) = b + 1
      BY <1>1, <1>3
    <2>3. s.owed[i + 1] = [req |-> n, part |-> a + b + (i + 1)]
      BY <2>1, <1>5, Zenon
    <2> HIDE DEF a, b
    <2>4. a + b + (i + 1) = a + Len(x) + i
      BY <2>1, <2>2
    <2>5. o[i] = [req |-> n, part |-> a + Len(x) + i]
      BY <2>1, <2>3, <2>4
    <2> QED
      BY <2>5 DEF a
  <1>9. Len(r) + Len(x) + Len(o) = Chunks
    <2>1. /\ Len(x) = Len(s.rx) + 1 /\ Len(o) = Len(s.owed) - 1
          /\ Len(r) + Len(s.rx) + Len(s.owed) = Chunks
      BY <1>3, <1>4, <1>6, Zenon
    <2> DEFINE a == Len(r)
               b == Len(s.rx)
               c == Len(s.owed)
    <2>2. a \in Nat /\ b \in Nat /\ c \in Nat
      BY <1>1
    <2>3. a + b + c = Chunks /\ Len(x) = b + 1 /\ Len(o) = c - 1
      BY <2>1, Zenon
    <2> HIDE DEF a, b, c
    <2>4. a + Len(x) + Len(o) = Chunks
      BY <2>2, <2>3, PieceComes
    <2> QED
      BY <2>4 DEF a
  <1>10. "open" # "reset"
    OBVIOUS
  <1>11. Answering(t, r, n)
    BY <1>2, <1>5, <1>6, <1>7, <1>8, <1>9, <1>10, Zenon DEF Answering
  <1> QED
    BY <1>11 DEF t

\* The backend hangs up within an answer, and what has arrived may be lost.
LEMMA AnswerEnds ==
    ASSUME NEW s \in Socket, NEW r \in Seq(Piece), NEW n, Answering(s, r, n),
           NEW how \in {"eof", "reset"}, s.peer = "open"
    PROVE  LET t == [s EXCEPT !.peer = how, !.owed = <<>>, !.rx = IF how = "reset" THEN <<>> ELSE @]
           IN  Answering(t, r, n) /\ (Quiet(s) => Quiet(t))
PROOF
  <1> DEFINE t == [s EXCEPT !.peer = how, !.owed = <<>>, !.rx = IF how = "reset" THEN <<>> ELSE @]
  <1>1. /\ Len(s.rx) \in Nat /\ Len(s.owed) \in Nat /\ Len(r) \in Nat /\ Chunks \in Nat
    BY PoolAssumption DEF Socket
  <1>2. /\ t.rx = IF how = "reset" THEN <<>> ELSE s.rx
        /\ t.owed = <<>> /\ t.peer = how
    BY DEF Socket
  <1> HIDE DEF t
  <1>3. /\ \A i \in 1..Len(r) : r[i] = [req |-> n, part |-> i]
        /\ \A i \in 1..Len(s.rx) : s.rx[i] = [req |-> n, part |-> Len(r) + i]
        /\ Len(r) + Len(s.rx) + Len(s.owed) = Chunks
    BY Zenon DEF Answering
  <1>4. Len(r) + Len(s.rx) <= Chunks /\ Len(r) + 0 <= Chunks
    <2> DEFINE a == Len(r)
               b == Len(s.rx)
               c == Len(s.owed)
    <2>1. a + b + c = Chunks /\ a \in Nat /\ b \in Nat /\ c \in Nat
      BY <1>1, <1>3, Zenon
    <2> HIDE DEF a, b, c
    <2>2. a + b <= Chunks /\ a + 0 <= Chunks
      BY <1>1, <2>1, PiecesRead
    <2> QED
      BY <2>2 DEF a, b
  <1>5. \A i \in 1..Len(t.owed) : t.owed[i] = [req |-> n, part |-> Len(r) + Len(t.rx) + i]
    BY <1>2
  <1>6. CASE how = "reset"
    <2>1. t.rx = <<>> /\ t.peer = "reset" /\ Len(t.rx) = 0
      BY <1>2, <1>6
    <2>2. \A i \in 1..Len(t.rx) : t.rx[i] = [req |-> n, part |-> Len(r) + i]
      BY <2>1
    <2> QED
      BY <2>1, <2>2, <1>2, <1>3, <1>4, <1>5 DEF Answering, Quiet, t
  <1>7. CASE how = "eof"
    <2>1. t.rx = s.rx /\ t.peer = "eof"
      BY <1>2, <1>7
    <2> QED
      BY <2>1, <1>2, <1>3, <1>4, <1>5 DEF Answering, Quiet, t
  <1> QED
    BY <1>6, <1>7

\* The state of a worker after a step that changes its own place, what it has
\* read and its socket.
LEMMA WorkerMoves ==
    ASSUME LeaseIInv, NEW w \in Workers, stage[w] \in Holding, Frame, req' = req,
           NEW to, stage' = [stage EXCEPT ![w] = to],
           NEW s, conn' = [conn EXCEPT ![lease[w]] = s],
           NEW r, resp' = [resp EXCEPT ![w] = r]
    PROVE  /\ stage'[w] = to /\ conn'[lease'[w]] = s /\ resp'[w] = r /\ req'[w] = req[w]
PROOF
  <1>1. /\ stage \in [Workers -> Stages] /\ resp \in [Workers -> Seq(Piece)]
        /\ conn \in [Conns -> Socket] /\ lease[w] \in Conns /\ lease' = lease
    BY HeldApart DEF LeaseIInv, PoolTypeOK, Stages, Frame
  <1> QED
    BY <1>1

\* send_all() and what may follow it without reading.
LEMMA SendApart ==
    ASSUME LeaseIInv, AnswersApart, NEW w \in Workers,
           send_all(w) \/ send_failed(w) \/ release(w)
    PROVE  AnswersApart'
PROOF
  <1> DEFINE s == conn[lease[w]]
  <1>1. /\ stage[w] \in Holding /\ lease[w] \in Conns /\ Frame /\ req' = req
        /\ \E to \in Holding : stage' = [stage EXCEPT ![w] = to]
        /\ \E t \in Socket : conn' = [conn EXCEPT ![lease[w]] = t]
        /\ \E r \in Seq(Piece) : resp' = [resp EXCEPT ![w] = r]
    BY ExchangeMoves
  <1>2. /\ s \in Socket /\ req[w] \in 1..MaxRequests /\ stage \in [Workers -> Stages] /\ Reading(w)
    <2>1. stage[w] # "ready"
      BY <1>1 DEF Holding
    <2> QED
      BY <2>1, <1>1 DEF LeaseIInv, PoolTypeOK, LeasesHeld, Stages, AnswersApart
  <1>3. CASE send_all(w)
    <2> DEFINE t == [s EXCEPT !.owed = IF s.peer = "open" THEN @ \o Pieces(req[w]) ELSE @]
    <2>1. /\ conn' = [conn EXCEPT ![lease[w]] = t] /\ stage' = [stage EXCEPT ![w] = "recv"]
          /\ resp' = resp /\ stage[w] = "send" /\ s.peer # "reset"
      BY <1>3 DEF send_all, Enter, At
    <2>2. Quiet(s) /\ resp[w] = <<>>
      BY <2>1, <1>2 DEF Reading
    <2>3. Answering(t, <<>>, req[w])
      BY <2>1, <2>2, <1>2, AnswerOwed, Zenon
    <2> HIDE DEF t
    <2>4. stage'[w] = "recv" /\ conn'[lease'[w]] = t /\ resp'[w] = <<>> /\ req'[w] = req[w]
      <3>1. conn \in [Conns -> Socket] /\ lease' = lease
        BY <1>1 DEF LeaseIInv, PoolTypeOK, Frame
      <3> QED
        BY <3>1, <2>1, <2>2, <1>1, <1>2
    <2>5. Len(<<>>) < Chunks
      BY PoolAssumption
    <2>6. Reading(w)'
      BY <2>3, <2>4, <2>5 DEF Reading
    <2> QED
      BY <2>6, <1>1, ExchangeApart, Zenon
  <1>4. CASE send_failed(w) \/ release(w)
    <2>1. /\ UNCHANGED <<conn, lease, resp, req>>
          /\ \/ stage' = [stage EXCEPT ![w] = "evict"]
             \/ stage[w] = "release" /\ stage' = [stage EXCEPT ![w] = "push"]
      BY <1>4 DEF send_failed, release, Enter, At
    <2>2. stage'[w] = "evict" \/ (stage[w] = "release" /\ stage'[w] = "push")
      BY <2>1, <1>2
    <2>3. Reading(w)'
      BY <2>1, <2>2, <1>2 DEF Reading
    <2> QED
      BY <2>3, <1>1, ExchangeApart, Zenon
  <1> QED
    BY <1>3, <1>4

\* recv() returns data.
LEMMA RecvApart ==
    ASSUME ContentLength, LeaseIInv, AnswersApart, NEW w \in Workers, NEW k \in 1..(2 * Chunks), recv_data(w, k)
    PROVE  AnswersApart'
PROOF
  <1> DEFINE s == conn[lease[w]]
             q == resp[w] \o SubSeq(s.rx, 1, k)
             t == [s EXCEPT !.rx = SubSeq(@, k + 1, Len(@))]
             u == IF Complete(q) THEN touch(t) ELSE t
             to == IF Complete(q) THEN "release" ELSE "recv"
  <1>1. /\ stage[w] \in Holding /\ lease[w] \in Conns /\ Frame /\ req' = req
        /\ \E p \in Holding : stage' = [stage EXCEPT ![w] = p]
        /\ \E p \in Socket : conn' = [conn EXCEPT ![lease[w]] = p]
        /\ \E r \in Seq(Piece) : resp' = [resp EXCEPT ![w] = r]
    BY ExchangeMoves
  <1>2. /\ s \in Socket /\ resp[w] \in Seq(Piece) /\ Reading(w)
    BY <1>1 DEF LeaseIInv, PoolTypeOK, AnswersApart
  <1>3. /\ stage[w] = "recv" /\ k \in 1..Len(s.rx) /\ resp' = [resp EXCEPT ![w] = q]
        /\ conn' = [conn EXCEPT ![lease[w]] = u] /\ stage' = [stage EXCEPT ![w] = to]
    BY DEF recv_data, At, Enter
  <1>4. Answering(s, resp[w], req[w])
    BY <1>2, <1>3 DEF Reading
  <1>5. /\ q \in Seq(Piece) /\ t \in Socket /\ Answering(t, q, req[w])
        /\ Complete(q) => Len(q) = Chunks /\ Quiet(t)
        /\ ~Complete(q) => Len(q) < Chunks
    <2> HIDE DEF s
    <2>1. s \in Socket /\ resp[w] \in Seq(Piece) /\ Answering(s, resp[w], req[w]) /\ k \in 1..Len(s.rx)
      BY <1>2, <1>3, <1>4
    <2> QED
      BY <2>1, ReadsOn, Zenon
  <1> HIDE DEF s, q, t
  <1>6. /\ Answering(u, q, req[w]) /\ (Complete(q) => Quiet(u))
    <2>1. (Answering(touch(t), q, req[w]) <=> Answering(t, q, req[w])) /\ (Quiet(touch(t)) <=> Quiet(t))
      BY <1>5, SameAnswer, Zenon
    <2> QED
      BY <2>1, <1>5, Zenon
  <1> HIDE DEF u
  <1>7. stage'[w] = to /\ conn'[lease'[w]] = u /\ resp'[w] = q /\ req'[w] = req[w]
    BY <1>1, <1>3, WorkerMoves, Zenon
  <1>8. Reading(w)'
    <2>1. CASE Complete(q)
      BY <2>1, <1>5, <1>6, <1>7 DEF Reading
    <2>2. CASE ~Complete(q)
      BY <2>2, <1>5, <1>6, <1>7 DEF Reading
    <2> QED
      BY <2>1, <2>2
  <1> QED
    BY <1>1, <1>8, ExchangeApart, Zenon

\* recv_all() leaves its loop without a whole response only when the backend
\* has hung up, or with nothing read.
LEMMA LeaveApart ==
    ASSUME ~Slow, LeaseIInv, AnswersApart, NEW w \in Workers,
           recv_eof(w) \/ recv_error(w) \/ recv_timeout(w)
    PROVE  AnswersApart'
PROOF
  <1> DEFINE s == conn[lease[w]]
  <1>1. /\ stage[w] \in Holding /\ lease[w] \in Conns /\ Frame /\ req' = req
        /\ \E p \in Holding : stage' = [stage EXCEPT ![w] = p]
        /\ \E p \in Socket : conn' = [conn EXCEPT ![lease[w]] = p]
        /\ \E r \in Seq(Piece) : resp' = [resp EXCEPT ![w] = r]
    BY ExchangeMoves
  <1>2. /\ s \in Socket /\ resp[w] \in Seq(Piece) /\ stage \in [Workers -> Stages]
        /\ conn \in [Conns -> Socket] /\ Reading(w) /\ lease' = lease
    BY <1>1 DEF LeaseIInv, PoolTypeOK, AnswersApart, Stages, Frame
  <1>3. stage[w] = "recv"
    BY DEF recv_eof, recv_error, recv_timeout, At
  <1>4. Answering(s, resp[w], req[w]) /\ Len(resp[w]) < Chunks
    BY <1>2, <1>3 DEF Reading
  <1>5. PICK t \in {touch(s), [s EXCEPT !.fd = "closed"]} : Leave(w, t)
    BY DEF recv_eof, recv_error, recv_timeout
  <1>6. resp' = resp
    BY <1>5 DEF Leave
  <1>7. CASE resp[w] = <<>>
    <2>1. stage'[w] = "evict"
      BY <1>2, <1>5, <1>7 DEF Leave, Enter
    <2> QED
      BY <2>1, <1>1, ExchangeApart, Zenon DEF Reading
  <1>8. CASE resp[w] # <<>>
    <2>1. Quiet(s)
      <3>1. CASE recv_eof(w)
        BY <3>1, <1>4 DEF recv_eof, Answering, Quiet
      <3>2. CASE recv_error(w)
        BY <3>2, <1>4 DEF recv_error, Answering, Quiet
      <3>3. CASE recv_timeout(w)
        BY <3>3, <1>8 DEF recv_timeout, Quiet
      <3> QED
        BY <3>1, <3>2, <3>3
    <2>2. Answering(t, resp[w], req[w]) /\ Quiet(t)
      <3> HIDE DEF s
      <3>1. /\ Answering(touch(s), resp[w], req[w]) <=> Answering(s, resp[w], req[w])
            /\ Answering([s EXCEPT !.fd = "closed"], resp[w], req[w]) <=> Answering(s, resp[w], req[w])
            /\ Quiet(touch(s)) <=> Quiet(s)
            /\ Quiet([s EXCEPT !.fd = "closed"]) <=> Quiet(s)
        BY <1>2, SameAnswer
      <3>2. t = touch(s) \/ t = [s EXCEPT !.fd = "closed"]
        OBVIOUS
      <3> QED
        BY <3>1, <3>2, <2>1, <1>4, Zenon
    <2>3. stage'[w] = "release" /\ conn'[lease'[w]] = t
      BY <1>1, <1>2, <1>5, <1>8 DEF Leave, Enter
    <2>4. Reading(w)'
      BY <2>2, <2>3, <1>1, <1>6 DEF Reading
    <2> QED
      BY <2>4, <1>1, ExchangeApart, Zenon
  <1> QED
    BY <1>7, <1>8

\* acquire() hands out a quiet connection.
LEMMA AcquireApart ==
    ASSUME LeaseIInv, AnswersApart, NEW w \in Workers, acquire(w)
    PROVE  AnswersApart'
PROOF
  <1>1. PoolTyped /\ conn \in [Conns -> Socket]
    BY TypeParts DEF LeaseIInv
  <1>2. /\ stage[w] = "ready" /\ req' = [req EXCEPT ![w] = requests + 1] /\ resp' = resp
    BY Acquires
  <1>3. resp'[w] = <<>> /\ \A v \in Workers \ {w} : resp'[v] = resp[v] /\ req'[v] = req[v]
    BY <1>1, <1>2 DEF AnswersApart, Reading, PoolTyped
  <1>4. {w} \in SUBSET Workers
    OBVIOUS
  <1>5. CASE FindsNone(w)
    <2>1. IdleIsQuiet'
      BY <1>5 DEF FindsNone, IdleIsQuiet, Range
    <2>2. ASSUME NEW v \in Workers \ {w}
          PROVE  Untouched(v)
      <3>1. stage'[v] = stage[v] /\ lease'[v] = lease[v]
        BY <1>1, <1>5 DEF FindsNone, PoolTyped
      <3>2. stage[v] \in Holding => conn'[lease[v]] = conn[lease[v]]
        BY <1>5, HeldApart DEF FindsNone
      <3> QED
        BY <3>1, <3>2, <1>3 DEF Untouched
    <2>3. Reading(w)'
      <3>1. stage'[w] = "connect"
        BY <1>1, <1>5 DEF FindsNone, PoolTyped
      <3> QED
        BY <3>1, <1>3 DEF Reading
    <2> QED
      BY <2>1, <2>2, <2>3, <1>4, ApartKept, Zenon
  <1>6. ASSUME NEW i \in DOMAIN idle, NEW dead \in SUBSET Range(idle), Reuses(w, i, dead)
        PROVE  AnswersApart'
    <2>1. /\ idle[i] \in Conns /\ idle[i] \in Range(idle) /\ idle[i] \notin Range(idle')
          /\ Range(idle') \subseteq Range(idle) /\ Range(idle) \subseteq Conns
      <3>1. i \in 1..Len(idle) /\ idle \in Seq(Conns) /\ IsInjective(idle)
        BY <1>1 DEF PoolTyped, LeaseIInv, LeasesExact
      <3>2. idle[i] \in Conns /\ idle[i] \in Range(idle) /\ Range(idle) \subseteq Conns
        BY <3>1 DEF Range
      <3> QED
        BY <3>1, <3>2, <1>6, RestOf DEF Reuses
    <2>2. \A c \in Conns : c \notin dead /\ c # idle[i] => conn'[c] = conn[c]
      BY <1>6 DEF Reuses
    <2>3. IdleIsQuiet'
      BY <2>1, <2>2, <1>6 DEF IdleIsQuiet, AnswersApart, Reuses
    <2>4. ASSUME NEW v \in Workers \ {w}
          PROVE  Untouched(v)
      <3>1. stage'[v] = stage[v] /\ lease'[v] = lease[v]
        BY <1>1, <1>6 DEF Reuses, PoolTyped
      <3>2. stage[v] \in Holding => conn'[lease[v]] = conn[lease[v]]
        BY <2>1, <2>2, HeldApart
      <3> QED
        BY <3>1, <3>2, <1>3 DEF Untouched
    <2>5. Reading(w)'
      <3>1. stage'[w] = "send" /\ lease'[w] = idle[i]
        BY <1>1, <1>6 DEF Reuses, PoolTyped
      <3>2. conn'[idle[i]] = touch(conn[idle[i]])
        BY <2>1, <1>6 DEF Reuses
      <3>3. Quiet(conn[idle[i]]) /\ conn[idle[i]] \in Socket
        BY <2>1, <1>1 DEF AnswersApart, IdleIsQuiet, Quiet
      <3>4. Quiet(touch(conn[idle[i]]))
        BY <3>3, SameAnswer, Zenon
      <3> QED
        BY <3>1, <3>2, <3>4, <1>3 DEF Reading
    <2> QED
      BY <2>3, <2>4, <2>5, <1>4, ApartKept, Zenon
  <1> QED
    BY <1>5, <1>6, Acquires

\* acquire() hands out a new connection, which is quiet.
LEMMA ConnectedApart ==
    ASSUME LeaseIInv, AnswersApart, NEW w \in Workers, NEW c \in Conns, connected(w, c)
    PROVE  AnswersApart'
PROOF
  <1>1. PoolTyped /\ conn \in [Conns -> Socket]
    BY TypeParts DEF LeaseIInv
  <1>2. /\ stage[w] = "connect" /\ c \notin Range(idle) /\ c \notin Leased
        /\ conn' = [conn EXCEPT ![c] = [Dropped EXCEPT !.fd = "open"]]
        /\ lease' = [lease EXCEPT ![w] = c] /\ stage' = [stage EXCEPT ![w] = "send"]
        /\ UNCHANGED <<idle, active_count, req, resp, requests>>
    BY DEF connected, At, Hold, Enter, Free
  <1>3. Range(idle) \subseteq Conns
    BY <1>1 DEF PoolTyped, Range
  <1>4. IdleIsQuiet'
    <2>1. \A x \in Range(idle) : conn'[x] = conn[x]
      BY <1>1, <1>2, <1>3
    <2> QED
      BY <2>1, <1>2 DEF IdleIsQuiet, AnswersApart
  <1>5. ASSUME NEW v \in Workers \ {w}
        PROVE  Untouched(v)
    <2>1. stage'[v] = stage[v] /\ lease'[v] = lease[v]
      BY <1>1, <1>2 DEF PoolTyped
    <2>2. stage[v] \in Holding => lease[v] \in Conns /\ lease[v] # c
      BY <1>2, PoolAssumption, HeldApart DEF Leased
    <2>3. stage[v] \in Holding => conn'[lease[v]] = conn[lease[v]]
      BY <2>2, <1>1, <1>2
    <2> QED
      BY <2>1, <2>3, <1>2 DEF Untouched
  <1>6. Reading(w)'
    <2>1. stage'[w] = "send" /\ lease'[w] = c /\ conn'[c] = [Dropped EXCEPT !.fd = "open"]
      BY <1>1, <1>2 DEF PoolTyped
    <2>2. Quiet([Dropped EXCEPT !.fd = "open"])
      BY DEF Dropped, Quiet
    <2>3. resp'[w] = <<>>
      BY <1>2 DEF AnswersApart, Reading
    <2> QED
      BY <2>1, <2>2, <2>3 DEF Reading
  <1> QED
    <2>1. {w} \in SUBSET Workers
      OBVIOUS
    <2> QED
      BY <2>1, <1>4, <1>5, <1>6, ApartKept, Zenon

\* A forward ends: what it leaves in the queue is quiet.
LEMMA EndApart ==
    ASSUME LeaseIInv, AnswersApart, NEW w \in Workers,
           connect_failed(w) \/ release_push(w) \/ evict(w)
    PROVE  AnswersApart'
PROOF
  <1>1. PoolTyped /\ conn \in [Conns -> Socket]
    BY TypeParts DEF LeaseIInv
  <1>2. /\ stage' = [stage EXCEPT ![w] = "ready"] /\ lease' = [lease EXCEPT ![w] = None]
        /\ req' = [req EXCEPT ![w] = 0] /\ resp' = [resp EXCEPT ![w] = <<>>]
    BY DEF connect_failed, release_push, evict, Return, Enter, Hold
  <1>3. \/ conn' = conn /\ idle' = idle
        \/ stage[w] \in Holding /\ idle' = idle /\ Drop({lease[w]})
        \/ stage[w] = "push" /\ idle' = Append(idle, lease[w]) /\ conn' = conn
    BY DEF connect_failed, release_push, evict, At, Holding
  <1>4. Range(idle) \subseteq Conns /\ idle \in Seq(Conns) /\ IsInjective(idle)
    BY <1>1 DEF PoolTyped, Range, LeaseIInv, LeasesExact
  <1>5. \A c \in Conns : c # lease[w] => conn'[c] = conn[c]
    BY <1>3 DEF Drop
  <1>6. IdleIsQuiet'
    <2>1. CASE stage[w] = "push" /\ idle' = Append(idle, lease[w]) /\ conn' = conn
      <3>1. stage[w] \in Holding
        BY <2>1 DEF Holding
      <3>2. Range(idle') = Range(idle) \cup {lease[w]}
        BY <2>1, <3>1, <1>4, HeldApart, AppendNew
      <3>3. Quiet(conn[lease[w]])
        BY <2>1 DEF AnswersApart, Reading
      <3> QED
        BY <2>1, <3>2, <3>3 DEF IdleIsQuiet, AnswersApart, Quiet
    <2>2. CASE conn' = conn /\ idle' = idle
      BY <2>2 DEF IdleIsQuiet, AnswersApart
    <2>3. CASE stage[w] \in Holding /\ idle' = idle /\ Drop({lease[w]})
      <3>1. \A c \in Range(idle) : conn'[c] = conn[c]
        BY <2>3, <1>4, <1>5, HeldApart
      <3> QED
        BY <2>3, <3>1 DEF IdleIsQuiet, AnswersApart
    <2> QED
      BY <2>1, <2>2, <2>3, <1>3
  <1>7. ASSUME NEW v \in Workers \ {w}
        PROVE  Untouched(v)
    <2>1. stage'[v] = stage[v] /\ lease'[v] = lease[v] /\ req'[v] = req[v] /\ resp'[v] = resp[v]
      BY <1>1, <1>2 DEF PoolTyped
    <2>2. stage[v] \in Holding => conn'[lease[v]] = conn[lease[v]]
      BY <1>5, HeldApart
    <2> QED
      BY <2>1, <2>2 DEF Untouched
  <1>8. Reading(w)'
    <2>1. stage'[w] = "ready" /\ resp'[w] = <<>>
      BY <1>1, <1>2 DEF PoolTyped
    <2> QED
      BY <2>1 DEF Reading
  <1> QED
    <2>1. {w} \in SUBSET Workers
      OBVIOUS
    <2> QED
      BY <2>1, <1>6, <1>7, <1>8, ApartKept, Zenon

\* cleanup_idle() and warm_up() keep the queue quiet and touch no worker.
LEMMA OthersApart ==
    ASSUME LeaseIInv, AnswersApart, cleanup_idle \/ \E c \in Conns : warm_up(c)
    PROVE  AnswersApart'
PROOF
  <1>1. PoolTyped /\ conn \in [Conns -> Socket]
    BY TypeParts DEF LeaseIInv
  <1>2. Range(idle) \subseteq Conns /\ idle \in Seq(Conns) /\ IsInjective(idle)
    BY <1>1 DEF PoolTyped, Range, LeaseIInv, LeasesExact
  <1>3. UNCHANGED worker
    BY DEF cleanup_idle, warm_up
  <1>4. /\ IdleIsQuiet'
        /\ \A v \in Workers : stage[v] \in Holding => conn'[lease[v]] = conn[lease[v]]
    <2>1. CASE cleanup_idle
      <3>1. PICK old \in SUBSET Range(idle) : Range(idle') \subseteq Range(idle) \ old /\ Drop(old)
        BY <2>1, CleanupTakes
      <3>2. \A c \in Conns : c \notin old => conn'[c] = conn[c]
        BY <3>1 DEF Drop
      <3>3. IdleIsQuiet'
        BY <3>1, <3>2, <1>2 DEF IdleIsQuiet, AnswersApart
      <3>4. \A v \in Workers : stage[v] \in Holding => conn'[lease[v]] = conn[lease[v]]
        BY <3>2, HeldApart
      <3> QED
        BY <3>3, <3>4
    <2>2. ASSUME NEW c \in Conns, warm_up(c)
          PROVE  /\ IdleIsQuiet'
                 /\ \A v \in Workers : stage[v] \in Holding => conn'[lease[v]] = conn[lease[v]]
      <3>1. /\ c \notin Range(idle) /\ c \notin Leased /\ idle' = Append(idle, c)
            /\ conn' = [conn EXCEPT ![c] = [Dropped EXCEPT !.fd = "open"]]
        BY <2>2 DEF warm_up, Free
      <3>2. /\ conn'[c] = [Dropped EXCEPT !.fd = "open"]
            /\ \A x \in Conns : x # c => conn'[x] = conn[x]
        BY <3>1, <1>1
      <3>3. Range(idle') = Range(idle) \cup {c}
        BY <3>1, <1>2, AppendNew
      <3>4. conn'[c].rx = <<>> /\ conn'[c].owed = <<>>
        BY <3>2 DEF Dropped
      <3>5. \A x \in Range(idle) : conn'[x] = conn[x]
        BY <3>1, <3>2, <1>2
      <3>6. IdleIsQuiet'
        BY <3>3, <3>4, <3>5 DEF IdleIsQuiet, AnswersApart
      <3>7. \A v \in Workers : stage[v] \in Holding => lease[v] \in Conns /\ lease[v] # c
        BY <3>1, PoolAssumption, HeldApart DEF Leased
      <3> QED
        BY <3>2, <3>6, <3>7
    <2> QED
      BY <2>1, <2>2
  <1>5. \A v \in Workers : Untouched(v)
    BY <1>3, <1>4 DEF Untouched, worker
  <1> QED
    <2>1. {} \in SUBSET Workers /\ \A v \in {} : Reading(v)'
      OBVIOUS
    <2> QED
      BY <2>1, <1>4, <1>5, ApartKept, Zenon

\* What the backend does, or time, to one connection.
LEMMA PeerApart ==
    ASSUME LeaseIInv, AnswersApart, NEW c \in Conns, NEW t,
           UNCHANGED <<idle, active_count, worker, requests>>, conn' = [conn EXCEPT ![c] = t],
           Quiet(conn[c]) => Quiet(t),
           \A v \in Workers : stage[v] \in {"recv", "release"} /\ lease[v] = c
                                  => Answering(t, resp[v], req[v])
    PROVE  AnswersApart'
PROOF
  <1>1. PoolTyped /\ conn \in [Conns -> Socket]
    BY TypeParts DEF LeaseIInv
  <1>2. Range(idle) \subseteq Conns
    BY <1>1 DEF PoolTyped, Range
  <1>3. conn'[c] = t /\ \A x \in Conns : x # c => conn'[x] = conn[x]
    BY <1>1
  <1>4. IdleIsQuiet'
    <2>1. \A x \in Range(idle) : Quiet(conn[x]) => Quiet(conn'[x])
      BY <1>2, <1>3
    <2> QED
      BY <2>1 DEF IdleIsQuiet, AnswersApart, Quiet
  <1>5. stage' = stage /\ lease' = lease /\ resp' = resp /\ req' = req
    BY DEF worker
  <1> DEFINE W == {v \in Workers : stage[v] \in Holding /\ lease[v] = c}
  <1>6. ASSUME NEW v \in Workers \ W
        PROVE  Untouched(v)
    <2>1. stage[v] \in Holding => lease[v] \in Conns /\ lease[v] # c
      BY HeldApart
    <2> QED
      BY <2>1, <1>3, <1>5 DEF Untouched
  <1>7. ASSUME NEW v \in W
        PROVE  Reading(v)'
    <2>1. Reading(v) /\ lease[v] = c
      BY DEF AnswersApart
    <2> QED
      BY <2>1, <1>3, <1>5 DEF Reading
  <1>8. W \in SUBSET Workers
    OBVIOUS
  <1> HIDE DEF W
  <1> QED
    BY <1>4, <1>6, <1>7, <1>8, ApartKept

\* The backend sends, hangs up, or an idle connection grows old.
LEMMA BackendApart ==
    ASSUME LeaseIInv, AnswersApart, NEW c \in Conns,
           Ages(c) \/ BackendSends(c) \/ \E how \in {"eof", "reset"} : BackendLeaves(c, how)
    PROVE  AnswersApart'
PROOF
  <1> DEFINE s == conn[c]
  <1>1. s \in Socket /\ resp \in [Workers -> Seq(Piece)]
    BY DEF LeaseIInv, PoolTypeOK
  <1>2. UNCHANGED <<idle, active_count, worker, requests>>
    BY PeerMoves
  <1>3. \A v \in Workers : stage[v] \in {"recv", "release"} /\ lease[v] = c
                              => Answering(s, resp[v], req[v])
    BY DEF AnswersApart, Reading
  <1>4. CASE Ages(c)
    <2> DEFINE t == [s EXCEPT !.old = TRUE]
    <2>1. conn' = [conn EXCEPT ![c] = t] /\ c \in Range(idle)
      BY <1>4 DEF Ages
    <2>2. t.rx = s.rx /\ t.owed = s.owed
      BY <1>1 DEF Socket
    <2>3. Quiet(s) => Quiet(t)
      BY <2>2 DEF Quiet
    <2>4. \A v \in Workers : stage[v] \in {"recv", "release"} => lease[v] # c
      BY <2>1, HeldApart DEF Holding
    <2> HIDE DEF t
    <2> QED
      BY <2>1, <2>3, <2>4, <1>2, PeerApart, Zenon
  <1>5. CASE BackendSends(c)
    <2> DEFINE t == [s EXCEPT !.rx = Append(@, Head(s.owed)), !.owed = Tail(@)]
    <2>1. conn' = [conn EXCEPT ![c] = t] /\ s.owed # <<>>
      BY <1>5, Zenon DEF BackendSends, LeaseIInv, PoolTypeOK
    <2>2. ~Quiet(s)
      BY <2>1 DEF Quiet
    <2>3. ASSUME NEW v \in Workers, Answering(s, resp[v], req[v])
          PROVE  Answering(t, resp[v], req[v])
      <3> HIDE DEF s
      <3>1. resp[v] \in Seq(Piece)
        BY <1>1
      <3> QED
        BY <3>1, <2>1, <2>3, <1>1, AnswerComes, Zenon
    <2> HIDE DEF t
    <2> QED
      BY <2>1, <2>2, <2>3, <1>2, <1>3, PeerApart, Zenon
  <1>6. ASSUME NEW how \in {"eof", "reset"}, BackendLeaves(c, how)
        PROVE  AnswersApart'
    <2> DEFINE t == [s EXCEPT !.peer = how, !.owed = <<>>, !.rx = IF how = "reset" THEN <<>> ELSE @]
    <2>1. conn' = [conn EXCEPT ![c] = t] /\ s.peer = "open"
      BY <1>6, Zenon DEF BackendLeaves, LeaseIInv, PoolTypeOK
    <2>2. Quiet(s) => Quiet(t)
      BY <1>1 DEF Quiet, Socket
    <2>3. ASSUME NEW v \in Workers, Answering(s, resp[v], req[v])
          PROVE  Answering(t, resp[v], req[v])
      <3> HIDE DEF s
      <3>1. resp[v] \in Seq(Piece)
        BY <1>1
      <3> QED
        BY <3>1, <2>1, <2>3, <1>1, AnswerEnds, Zenon
    <2> HIDE DEF t
    <2> QED
      BY <2>1, <2>2, <2>3, <1>2, <1>3, PeerApart, Zenon
  <1> QED
    BY <1>4, <1>5, <1>6

\* With Content-Length, and a backend that does not pause within a response
\* for longer than the short timeout, answers stay apart.
LEMMA NextAnswers ==
    ASSUME ContentLength, ~Slow
    PROVE  LeaseIInv /\ AnswersApart /\ [ForwardNext]_forward_vars => AnswersApart'
PROOF
  <1> SUFFICES ASSUME LeaseIInv, AnswersApart, [ForwardNext]_forward_vars
               PROVE  AnswersApart'
    OBVIOUS
  <1>1. ASSUME NEW w \in Workers, forward_pooled(w)
        PROVE  AnswersApart'
    BY <1>1, AcquireApart, EndApart, ConnectedApart, SendApart, RecvApart, LeaveApart
       DEF forward_pooled
  <1>2. CASE cleanup_idle \/ \E c \in Conns : warm_up(c)
    BY <1>2, OthersApart
  <1>3. ASSUME NEW c \in Conns,
               Ages(c) \/ BackendSends(c) \/ \E how \in {"eof", "reset"} : BackendLeaves(c, how)
        PROVE  AnswersApart'
    BY <1>3, BackendApart
  <1>4. CASE UNCHANGED forward_vars
    <2>1. idle' = idle /\ conn' = conn /\ UNCHANGED worker
      BY <1>4 DEF forward_vars
    <2> QED
      BY <2>1 DEF AnswersApart, IdleIsQuiet, Reading, worker
  <1> QED
    BY <1>1, <1>2, <1>3, <1>4 DEF ForwardNext

\* At first nobody reads and nothing is idle.
LEMMA InitAnswers == ForwardInit => AnswersApart
PROOF
  BY DEF ForwardInit, AnswersApart, IdleIsQuiet, Reading, Range

\* Answers that are kept apart are whole when they are returned.
LEMMA ApartIsWhole == LeaseIInv /\ AnswersApart => WholeAnswer /\ IdleIsQuiet
PROOF
  <1> SUFFICES ASSUME LeaseIInv, AnswersApart
               PROVE  WholeAnswer /\ IdleIsQuiet
    OBVIOUS
  <1>1. ASSUME NEW w \in Workers, stage[w] = "release"
        PROVE  /\ resp[w] = SubSeq(Pieces(req[w]), 1, Len(resp[w]))
               /\ conn[lease[w]].peer = "open" => resp[w] = Pieces(req[w])
    <2> DEFINE s == conn[lease[w]]
               r == resp[w]
               n == req[w]
    <2>1. Quiet(s) /\ Answering(s, r, n)
      BY <1>1 DEF AnswersApart, Reading
    <2>2. r \in Seq(Piece) /\ n \in 1..MaxRequests /\ Chunks \in Nat
      BY <1>1, PoolAssumption DEF LeaseIInv, PoolTypeOK, LeasesHeld
    <2>3. /\ Pieces(n) \in Seq(Piece) /\ Len(Pieces(n)) = Chunks
          /\ \A i \in 1..Chunks : Pieces(n)[i] = [req |-> n, part |-> i]
      BY <2>2, PiecesTyped DEF Pieces
    <2> HIDE DEF s, r, n
    <2>4. /\ \A i \in 1..Len(r) : r[i] = [req |-> n, part |-> i]
          /\ s.peer = "open" => Len(r) + Len(s.rx) + Len(s.owed) = Chunks
          /\ s.peer # "open" => Len(r) + Len(s.rx) <= Chunks
      BY <2>1, Zenon DEF Answering
    <2>5. Len(s.rx) = 0 /\ Len(s.owed) = 0
      BY <2>1 DEF Quiet
    <2>6. Len(r) <= Chunks /\ (s.peer = "open" => Len(r) = Chunks) /\ Len(r) \in Nat
      BY <2>2, <2>4, <2>5
    <2>7. r = SubSeq(Pieces(n), 1, Len(r))
      <3> DEFINE p == SubSeq(Pieces(n), 1, Len(r))
      <3>1. p \in Seq(Piece) /\ Len(p) = Len(r) /\ \A i \in 1..Len(r) : p[i] = Pieces(n)[i]
        BY <2>2, <2>3, <2>6
      <3> HIDE DEF p
      <3>2. \A i \in 1..Len(r) : p[i] = r[i]
        BY <3>1, <2>3, <2>4, <2>6
      <3>3. p = r
        BY <3>1, <3>2, <2>2
      <3> QED
        BY <3>3 DEF p
    <2>8. ASSUME s.peer = "open"
          PROVE  r = Pieces(n)
      <3>1. \A i \in 1..Chunks : r[i] = Pieces(n)[i]
        BY <2>3, <2>4, <2>6, <2>8
      <3> QED
        BY <3>1, <2>2, <2>3, <2>6, <2>8
    <2> QED
      BY <2>7, <2>8 DEF r, s, n
  <1> QED
    BY <1>1 DEF WholeAnswer, AnswersApart

\* With Content-Length, and a backend that does not pause within a response
\* for longer than the short timeout, recv_all() returns the response to the
\* request that was sent, and the whole of it unless the backend hung up.
THEOREM AnswersAreWhole ==
    ASSUME ContentLength, ~Slow
    PROVE  ForwardSpec => []WholeAnswer
PROOF
  BY InitLease, NextLease, InitAnswers, NextAnswers, ApartIsWhole, PTL DEF ForwardSpec

\* Under the same conditions nothing is left to read on an idle connection.
THEOREM IdleStaysQuiet ==
    ASSUME ContentLength, ~Slow
    PROVE  ForwardSpec => []IdleIsQuiet
PROOF
  BY InitLease, NextLease, InitAnswers, NextAnswers, ApartIsWhole, PTL DEF ForwardSpec
=============================================================================
