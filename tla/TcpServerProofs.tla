-------------------------- MODULE TcpServerProofs --------------------------
(***************************************************************************)
(* What TcpServer promises, for any number of IO threads and connections.  *)
(***************************************************************************)
EXTENDS TcpServer, SequenceTheorems, TLAPS

(* The tasks of each loop, swapped out or not, in their order.             *)
Queue == [l \in Loops |-> batch[l] \o pending[l]]

In(q, l, t) == \E i \in 1 .. Len(q[l]) : q[l][i] = t

(* No two tasks are for the same connection.                               *)
Unique(q) == \A l, m \in Loops : \A i \in 1 .. Len(q[l]), j \in 1 .. Len(q[m]) :
    q[l][i].c = q[m][j].c => l = m /\ i = j

(* No task is for connection c.                                            *)
Idle(q, c) == \A l \in Loops, t \in Functors : In(q, l, t) => t.c # c

Plus(q, l, t) == [q EXCEPT ![l] = Append(@, t)]
Minus(q, l) == [q EXCEPT ![l] = Tail(@)]

(* Where each task waits, and what its connection has come to.             *)
Settled(l, t) ==
    /\ t.f = "ConnectEstablished" => l = loop_[t.c] /\ state_[t.c] = "kConnecting"
    /\ t.f = "RemoveConnectionInLoop" =>
          l = Base /\ state_[t.c] = "kDisconnected" /\ t.c \in connections_
    /\ t.f = "ConnectDestroyed" => l = loop_[t.c] /\ state_[t.c] = "kDisconnected"

TaskInv == \A l \in Loops, t \in Functors : In(Queue, l, t) => Settled(l, t)

LoopInv ==
    /\ \A l \in Loops : pc[l] # "functors" => batch[l] = <<>>
    /\ \A l \in Loops : pc[l] # "events" => active[l] = {}
    /\ \A l \in Loops : Acceptor \in active[l] => l = Base /\ next_conn_id_ < MaxConns
    /\ server \in {"destroying", "destroyed"} <=> pc[Base] = "stopped"
    /\ server = "destroyed" => connections_ = {}
    /\ num_threads_ = 0 /\ pc[Base] # "events" =>
          \A i \in 1 .. Len(pending[Base]) : pending[Base][i].f # "RemoveConnectionInLoop"

(* The life of a connection.  Only a destructor without IO threads takes a *)
(* connection out of the map before it was established.                    *)
ConnInv == \A c \in Conns :
    /\ state_[c] = "none" <=> c > next_conn_id_
    /\ state_[c] # "none" => (loop_[c] = Base <=> num_threads_ = 0)
    /\ c \in registered <=> state_[c] = "kConnected"
    /\ \A l \in Loops : c \in active[l] => state_[c] = "kConnected" /\ loop_[c] = l
    /\ c \in connections_ => state_[c] # "none"
    /\ state_[c] = "kConnected" => c \in connections_
    /\ state_[c] = "kConnecting" =>
          c \in connections_ \/ (pc[Base] = "stopped" /\ num_threads_ = 0)
    /\ ups[c] = IF state_[c] \in {"none", "kConnecting"} THEN 0 ELSE 1
    /\ downs[c] = IF state_[c] = "kDisconnected" THEN 1 ELSE 0

(* What remains when the destructor has aborted the process.               *)
AbortInv ==
    /\ num_threads_ > 0 /\ pc[Base] = "stopped"
    /\ \A c \in Conns :
        /\ c \in registered => c \in connections_
        /\ \A l \in Loops : c \in active[l] => c \in connections_
        /\ In(Queue, Base, [f |-> "RemoveConnectionInLoop", c |-> c]) => c \in connections_
        /\ downs[c] <= ups[c] /\ ups[c] <= 1
        /\ c \notin connections_ => ups[c] = downs[c]

ServerInv ==
    /\ TypeOK /\ Unique(Queue)
    /\ IF server = "aborted" THEN AbortInv ELSE LoopInv /\ TaskInv /\ ConnInv

-----------------------------------------------------------------------------
(* Queues of tasks: the next task is taken out, a task is appended.        *)
LEMMA TaskTaken ==
    ASSUME NEW q \in [Loops -> Seq(Functors)], Unique(q), NEW l \in Loops, q[l] # <<>>
    PROVE  /\ Minus(q, l) \in [Loops -> Seq(Functors)] /\ Unique(Minus(q, l))
           /\ Head(q[l]) \in Functors /\ In(q, l, Head(q[l]))
           /\ \A m \in Loops, u \in Functors : In(Minus(q, l), m, u) => In(q, m, u)
           /\ Idle(Minus(q, l), Head(q[l]).c)
<1> DEFINE r == Minus(q, l)
<1>1. /\ Head(q[l]) \in Functors /\ Head(q[l]) = q[l][1] /\ Len(q[l]) \in Nat \ {0}
      /\ Tail(q[l]) \in Seq(Functors) /\ Len(Tail(q[l])) = Len(q[l]) - 1
      /\ \A i \in 1 .. Len(Tail(q[l])) : Tail(q[l])[i] = q[l][i + 1]
  BY HeadTailProperties, EmptySeq, LenProperties
<1>2. r \in [Loops -> Seq(Functors)]
  BY Zenon, <1>1 DEF Minus
<1>3. \A m \in Loops : \A i \in 1 .. Len(r[m]) :
         LET k == IF m = l THEN i + 1 ELSE i
         IN  k \in 1 .. Len(q[m]) /\ r[m][i] = q[m][k] /\ (m = l => k # 1)
  BY <1>1 DEF Minus
<1> HIDE DEF r
<1>4. Unique(r)
  <2> SUFFICES ASSUME NEW m \in Loops, NEW n \in Loops, NEW i \in 1 .. Len(r[m]),
                      NEW j \in 1 .. Len(r[n]), r[m][i].c = r[n][j].c
               PROVE  m = n /\ i = j
    BY Zenon DEF Unique
  <2>1. PICK k \in 1 .. Len(q[m]) : r[m][i] = q[m][k] /\ k = IF m = l THEN i + 1 ELSE i
    BY Zenon, <1>3
  <2>2. PICK h \in 1 .. Len(q[n]) : r[n][j] = q[n][h] /\ h = IF n = l THEN j + 1 ELSE j
    BY Zenon, <1>3
  <2>3. m = n /\ k = h
    BY SMTT(30), <2>1, <2>2 DEF Unique
  <2>4. Len(r[m]) \in Nat /\ Len(r[n]) \in Nat
    BY Zenon, <1>2, LenProperties
  <2> QED
    BY <2>1, <2>2, <2>3, <2>4
<1>5. In(q, l, Head(q[l]))
  BY <1>1 DEF In
<1>6. ASSUME NEW m \in Loops, NEW u \in Functors, In(r, m, u)
      PROVE  In(q, m, u) /\ u.c # Head(q[l]).c
  <2>1. PICK i \in 1 .. Len(r[m]) : r[m][i] = u
    BY Zenon, <1>6 DEF In
  <2>2. PICK k \in 1 .. Len(q[m]) : u = q[m][k] /\ (m = l => k # 1)
    BY Zenon, <1>3, <2>1
  <2>3. 1 \in 1 .. Len(q[l])
    BY <1>1
  <2>4. u.c = q[l][1].c => m = l /\ k = 1
    BY <2>2, <2>3 DEF Unique
  <2> QED
    BY Zenon, <1>1, <2>2, <2>4 DEF In
<1> QED
  BY Zenon, <1>1, <1>2, <1>4, <1>5, <1>6 DEF r, Idle

LEMMA TaskAppended ==
    ASSUME NEW q \in [Loops -> Seq(Functors)], Unique(q), NEW l \in Loops, NEW t \in Functors,
           Idle(q, t.c)
    PROVE  /\ Plus(q, l, t) \in [Loops -> Seq(Functors)] /\ Unique(Plus(q, l, t))
           /\ \A m \in Loops, u \in Functors :
                 In(Plus(q, l, t), m, u) => In(q, m, u) \/ (m = l /\ u = t)
<1> DEFINE r == Plus(q, l, t)
<1>1. /\ Append(q[l], t) \in Seq(Functors) /\ Len(q[l]) \in Nat
      /\ Len(Append(q[l], t)) = Len(q[l]) + 1
      /\ \A i \in 1 .. Len(q[l]) : Append(q[l], t)[i] = q[l][i]
      /\ Append(q[l], t)[Len(q[l]) + 1] = t
  BY AppendProperties, LenProperties
<1>2. r \in [Loops -> Seq(Functors)]
  BY Zenon, <1>1 DEF Plus
<1>3. ASSUME NEW m \in Loops, NEW i \in 1 .. Len(r[m])
      PROVE  \/ i \in 1 .. Len(q[m]) /\ r[m][i] = q[m][i] /\ q[m][i] \in Functors
             \/ m = l /\ i = Len(q[l]) + 1 /\ r[m][i] = t
  <2>1. CASE m = l
    <3>1. i \in 1 .. Len(q[l]) \/ i = Len(q[l]) + 1
      BY <1>1, <1>3, <2>1 DEF Plus
    <3> QED
      BY Zenon, <1>1, <2>1, <3>1, ElementOfSeq DEF Plus
  <2>2. CASE m # l
    BY Zenon, <2>2, ElementOfSeq DEF Plus
  <2> QED
    BY Zenon, <2>1, <2>2
<1>4. \A m \in Loops : \A i \in 1 .. Len(q[m]) : q[m][i].c # t.c
  BY Zenon, ElementOfSeq DEF In, Idle
<1> HIDE DEF r
<1>5. Unique(r)
  <2> SUFFICES ASSUME NEW m \in Loops, NEW n \in Loops, NEW i \in 1 .. Len(r[m]),
                      NEW j \in 1 .. Len(r[n]), r[m][i].c = r[n][j].c
               PROVE  m = n /\ i = j
    BY Zenon DEF Unique
  <2> QED
    <3>1. CASE /\ i \in 1 .. Len(q[m]) /\ r[m][i] = q[m][i]
               /\ j \in 1 .. Len(q[n]) /\ r[n][j] = q[n][j]
      <4>1. q[m][i].c = q[n][j].c
        BY Zenon, <3>1
      <4> QED
        BY <3>1, <4>1 DEF Unique
    <3>2. CASE /\ m = l /\ i = Len(q[l]) + 1 /\ r[m][i] = t
               /\ n = l /\ j = Len(q[l]) + 1 /\ r[n][j] = t
      BY Zenon, <3>2
    <3>3. CASE i \in 1 .. Len(q[m]) /\ r[m][i] = q[m][i] /\ r[n][j] = t
      BY Zenon, <1>4, <3>3
    <3>4. CASE j \in 1 .. Len(q[n]) /\ r[n][j] = q[n][j] /\ r[m][i] = t
      BY Zenon, <1>4, <3>4
    <3> QED
      BY Zenon, <1>3, <3>1, <3>2, <3>3, <3>4
<1>6. \A m \in Loops, u \in Functors : In(r, m, u) => In(q, m, u) \/ (m = l /\ u = t)
  BY Zenon, <1>3 DEF In
<1> QED
  BY Zenon, <1>2, <1>5, <1>6 DEF r

(* What the steps do to the queues.                                        *)
LEMMA QueueTyped == TypeOK => Queue \in [Loops -> Seq(Functors)]
BY DEF TypeOK, Queue

LEMMA QueueGrows ==
    ASSUME TypeOK, NEW l \in Loops, NEW f, NEW c \in Conns, [f |-> f, c |-> c] \in Functors,
           QueueInLoop(l, f, c), batch' \in [Loops -> Seq(Functors)],
           NEW q, q = [m \in Loops |-> batch'[m] \o pending[m]]
    PROVE  /\ Queue' = Plus(q, l, [f |-> f, c |-> c])
           /\ pending' \in [Loops -> Seq(Functors)]
<1> DEFINE t == [f |-> f, c |-> c]
<1> HIDE DEF t
<1>1. t \in Functors /\ pending' = [pending EXCEPT ![l] = Append(@, t)]
  BY Zenon DEF QueueInLoop, t
<1>2. pending' \in [Loops -> Seq(Functors)]
  BY <1>1 DEF TypeOK, t
<1>3. \A m \in Loops : batch'[m] \o pending'[m] =
         IF m = l THEN Append(batch'[l] \o pending[l], t) ELSE batch'[m] \o pending[m]
  <2>1. batch'[l] \o Append(pending[l], t) = Append(batch'[l] \o pending[l], t)
    <3>1. \A a, b \in Seq(Functors) : a \o Append(b, t) = Append(a \o b, t)
      BY <1>1
    <3> QED
      BY Zenon, <3>1 DEF TypeOK
  <2> QED
    BY Zenon, <1>1, <2>1 DEF TypeOK
<1>4. Queue' = Plus(q, l, t)
  BY Zenon, <1>3 DEF Queue, Plus
<1> QED
  BY Zenon, <1>2, <1>4 DEF t

LEMMA QueueSwapped ==
    ASSUME TypeOK, NEW l \in Loops, batch[l] = <<>>,
           batch' = [batch EXCEPT ![l] = pending[l]], pending' = [pending EXCEPT ![l] = <<>>]
    PROVE  Queue' = Queue
<1>1. <<>> \o pending[l] = pending[l] /\ pending[l] \o <<>> = pending[l]
  BY Zenon, ConcatEmptySeq DEF TypeOK
<1> QED
  BY Zenon, <1>1 DEF Queue, TypeOK

LEMMA QueueTaken ==
    ASSUME TypeOK, NEW l \in Loops, batch[l] # <<>>, batch' = [batch EXCEPT ![l] = Tail(@)]
    PROVE  /\ Queue[l] # <<>> /\ Head(Queue[l]) = Head(batch[l])
           /\ batch' \in [Loops -> Seq(Functors)]
           /\ [m \in Loops |-> batch'[m] \o pending[m]] = Minus(Queue, l)
<1>1. /\ batch[l] \o pending[l] # <<>>
      /\ Head(batch[l] \o pending[l]) = Head(batch[l])
      /\ Tail(batch[l] \o pending[l]) = Tail(batch[l]) \o pending[l]
  BY SMTT(30) DEF TypeOK
<1>2. batch' \in [Loops -> Seq(Functors)]
  BY DEF TypeOK
<1> QED
  BY Zenon, <1>1, <1>2 DEF Queue, TypeOK, Minus

-----------------------------------------------------------------------------
Good == TypeOK /\ Unique(Queue) /\ LoopInv /\ TaskInv /\ ConnInv

LEMMA LoopsAndConns ==
    /\ Base \in Loops /\ Loops \subseteq Nat /\ Conns \subseteq Nat \ {0} /\ Acceptor \notin Conns
BY ServerAssumption DEF Base, Loops, Conns, Acceptor

LEMMA GoodInit == Init => Good /\ server # "aborted"
<1> SUFFICES ASSUME Init PROVE Good /\ server # "aborted"
  OBVIOUS
<1>1. TypeOK
  BY LoopsAndConns, ServerAssumption DEF Init, TypeOK
<1>2. Queue = [l \in Loops |-> <<>>]
  BY DEF Init, Queue
<1>3. Unique(Queue) /\ TaskInv
  BY <1>2 DEF Unique, TaskInv, In
<1>4. LoopInv
  BY LoopsAndConns DEF Init, LoopInv
<1>5. ConnInv
  BY LoopsAndConns DEF Init, ConnInv
<1> QED
  BY Zenon, <1>1, <1>3, <1>4, <1>5 DEF Good, Init

(* A step that changes no task keeps what is said of tasks, if it leaves   *)
(* their connections as they are.                                          *)
LEMMA TasksUntouched ==
    ASSUME Good, Queue' = Queue,
           \A t \in Functors, l \in Loops : In(Queue, l, t) =>
              /\ loop_'[t.c] = loop_[t.c] /\ state_'[t.c] = state_[t.c]
              /\ t.f = "RemoveConnectionInLoop" /\ t.c \in connections_ => t.c \in connections_'
    PROVE  Unique(Queue)' /\ TaskInv'
<1>1. Unique(Queue)'
  BY DEF Good, Unique
<1>2. \A l \in Loops, t \in Functors : In(Queue, l, t)' => In(Queue, l, t)
  BY Zenon DEF In
<1>3. TaskInv'
  BY <1>2 DEF Good, TaskInv, Settled
<1> QED
  BY Zenon, <1>1, <1>3

(* A task is queued for a connection that had none.                        *)
LEMMA TaskQueued ==
    ASSUME Good, NEW l \in Loops, NEW t \in Functors, Idle(Queue, t.c), Queue' = Plus(Queue, l, t)
    PROVE  /\ Unique(Queue)'
           /\ \A m \in Loops, u \in Functors :
                 In(Queue, m, u)' => In(Queue, m, u) \/ (m = l /\ u = t)
<1>1. Queue \in [Loops -> Seq(Functors)] /\ Unique(Queue)
  BY Zenon, QueueTyped DEF Good
<1>2. /\ Unique(Queue')
      /\ \A m \in Loops, u \in Functors : In(Queue', m, u) => In(Queue, m, u) \/ (m = l /\ u = t)
  BY Zenon, <1>1, TaskAppended
<1>3. \A m \in Loops, u \in Functors : In(Queue, m, u)' <=> In(Queue', m, u)
  BY Zenon DEF In
<1> QED
  BY Zenon, <1>2, <1>3 DEF Unique

(* A step on connection c leaves the tasks of the others as they are.      *)
LEMMA OtherTasks ==
    ASSUME Good, NEW c \in Conns,
           \A d \in Conns \ {c} : /\ loop_'[d] = loop_[d] /\ state_'[d] = state_[d]
                                  /\ d \in connections_ => d \in connections_',
           NEW l \in Loops, NEW t \in Functors, In(Queue, l, t), t.c # c
    PROVE  Settled(l, t)'
<1>1. t.c \in Conns
  BY Zenon DEF Functors
<1>2. Settled(l, t)
  BY Zenon DEF Good, TaskInv
<1>3. /\ loop_'[t.c] = loop_[t.c] /\ state_'[t.c] = state_[t.c]
      /\ t.c \in connections_ => t.c \in connections_'
  BY Zenon, <1>1
<1> QED
  BY Zenon, <1>2, <1>3 DEF Settled

LEMMA GoodPoll == ASSUME Good, NEW l \in Loops, Poll(l) PROVE Good'
<1>1. PICK clients \in SUBSET Clients(l) :
         active' = [active EXCEPT ![l] = HungUp(l) \cup clients]
  BY Zenon DEF Poll
<1>2. /\ pc[l] = "poll" /\ pc' = [pc EXCEPT ![l] = "events"]
      /\ UNCHANGED <<num_threads_, next_conn_id_, next_, connections_, server, conns, hungup,
                     pending, batch>>
  BY Zenon DEF Poll
<1>3. /\ HungUp(l) \cup clients \subseteq Conns \cup {Acceptor}
      /\ Acceptor \in HungUp(l) \cup clients => l = Base /\ next_conn_id_ < MaxConns
      /\ \A c \in Conns : c \in HungUp(l) \cup clients => c \in registered /\ loop_[c] = l
  BY Zenon, LoopsAndConns DEF HungUp, Clients, Good, TypeOK
<1>4. TypeOK'
  BY Zenon, <1>1, <1>2, <1>3 DEF Good, TypeOK, conns
<1>5. Unique(Queue)' /\ TaskInv'
  <2>1. Queue' = Queue
    BY Zenon, <1>2 DEF Queue
  <2> QED
    BY Zenon, <1>2, <2>1, TasksUntouched DEF conns
<1>6. LoopInv'
  BY <1>1, <1>2, <1>3 DEF Good, TypeOK, LoopInv
<1>7. ConnInv'
  BY <1>1, <1>2, <1>3, LoopsAndConns DEF Good, TypeOK, ConnInv, conns
<1> QED
  BY Zenon, <1>4, <1>5, <1>6, <1>7 DEF Good

LEMMA GoodSwap == ASSUME Good, NEW l \in Loops, SwapFunctors(l) PROVE Good'
<1>1. /\ pc[l] = "events" /\ active[l] = {} /\ pc' = [pc EXCEPT ![l] = "functors"]
      /\ batch' = [batch EXCEPT ![l] = pending[l]] /\ pending' = [pending EXCEPT ![l] = <<>>]
      /\ UNCHANGED <<num_threads_, next_conn_id_, next_, connections_, server, conns, hungup,
                     active>>
  BY Zenon DEF SwapFunctors
<1>2. TypeOK'
  BY <1>1 DEF Good, TypeOK, conns
<1>3. Queue' = Queue
  BY Zenon, <1>1, QueueSwapped DEF Good, LoopInv
<1>4. Unique(Queue)' /\ TaskInv'
  BY Zenon, <1>1, <1>3, TasksUntouched DEF conns
<1>5. LoopInv'
  BY <1>1 DEF Good, TypeOK, LoopInv
<1>6. ConnInv'
  BY <1>1, LoopsAndConns DEF Good, TypeOK, ConnInv, conns
<1> QED
  BY Zenon, <1>2, <1>4, <1>5, <1>6 DEF Good

LEMMA GoodDone == ASSUME Good, NEW l \in Loops, FunctorsDone(l) PROVE Good'
<1>1. /\ pc[l] = "functors" /\ batch[l] = <<>> /\ pc' = [pc EXCEPT ![l] = "poll"]
      /\ UNCHANGED <<num_threads_, next_conn_id_, next_, connections_, server, conns, hungup,
                     active, pending, batch>>
  BY Zenon DEF FunctorsDone
<1>2. TypeOK'
  BY Zenon, <1>1 DEF Good, TypeOK, conns
<1>3. Queue' = Queue
  BY Zenon, <1>1 DEF Queue
<1>4. Unique(Queue)' /\ TaskInv'
  BY Zenon, <1>1, <1>3, TasksUntouched DEF conns
<1>5. LoopInv'
  BY <1>1 DEF Good, TypeOK, LoopInv
<1>6. ConnInv'
  BY <1>1, LoopsAndConns DEF Good, TypeOK, ConnInv, conns
<1> QED
  BY <1>2, <1>4, <1>5, <1>6 DEF Good

(* The steps that change only the server, the base loop's program counter  *)
(* or what the peer does.                                                  *)
LEMMA GoodServer ==
    ASSUME Good, UNCHANGED <<num_threads_, next_conn_id_, next_, connections_, conns, active,
                             pending, batch>>,
           \/ Start \/ StopBase \/ ServerDestroyed
           \/ \E c \in Conns : PeerCloses(c)
           \/ UNCHANGED vars
    PROVE  Good'
<1>1. Queue' = Queue
  BY Zenon DEF Queue
<1>2. Unique(Queue)' /\ TaskInv'
  BY Zenon, <1>1, TasksUntouched DEF conns
<1>3. /\ pc' \in [Loops -> {"poll", "events", "functors", "stopped"}]
      /\ server' \in {"constructed", "running", "destroying", "destroyed", "aborted"}
      /\ hungup' \subseteq Conns
  BY Zenon, LoopsAndConns DEF Good, TypeOK, Start, StopBase, ServerDestroyed, PeerCloses,
                              vars, loops
<1>4. TypeOK'
  BY Zenon, <1>3 DEF Good, TypeOK, conns
<1>5. LoopInv'
  BY SMTT(30), LoopsAndConns DEF Good, TypeOK, LoopInv, Start, StopBase, ServerDestroyed,
                                 PeerCloses, vars, loops
<1>6. pc[Base] = "stopped" => pc'[Base] = "stopped"
  BY Zenon, LoopsAndConns DEF Good, TypeOK, LoopInv, Start, StopBase, ServerDestroyed, PeerCloses,
                       vars, loops
<1>7. ConnInv'
  BY <1>6 DEF Good, TypeOK, ConnInv, conns
<1> QED
  BY Zenon, <1>2, <1>4, <1>5, <1>7 DEF Good

(* A new connection gets its first task.                                   *)
LEMMA GoodAccept == ASSUME Good, HandleAccept PROVE Good'
<1>1. /\ pc[Base] = "events" /\ Acceptor \in active[Base]
      /\ active' = [active EXCEPT ![Base] = @ \ {Acceptor}]
      /\ UNCHANGED <<num_threads_, server, hungup, pc, batch>>
  BY Zenon DEF HandleAccept
<1>2. CASE UNCHANGED <<next_conn_id_, next_, connections_, conns, pending>>
  <2>1. TypeOK'
    BY Zenon, <1>1, <1>2, LoopsAndConns DEF Good, TypeOK, conns
  <2>2. Queue' = Queue
    BY Zenon, <1>1, <1>2 DEF Queue
  <2>3. Unique(Queue)' /\ TaskInv'
    BY Zenon, <1>2, <2>2, TasksUntouched DEF conns
  <2>4. LoopInv'
    BY Zenon, <1>1, <1>2, LoopsAndConns DEF Good, TypeOK, LoopInv
  <2>5. ConnInv'
    BY <1>1, <1>2, LoopsAndConns DEF Good, TypeOK, ConnInv, conns
  <2> QED
    BY Zenon, <2>1, <2>3, <2>4, <2>5 DEF Good
<1>3. CASE NewConnection
  <2>1. PICK c \in Conns : c = next_conn_id_ + 1
    <3>1. next_conn_id_ + 1 \in Conns
      <4>1. next_conn_id_ \in 0 .. MaxConns /\ next_conn_id_ < MaxConns
        BY Zenon, <1>1, LoopsAndConns DEF Good, TypeOK, LoopInv
      <4> QED
        BY <4>1, ServerAssumption DEF Conns
    <3> QED
      BY Zenon, <3>1
  <2>2. PICK l \in Loops : /\ l = IF num_threads_ = 0 THEN Base ELSE next_ + 1
                           /\ l = Base <=> num_threads_ = 0
    <3>1. (IF num_threads_ = 0 THEN Base ELSE next_ + 1) \in Loops
      BY ServerAssumption DEF Good, TypeOK, Loops, Base
    <3>2. (IF num_threads_ = 0 THEN Base ELSE next_ + 1) = Base <=> num_threads_ = 0
      BY ServerAssumption DEF Good, TypeOK, Base
    <3> QED
      BY Zenon, <3>1, <3>2
  <2>3. /\ next_conn_id_' = c
        /\ next_' = IF next_ + 1 >= num_threads_ THEN 0 ELSE next_ + 1
        /\ loop_' = [loop_ EXCEPT ![c] = l]
        /\ state_' = [state_ EXCEPT ![c] = "kConnecting"]
        /\ connections_' = connections_ \cup {c}
        /\ QueueInLoop(l, "ConnectEstablished", c)
        /\ UNCHANGED <<registered, ups, downs>>
    BY Zenon, <1>3, <2>1, <2>2 DEF NewConnection, Keep
  <2>4. PICK t \in Functors : t = [f |-> "ConnectEstablished", c |-> c]
    BY Zenon DEF Functors
  <2>5. /\ Queue' = Plus(Queue, l, t)
        /\ pending' \in [Loops -> Seq(Functors)]
    <3>1. Queue = [m \in Loops |-> batch'[m] \o pending[m]] /\ batch' \in [Loops -> Seq(Functors)]
      BY Zenon, <1>1 DEF Queue, Good, TypeOK
    <3> QED
      BY Zenon, <2>3, <2>4, <3>1, QueueGrows DEF Good
  <2>6. TypeOK'
    <3>1. next_' \in Nat /\ (num_threads_' > 0 => next_' < num_threads_')
      BY <1>1, <2>3 DEF Good, TypeOK
    <3>2. next_conn_id_' \in 0 .. MaxConns
      BY <2>3 DEF Conns
    <3>3. active' \in [Loops -> SUBSET (Conns \cup {Acceptor})]
      BY Zenon, <1>1, LoopsAndConns DEF Good, TypeOK
    <3> QED
      BY Zenon, <1>1, <2>3, <2>5, <3>1, <3>2, <3>3 DEF Good, TypeOK
  <2>7. state_[c] = "none" /\ \A d \in Conns : d > c <=> d > next_conn_id_ /\ d # c
    BY <2>1, LoopsAndConns DEF Good, ConnInv, TypeOK, Conns
  <2>8. Idle(Queue, t.c)
    BY <2>4, <2>7 DEF Good, TaskInv, Settled, Functors, Idle
  <2>9. /\ Unique(Queue)'
        /\ \A m \in Loops, u \in Functors :
              In(Queue, m, u)' => In(Queue, m, u) \/ (m = l /\ u = t)
    BY Zenon, <2>5, <2>8, TaskQueued
  <2>10. TaskInv'
    <3>1. loop_'[c] = l /\ state_'[c] = "kConnecting"
      BY Zenon, <2>3 DEF Good, TypeOK
    <3>2. Settled(l, t)'
      BY Zenon, <2>4, <3>1 DEF Settled
    <3>3. \A d \in Conns \ {c} : loop_'[d] = loop_[d] /\ state_'[d] = state_[d]
                               /\ (d \in connections_ => d \in connections_')
      BY Zenon, <2>3 DEF Good, TypeOK
    <3> QED
      BY Zenon, <2>4, <2>8, <2>9, <3>2, <3>3, OtherTasks DEF TaskInv, Idle
  <2>11. LoopInv'
    BY Zenon, <1>1, <2>3, LoopsAndConns DEF Good, TypeOK, LoopInv
  <2>12. ConnInv'
    BY <1>1, <2>1, <2>2, <2>3, <2>7, LoopsAndConns DEF Good, TypeOK, ConnInv
  <2> QED
    BY Zenon, <2>6, <2>9, <2>10, <2>11, <2>12 DEF Good
<1> QED
  BY Zenon, <1>2, <1>3 DEF HandleAccept

(* A closed connection asks to be removed: it had no task.                 *)
LEMMA GoodHandleClose ==
    ASSUME Good, NEW l \in Loops, NEW c \in Conns, HandleClose(l, c) PROVE Good'
<1>1. /\ pc[l] = "events" /\ c \in active[l]
      /\ active' = [active EXCEPT ![l] = @ \ {c}]
      /\ state_' = [state_ EXCEPT ![c] = "kDisconnected"]
      /\ registered' = registered \ {c}
      /\ downs' = [downs EXCEPT ![c] = @ + 1]
      /\ QueueInLoop(Base, "RemoveConnectionInLoop", c)
      /\ UNCHANGED <<num_threads_, next_conn_id_, next_, connections_, server, hungup, loop_, ups,
                     pc, batch>>
  BY Zenon DEF HandleClose
<1>2. /\ state_[c] = "kConnected" /\ loop_[c] = l /\ c \in connections_
      /\ l = Base <=> num_threads_ = 0
  BY <1>1 DEF Good, ConnInv
<1>3. PICK t \in Functors : t = [f |-> "RemoveConnectionInLoop", c |-> c]
  BY Zenon DEF Functors
<1>4. /\ Queue' = Plus(Queue, Base, t)
      /\ pending' \in [Loops -> Seq(Functors)]
  <2>1. Queue = [m \in Loops |-> batch'[m] \o pending[m]] /\ batch' \in [Loops -> Seq(Functors)]
    BY Zenon, <1>1 DEF Queue, Good, TypeOK
  <2> QED
    BY ZenonT(30), <1>1, <1>3, <2>1, LoopsAndConns, QueueGrows DEF Good
<1>5. Idle(Queue, t.c)
  BY <1>2, <1>3 DEF Good, TaskInv, Settled, Functors, Idle
<1>6. /\ Unique(Queue)'
      /\ \A m \in Loops, u \in Functors :
            In(Queue, m, u)' => In(Queue, m, u) \/ (m = Base /\ u = t)
  BY Zenon, <1>4, <1>5, LoopsAndConns, TaskQueued
<1>7. TypeOK'
  <2>1. downs' \in [Conns -> Nat]
    BY <1>1 DEF Good, TypeOK
  <2>2. active' \in [Loops -> SUBSET (Conns \cup {Acceptor})]
    BY Zenon, <1>1 DEF Good, TypeOK
  <2> QED
    BY Zenon, <1>1, <1>4, <2>1, <2>2 DEF Good, TypeOK
<1>8. TaskInv'
  <2>1. Settled(Base, t)'
    BY Zenon, <1>1, <1>2, <1>3 DEF Settled, Good, TypeOK
  <2>2. \A d \in Conns \ {c} : loop_'[d] = loop_[d] /\ state_'[d] = state_[d]
                               /\ (d \in connections_ => d \in connections_')
    BY Zenon, <1>1 DEF Good, TypeOK
  <2> QED
    BY Zenon, <1>3, <1>5, <1>6, <2>1, <2>2, OtherTasks DEF TaskInv, Idle
<1>9. LoopInv'
  <2>1. num_threads_' = 0 => pc'[Base] = "events"
    BY Zenon, <1>1, <1>2
  <2>2. \A m \in Loops : active'[m] \subseteq active[m]
    BY Zenon, <1>1 DEF Good, TypeOK
  <2> QED
    BY Zenon, <1>1, <2>1, <2>2 DEF Good, LoopInv
<1>10. ConnInv'
  <2>1. \A d \in Conns : /\ state_'[d] = IF d = c THEN "kDisconnected" ELSE state_[d]
                         /\ downs'[d] = IF d = c THEN downs[d] + 1 ELSE downs[d]
                         /\ \A m \in Loops : d \in active'[m] => d \in active[m] /\ (d = c => m # l)
    BY Zenon, <1>1 DEF Good, TypeOK
  <2> QED
    BY SMTT(30), <1>1, <1>2, <2>1 DEF Good, ConnInv
<1> QED
  BY Zenon, <1>6, <1>7, <1>8, <1>9, <1>10 DEF Good

(* The task a loop runs, and the queues without it.                        *)
LEMMA TaskRun ==
    ASSUME Good, NEW l \in Loops, RunFunctor(l)
    PROVE  /\ Head(batch[l]) \in Functors /\ Settled(l, Head(batch[l]))
           /\ batch' \in [Loops -> Seq(Functors)]
           /\ Minus(Queue, l) = [m \in Loops |-> batch'[m] \o pending[m]]
           /\ Minus(Queue, l) \in [Loops -> Seq(Functors)] /\ Unique(Minus(Queue, l))
           /\ Idle(Minus(Queue, l), Head(batch[l]).c)
           /\ \A m \in Loops, u \in Functors : In(Minus(Queue, l), m, u) => In(Queue, m, u)
<1>1. batch[l] # <<>> /\ batch' = [batch EXCEPT ![l] = Tail(@)]
  BY Zenon DEF RunFunctor
<1>2. /\ Queue[l] # <<>> /\ Head(Queue[l]) = Head(batch[l])
      /\ batch' \in [Loops -> Seq(Functors)]
      /\ [m \in Loops |-> batch'[m] \o pending[m]] = Minus(Queue, l)
  BY Zenon, <1>1, QueueTaken DEF Good
<1>3. Queue \in [Loops -> Seq(Functors)] /\ Unique(Queue)
  BY Zenon, QueueTyped DEF Good
<1>4. /\ Minus(Queue, l) \in [Loops -> Seq(Functors)] /\ Unique(Minus(Queue, l))
      /\ Head(batch[l]) \in Functors /\ In(Queue, l, Head(batch[l]))
      /\ \A m \in Loops, u \in Functors : In(Minus(Queue, l), m, u) => In(Queue, m, u)
      /\ Idle(Minus(Queue, l), Head(batch[l]).c)
  BY Zenon, <1>2, <1>3, TaskTaken
<1>5. Settled(l, Head(batch[l]))
  BY Zenon, <1>4 DEF Good, TaskInv
<1> QED
  BY Zenon, <1>2, <1>4, <1>5

(* A loop that is running no task has none swapped out, still.             *)
LEMMA TaskBatch ==
    ASSUME Good, NEW l \in Loops, RunFunctor(l)
    PROVE  \A m \in Loops : pc'[m] # "functors" => batch'[m] = <<>>
BY Zenon DEF RunFunctor, Good, TypeOK, LoopInv

(* The task is run and queues none.                                        *)
LEMMA TaskFinished ==
    ASSUME Good, NEW l \in Loops, RunFunctor(l), UNCHANGED <<pending, loop_>>,
           NEW c, c = Head(batch[l]).c,
           \A d \in Conns \ {c} : /\ state_'[d] = state_[d]
                                  /\ d \in connections_ => d \in connections_'
    PROVE  Unique(Queue)' /\ TaskInv'
<1>1. Queue' = Minus(Queue, l) /\ c \in Conns
  BY ZenonT(30), TaskRun DEF Queue, Functors
<1>2. \A m \in Loops, u \in Functors :
         In(Queue, m, u)' => In(Queue, m, u) /\ u.c # c
  <2>1. \A m \in Loops, u \in Functors : In(Queue, m, u)' <=> In(Queue', m, u)
    BY Zenon DEF In
  <2> QED
    BY Zenon, <1>1, <2>1, TaskRun DEF Idle
<1>3. Unique(Queue)'
  <2>1. Unique(Queue')
    BY Zenon, <1>1, TaskRun
  <2> QED
    BY Zenon, <2>1 DEF Unique
<1>4. \A d \in Conns \ {c} : loop_'[d] = loop_[d] /\ state_'[d] = state_[d]
                            /\ (d \in connections_ => d \in connections_')
  BY Zenon
<1>5. TaskInv'
  BY Zenon, <1>1, <1>2, <1>4, OtherTasks DEF TaskInv
<1> QED
  BY Zenon, <1>3, <1>5

LEMMA GoodEstablish ==
    ASSUME Good, NEW l \in Loops, RunFunctor(l), RunConnectEstablished(l, Head(batch[l]))
    PROVE  Good' /\ UNCHANGED server
<1>1. PICK c \in Conns : /\ c = Head(batch[l]).c
                         /\ loop_[c] = l /\ state_[c] = "kConnecting"
  BY ZenonT(30), TaskRun DEF Functors, Settled, RunConnectEstablished
<1>2. /\ pc[l] = "functors"
      /\ state_' = [state_ EXCEPT ![c] = "kConnected"]
      /\ registered' = registered \cup {c}
      /\ ups' = [ups EXCEPT ![c] = @ + 1]
      /\ UNCHANGED <<loop_, downs, server, connections_, pending,
                     num_threads_, next_conn_id_, next_, hungup, pc, active>>
  BY ZenonT(30), <1>1 DEF RunFunctor, RunConnectEstablished, ConnectEstablished
<1>3. c \in connections_
  BY Zenon, <1>1, <1>2 DEF Good, ConnInv
<1>4. TypeOK'
  <2>1. batch' \in [Loops -> Seq(Functors)]
    BY Zenon, TaskRun
  <2>2. ups' \in [Conns -> Nat]
    BY SMTT(30), <1>2 DEF Good, TypeOK
  <2> QED
    BY Zenon, <1>2, <2>1, <2>2 DEF Good, TypeOK
<1>5. Unique(Queue)' /\ TaskInv'
  <2>1. \A d \in Conns \ {c} : state_'[d] = state_[d] /\ (d \in connections_ => d \in connections_')
    BY Zenon, <1>2 DEF Good, TypeOK
  <2> QED
    BY Zenon, <1>1, <1>2, <2>1, TaskFinished
<1>6. LoopInv'
  BY Zenon, <1>2, TaskBatch DEF Good, LoopInv
<1>7. ConnInv'
  BY SMTT(30), <1>1, <1>2, <1>3, LoopsAndConns DEF Good, TypeOK, ConnInv
<1> QED
  BY Zenon, <1>2, <1>4, <1>5, <1>6, <1>7 DEF Good

(* ConnectDestroyed of a connection that is already down.                  *)
LEMMA GoodDestroy ==
    ASSUME Good, NEW l \in Loops, RunFunctor(l), NEW c \in Conns, c = Head(batch[l]).c,
           loop_[c] = l, state_[c] = "kDisconnected", ConnectDestroyed(l, c), UNCHANGED pending,
           connections_' \in {connections_, connections_ \ {c}}
    PROVE  Good' /\ UNCHANGED server
<1>1. /\ pc[l] = "functors"
      /\ registered' = registered \ {c}
      /\ UNCHANGED <<loop_, state_, ups, downs, server,
                     num_threads_, next_conn_id_, next_, hungup, pc, active>>
  BY Zenon DEF RunFunctor, ConnectDestroyed, Connected, RemoveChannel
<1>2. TypeOK'
  <2>1. batch' \in [Loops -> Seq(Functors)]
    BY Zenon, TaskRun
  <2> QED
    BY Zenon, <1>1, <2>1 DEF Good, TypeOK
<1>3. Unique(Queue)' /\ TaskInv'
  <2>1. \A d \in Conns \ {c} : state_'[d] = state_[d] /\ (d \in connections_ => d \in connections_')
    BY Zenon, <1>1
  <2> QED
    BY Zenon, <1>1, <2>1, TaskFinished
<1>4. LoopInv'
  BY ZenonT(30), <1>1, TaskBatch DEF Good, LoopInv
<1>5. ConnInv'
  BY SMTT(30), <1>1, LoopsAndConns DEF Good, TypeOK, ConnInv
<1> QED
  BY Zenon, <1>1, <1>2, <1>3, <1>4, <1>5 DEF Good

(* The base loop erases a connection of an IO loop and sends it there.     *)
LEMMA GoodRemove ==
    ASSUME Good, NEW l \in Loops, RunFunctor(l), NEW c \in Conns, c = Head(batch[l]).c,
           l = Base, loop_[c] # l, state_[c] = "kDisconnected", Erase(c),
           QueueInLoop(loop_[c], "ConnectDestroyed", c), UNCHANGED <<conns, server>>
    PROVE  Good' /\ UNCHANGED server
<1>1. /\ pc[l] = "functors" /\ connections_' = connections_ \ {c}
      /\ UNCHANGED <<num_threads_, next_conn_id_, next_, hungup, pc, active>>
  BY Zenon DEF RunFunctor, Erase
<1>2. PICK k \in Loops : k = loop_[c]
  BY Zenon DEF Good, TypeOK
<1>3. PICK t \in Functors : t = [f |-> "ConnectDestroyed", c |-> c]
  BY Zenon DEF Functors
<1>4. PICK q : q = Minus(Queue, l)
  BY Zenon
<1>5. /\ q = [m \in Loops |-> batch'[m] \o pending[m]]
      /\ q \in [Loops -> Seq(Functors)] /\ Unique(q) /\ Idle(q, c)
      /\ \A m \in Loops, u \in Functors : In(q, m, u) => In(Queue, m, u)
      /\ batch' \in [Loops -> Seq(Functors)]
  BY Zenon, <1>4, TaskRun
<1>6. /\ Queue' = Plus(q, k, t)
      /\ pending' \in [Loops -> Seq(Functors)]
  <2>1. TypeOK /\ QueueInLoop(k, "ConnectDestroyed", c)
    BY Zenon, <1>2 DEF Good
  <2> QED
    BY ZenonT(60), <1>3, <1>5, <2>1, QueueGrows
<1>7. t.c = c
  BY Zenon, <1>3
<1>8. /\ Unique(Queue')
      /\ \A m \in Loops, u \in Functors : In(Queue', m, u) => In(q, m, u) \/ (m = k /\ u = t)
  BY ZenonT(30), <1>5, <1>6, <1>7, TaskAppended
<1>9. Unique(Queue)'
  BY Zenon, <1>8 DEF Unique
<1>10. TaskInv'
  <2>1. \A m \in Loops, u \in Functors :
           In(Queue, m, u)' => (In(Queue, m, u) /\ u.c # c) \/ (m = k /\ u = t)
    <3>1. \A m \in Loops, u \in Functors : In(Queue, m, u)' <=> In(Queue', m, u)
      BY Zenon DEF In
    <3> QED
      BY Zenon, <1>5, <1>8, <3>1 DEF Idle
  <2>2. Settled(k, t)'
    BY Zenon, <1>2, <1>3 DEF Settled, conns
  <2>3. \A d \in Conns \ {c} : loop_'[d] = loop_[d] /\ state_'[d] = state_[d]
                               /\ (d \in connections_ => d \in connections_')
    BY Zenon, <1>1 DEF conns
  <2> QED
    BY Zenon, <2>1, <2>2, <2>3, OtherTasks DEF TaskInv
<1>11. TypeOK'
  BY ZenonT(30), <1>1, <1>5, <1>6 DEF Good, TypeOK, conns
<1>12. LoopInv'
  <2>1. num_threads_ # 0
    BY Zenon DEF Good, ConnInv
  <2> QED
    BY Zenon, <1>1, <2>1, TaskBatch DEF Good, LoopInv
<1>13. ConnInv'
  BY SMTT(30), <1>1, LoopsAndConns DEF Good, TypeOK, ConnInv, conns
<1> QED
  BY Zenon, <1>9, <1>10, <1>11, <1>12, <1>13 DEF Good

LEMMA GoodRunFunctor ==
    ASSUME Good, NEW l \in Loops, RunFunctor(l) PROVE Good' /\ UNCHANGED server
<1>1. PICK t \in Functors : t = Head(batch[l]) /\ Settled(l, t)
  BY Zenon, TaskRun
<1>2. PICK c \in Conns : c = t.c
  BY Zenon DEF Functors
<1>3. CASE RunConnectEstablished(l, t)
  BY Zenon, <1>1, <1>3, GoodEstablish
<1>4. CASE RunConnectDestroyed(l, t)
  <2>1. /\ loop_[c] = l /\ state_[c] = "kDisconnected"
        /\ ConnectDestroyed(l, c) /\ UNCHANGED <<connections_, pending>>
    BY Zenon, <1>1, <1>2, <1>4 DEF Settled, RunConnectDestroyed
  <2> QED
    BY Zenon, <1>1, <1>2, <2>1, GoodDestroy
<1>5. CASE RemoveConnectionInLoop(l, t)
  <2>1. /\ l = Base /\ state_[c] = "kDisconnected"
        /\ Erase(c) /\ DestroyInItsLoop(l, c)
    BY Zenon, <1>1, <1>2, <1>5 DEF Settled, RemoveConnectionInLoop
  <2>2. CASE loop_[c] = l
    <3>1. ConnectDestroyed(l, c) /\ UNCHANGED pending /\ connections_' = connections_ \ {c}
      BY Zenon, <2>1, <2>2 DEF DestroyInItsLoop, Erase
    <3> QED
      BY Zenon, <1>1, <1>2, <2>1, <2>2, <3>1, GoodDestroy
  <2>3. CASE loop_[c] # l
    <3>1. QueueInLoop(loop_[c], "ConnectDestroyed", c) /\ UNCHANGED <<conns, server>>
      BY Zenon, <2>1, <2>3 DEF DestroyInItsLoop
    <3> QED
      BY Zenon, <1>1, <1>2, <2>1, <2>3, <3>1, GoodRemove
  <2> QED
    BY Zenon, <2>2, <2>3
<1> QED
  BY Zenon, <1>1, <1>3, <1>4, <1>5 DEF RunFunctor

-----------------------------------------------------------------------------
(* ConnectDestroyed keeps the types.                                       *)
LEMMA Downed ==
    ASSUME TypeOK, NEW c \in Conns,
           IF state_[c] = "kConnected"
           THEN /\ state_' = [state_ EXCEPT ![c] = "kDisconnected"]
                /\ downs' = [downs EXCEPT ![c] = @ + 1]
           ELSE UNCHANGED <<state_, downs>>
    PROVE  /\ downs' \in [Conns -> Nat]
           /\ state_' \in [Conns -> {"none", "kConnecting", "kConnected", "kDisconnected"}]
<1>1. CASE state_[c] = "kConnected"
  <2>1. downs' = [downs EXCEPT ![c] = @ + 1] /\ downs \in [Conns -> Nat]
    BY Zenon, <1>1 DEF TypeOK
  <2>2. /\ state_' = [state_ EXCEPT ![c] = "kDisconnected"]
        /\ state_ \in [Conns -> {"none", "kConnecting", "kConnected", "kDisconnected"}]
    BY Zenon, <1>1 DEF TypeOK
  <2>3. downs' \in [Conns -> Nat]
    BY <2>1
  <2> QED
    BY ZenonT(30), <2>2, <2>3
<1>2. CASE state_[c] # "kConnected"
  BY Zenon, <1>2 DEF TypeOK
<1> QED
  BY Zenon, <1>1, <1>2

(* ~TcpServer.  Without IO threads it destroys the connections of its own  *)
(* loop, which has stopped between two tasks.                              *)
LEMMA GoodDestroyConnection ==
    ASSUME Good, NEW c \in Conns, DestroyConnection(c), loop_[c] = Base PROVE Good'
<1>1. /\ server = "destroying" /\ c \in connections_ /\ pc[Base] = "stopped"
      /\ num_threads_ = 0
  BY Zenon DEF DestroyConnection, Good, LoopInv, ConnInv
<1>2. /\ IF state_[c] = "kConnected"
         THEN /\ state_' = [state_ EXCEPT ![c] = "kDisconnected"]
              /\ downs' = [downs EXCEPT ![c] = @ + 1]
         ELSE UNCHANGED <<state_, downs>>
      /\ registered' = registered \ {c} /\ connections_' = connections_ \ {c}
      /\ UNCHANGED <<server, loop_, ups, num_threads_, next_conn_id_, next_, hungup, pc, active,
                     pending, batch>>
  BY Zenon, <1>1 DEF DestroyConnection, ConnectDestroyed, Connected, RemoveChannel, loops
<1>3. TypeOK'
  <2>1. /\ downs' \in [Conns -> Nat]
        /\ state_' \in [Conns -> {"none", "kConnecting", "kConnected", "kDisconnected"}]
    BY Zenon, <1>2, Downed DEF Good
  <2> QED
    BY Zenon, <1>2, <2>1 DEF Good, TypeOK
<1>4. Queue' = Queue
  BY Zenon, <1>2 DEF Queue
<1>5. Queue[Base] = pending[Base]
  <2>1. batch[Base] = <<>> /\ pending[Base] \in Seq(Functors)
    BY Zenon, <1>1, LoopsAndConns DEF Good, TypeOK, LoopInv
  <2>2. <<>> \o pending[Base] = pending[Base]
    BY Zenon, <2>1, ConcatEmptySeq
  <2> QED
    BY Zenon, <2>1, <2>2, LoopsAndConns DEF Queue
<1>6. ASSUME NEW t \in Functors, NEW l \in Loops, In(Queue, l, t)
      PROVE  /\ loop_'[t.c] = loop_[t.c] /\ state_'[t.c] = state_[t.c]
             /\ t.f = "RemoveConnectionInLoop" /\ t.c \in connections_ => t.c \in connections_'
  <2>1. t.c \in Conns /\ Settled(l, t)
    BY Zenon, <1>6 DEF Functors, Good, TaskInv
  <2>2. state_[t.c] # "kConnected"
    BY Zenon, <2>1 DEF Settled, Functors
  <2>3. t.f # "RemoveConnectionInLoop"
    <3>1. SUFFICES ASSUME t.f = "RemoveConnectionInLoop" PROVE FALSE
      OBVIOUS
    <3>2. l = Base
      BY Zenon, <2>1, <3>1 DEF Settled
    <3>3. PICK i \in 1 .. Len(pending[Base]) : pending[Base][i] = t
      BY Zenon, <1>5, <1>6, <3>2 DEF In
    <3> QED
      BY Zenon, <1>1, <3>1, <3>3 DEF Good, LoopInv
  <2> QED
    BY Zenon, <1>2, <2>1, <2>2, <2>3 DEF Good, TypeOK
<1>7. Unique(Queue)' /\ TaskInv'
  BY Zenon, <1>4, <1>6, TasksUntouched
<1>8. LoopInv'
  BY Zenon, <1>1, <1>2 DEF Good, LoopInv
<1>9. ConnInv'
  <2>1. \A l \in Loops : c \notin active[l]
    BY Zenon, <1>1 DEF Good, LoopInv, ConnInv
  <2> QED
    BY SMTT(30), <1>1, <1>2, <2>1, LoopsAndConns DEF Good, TypeOK, ConnInv
<1> QED
  BY Zenon, <1>3, <1>7, <1>8, <1>9 DEF Good

(* With IO threads it aborts on the first connection there is.             *)
LEMMA GoodAborts ==
    ASSUME Good, NEW c \in Conns, DestroyConnection(c), loop_[c] # Base
    PROVE  TypeOK' /\ Unique(Queue)' /\ server' = "aborted" /\ AbortInv'
<1>1. /\ server = "destroying" /\ c \in connections_ /\ pc[Base] = "stopped"
      /\ num_threads_ > 0
  BY DEF DestroyConnection, Good, LoopInv, ConnInv, TypeOK
<1>2. /\ IF state_[c] = "kConnected"
         THEN /\ state_' = [state_ EXCEPT ![c] = "kDisconnected"]
              /\ downs' = [downs EXCEPT ![c] = @ + 1]
         ELSE UNCHANGED <<state_, downs>>
      /\ server' = "aborted"
      /\ UNCHANGED <<registered, connections_, loop_, ups, num_threads_, next_conn_id_, next_,
                     hungup, pc, active, pending, batch>>
  BY Zenon, <1>1 DEF DestroyConnection, ConnectDestroyed, Connected, RemoveChannel, loops
<1>3. TypeOK'
  <2>1. /\ downs' \in [Conns -> Nat]
        /\ state_' \in [Conns -> {"none", "kConnecting", "kConnected", "kDisconnected"}]
    BY Zenon, <1>2, Downed DEF Good
  <2> QED
    BY Zenon, <1>2, <2>1 DEF Good, TypeOK
<1>4. Queue' = Queue
  BY Zenon, <1>2 DEF Queue
<1>5. Unique(Queue)' /\ \A l \in Loops, t \in Functors : In(Queue, l, t)' => In(Queue, l, t)
  BY SMTT(30), <1>4 DEF Good, Unique, In
<1>6. AbortInv'
  <2> SUFFICES ASSUME NEW d \in Conns
               PROVE  /\ d \in registered => d \in connections_
                      /\ \A l \in Loops : d \in active[l] => d \in connections_
                      /\ In(Queue, Base, [f |-> "RemoveConnectionInLoop", c |-> d])' =>
                            d \in connections_
                      /\ downs'[d] <= ups[d] /\ ups[d] <= 1
                      /\ d \notin connections_ => ups[d] = downs'[d]
    BY Zenon, <1>1, <1>2 DEF AbortInv
  <2>1. d \in registered => d \in connections_
    BY Zenon DEF Good, ConnInv
  <2>2. \A l \in Loops : d \in active[l] => d \in connections_
    BY Zenon DEF Good, ConnInv
  <2>3. In(Queue, Base, [f |-> "RemoveConnectionInLoop", c |-> d])' => d \in connections_
    <3>1. PICK t \in Functors : t = [f |-> "RemoveConnectionInLoop", c |-> d]
      BY Zenon DEF Functors
    <3>2. In(Queue, Base, t)' => d \in connections_
      BY Zenon, <1>5, <3>1, LoopsAndConns DEF Good, TaskInv, Settled
    <3> QED
      BY Zenon, <3>1, <3>2 DEF In
  <2>4. /\ ups[d] = IF state_[d] \in {"none", "kConnecting"} THEN 0 ELSE 1
        /\ downs[d] = IF state_[d] = "kDisconnected" THEN 1 ELSE 0
        /\ state_[d] = "kConnected" => d \in connections_
        /\ state_[d] = "kConnecting" => d \in connections_
        /\ downs'[d] = IF d = c /\ state_[c] = "kConnected" THEN downs[d] + 1 ELSE downs[d]
        /\ state_[d] \in {"none", "kConnecting", "kConnected", "kDisconnected"}
    BY SMTT(30), <1>1, <1>2 DEF Good, TypeOK, ConnInv
  <2> QED
    BY SMTT(30), <1>1, <2>1, <2>2, <2>3, <2>4
<1> QED
  BY Zenon, <1>2, <1>3, <1>5, <1>6

-----------------------------------------------------------------------------
LEMMA GoodNext == ASSUME Good, server # "aborted", Next PROVE ServerInv'
<1>1. ASSUME NEW l \in Loops, LoopStep(l) PROVE Good' /\ server' # "aborted"
  <2>1. Good'
    BY Zenon, <1>1, GoodPoll, GoodAccept, GoodHandleClose, GoodSwap, GoodRunFunctor, GoodDone DEF LoopStep
  <2>2. server' # "aborted"
    <3>1. CASE RunFunctor(l)
      BY Zenon, <1>1, <3>1, GoodRunFunctor
    <3>2. CASE ~RunFunctor(l)
      BY Zenon, <1>1, <3>2 DEF LoopStep, Poll, HandleAccept, HandleClose, SwapFunctors, FunctorsDone
    <3> QED
      BY Zenon, <3>1, <3>2
  <2> QED
    BY Zenon, <2>1, <2>2
<1>2. ASSUME Start \/ StopBase \/ ServerDestroyed \/ \E c \in Conns : PeerCloses(c)
      PROVE  Good' /\ server' # "aborted"
  <2>1. UNCHANGED <<num_threads_, next_conn_id_, next_, connections_, conns, active, pending,
                  batch>>
    BY Zenon, <1>2 DEF Start, StopBase, ServerDestroyed, PeerCloses, loops
  <2>2. server' # "aborted"
    BY Zenon, <1>2 DEF Start, StopBase, ServerDestroyed, PeerCloses
  <2> QED
    BY Zenon, <1>2, <2>1, <2>2, GoodServer
<1>3. ASSUME NEW c \in Conns, DestroyConnection(c) PROVE ServerInv'
  <2>1. CASE loop_[c] = Base
    <3>1. server' # "aborted"
      BY Zenon, <1>3, <2>1 DEF DestroyConnection, ConnectDestroyed, RemoveChannel
    <3> QED
      BY Zenon, <1>3, <2>1, <3>1, GoodDestroyConnection DEF Good, ServerInv
  <2>2. CASE loop_[c] # Base
    BY Zenon, <1>3, <2>2, GoodAborts DEF ServerInv
  <2> QED
    BY Zenon, <2>1, <2>2
<1>4. Good' /\ server' # "aborted" => ServerInv'
  BY Zenon DEF Good, ServerInv
<1> QED
  BY Zenon, <1>1, <1>2, <1>3, <1>4 DEF Next

LEMMA AbortNext == ASSUME TypeOK, Unique(Queue), server = "aborted", AbortInv, [Next]_vars
                   PROVE  ServerInv'
<1>1. /\ UNCHANGED <<num_threads_, next_conn_id_, next_, connections_, server, loops, conns>>
      /\ hungup' \subseteq Conns
  BY Zenon DEF Next, LoopStep, Start, StopBase, DestroyConnection, PeerCloses, ServerDestroyed,
         vars, TypeOK
<1>2. TypeOK'
  BY Zenon, <1>1 DEF TypeOK, loops, conns
<1>3. Queue' = Queue
  BY Zenon, <1>1 DEF Queue, loops
<1>4. Unique(Queue)'
  BY <1>3 DEF Unique
<1>5. \A l \in Loops, t \in Functors : In(Queue, l, t)' => In(Queue, l, t)
  BY Zenon, <1>3 DEF In
<1>6. \A c \in Conns : [f |-> "RemoveConnectionInLoop", c |-> c] \in Functors
  BY Zenon DEF Functors
<1>7. AbortInv'
  BY Zenon, <1>1, <1>5, <1>6, LoopsAndConns DEF AbortInv, loops, conns
<1> QED
  BY Zenon, <1>1, <1>2, <1>4, <1>7 DEF ServerInv

LEMMA ServerAlways == Spec => []ServerInv
<1>1. Init => ServerInv
  BY Zenon, GoodInit DEF Good, ServerInv
<1>2. ServerInv /\ [Next]_vars => ServerInv'
  <2> SUFFICES ASSUME ServerInv, [Next]_vars PROVE ServerInv'
    OBVIOUS
  <2>1. CASE server = "aborted"
    BY Zenon, <2>1, AbortNext DEF ServerInv
  <2>2. CASE server # "aborted"
    <3>1. Good
      BY Zenon, <2>2 DEF ServerInv, Good
    <3>2. CASE Next
      BY Zenon, <2>2, <3>1, <3>2, GoodNext
    <3>3. CASE UNCHANGED vars
      <4>1. Good'
        BY Zenon, <3>1, <3>3, GoodServer DEF vars, loops
      <4> QED
        BY Zenon, <2>2, <3>3, <4>1 DEF Good, ServerInv, vars
    <3> QED
      BY Zenon, <3>2, <3>3
  <2> QED
    BY Zenon, <2>1, <2>2
<1> QED
  BY <1>1, <1>2, PTL DEF Spec

(* No loop ever follows the pointer of a freed channel: a connection whose *)
(* channel a poller has, or has reported, is in the server's map.          *)
THEOREM ChannelsOutliveTheirUse == Spec => []NoDanglingChannel
<1>1. ServerInv => NoDanglingChannel
  <2> SUFFICES ASSUME ServerInv PROVE NoDanglingChannel
    OBVIOUS
  <2>1. /\ TypeOK
        /\ \A c \in Conns : /\ c \in registered => c \in connections_
                            /\ \A l \in Loops : c \in active[l] => c \in connections_
    BY Zenon DEF ServerInv, AbortInv, ConnInv
  <2> QED
    BY Zenon, <2>1 DEF NoDanglingChannel, Held, TypeOK
<1> QED
  BY <1>1, ServerAlways, PTL

(* Whoever asks to be removed is in the map and asks once, and only        *)
(* ~TcpServer of a server with IO threads removes a channel in a wrong     *)
(* thread: the assertions of RemoveConnectionInLoop and of EpollPoller.    *)
THEOREM RemovalsAssert == Spec => []RemovalAsserts
<1>1. ServerInv => RemovalAsserts
  <2> SUFFICES ASSUME ServerInv PROVE RemovalAsserts
    OBVIOUS
  <2>1. server = "aborted" => num_threads_ > 0 /\ pc[Base] = "stopped"
    BY Zenon DEF ServerInv, AbortInv
  <2>2. ASSUME NEW c \in Conns, Asked(c) # {}
        PROVE  c \in connections_ /\ \A i, j \in Asked(c) : i = j
    <3>1. PICK t \in Functors : t = [f |-> "RemoveConnectionInLoop", c |-> c]
      BY Zenon DEF Functors
    <3>2. Asked(c) = { i \in 1 .. Len(Queue[Base]) : Queue[Base][i] = t }
      <4>1. Queue[Base] = batch[Base] \o pending[Base] /\ Queue[Base] \in Seq(Functors)
        BY Zenon, LoopsAndConns, QueueTyped DEF ServerInv, Queue
      <4>2. DOMAIN Queue[Base] = 1 .. Len(Queue[Base])
        BY Zenon, <4>1, LenProperties
      <4> QED
        BY Zenon, <3>1, <4>1, <4>2 DEF Asked
    <3>3. In(Queue, Base, t)
      BY Zenon, <2>2, <3>2 DEF In
    <3>4. c \in connections_
      BY Zenon, <3>1, <3>3, LoopsAndConns DEF ServerInv, AbortInv, TaskInv, Settled
    <3>5. \A i, j \in Asked(c) : i = j
      BY <3>2, LoopsAndConns DEF ServerInv, Unique
    <3> QED
      BY Zenon, <3>4, <3>5
  <2> QED
    BY Zenon, <2>1, <2>2 DEF RemovalAsserts
<1> QED
  BY <1>1, ServerAlways, PTL

(* connection_callback_ is called once up and once down, a connection is   *)
(* freed only after both, and ~TcpServer leaves none up.                   *)
THEOREM CallbacksPair == Spec => []UpThenDown
<1>1. ServerInv => UpThenDown
  <2> SUFFICES ASSUME ServerInv PROVE UpThenDown
    OBVIOUS
  <2>1. ASSUME NEW c \in Conns
        PROVE  /\ downs[c] <= ups[c] /\ ups[c] <= 1
               /\ c \notin connections_ => ups[c] = downs[c]
    <3>1. state_[c] \in {"none", "kConnecting", "kConnected", "kDisconnected"}
      BY Zenon DEF ServerInv, TypeOK
    <3>2. CASE server = "aborted"
      BY Zenon, <3>2 DEF ServerInv, AbortInv
    <3>3. CASE server # "aborted"
      <4>1. /\ ups[c] = IF state_[c] \in {"none", "kConnecting"} THEN 0 ELSE 1
            /\ downs[c] = IF state_[c] = "kDisconnected" THEN 1 ELSE 0
            /\ state_[c] = "kConnected" => c \in connections_
        BY Zenon, <3>3 DEF ServerInv, ConnInv
      <4> QED
        BY <3>1, <4>1
    <3> QED
      BY Zenon, <3>2, <3>3
  <2>2. ASSUME server = "destroyed" PROVE registered = {} /\ downs = ups
    <3>1. connections_ = {} /\ ConnInv
      BY Zenon, <2>2 DEF ServerInv, LoopInv
    <3>2. registered = {}
      BY Zenon, <3>1 DEF ServerInv, TypeOK, ConnInv
    <3>3. \A c \in Conns : downs[c] = ups[c]
      BY Zenon, <2>1, <3>1
    <3> QED
      BY <3>2, <3>3 DEF ServerInv, TypeOK
  <2> QED
    BY Zenon, <2>1, <2>2 DEF UpThenDown, Held
<1> QED
  BY <1>1, ServerAlways, PTL
=============================================================================
