------------------------------ MODULE TcpServer ------------------------------
(***************************************************************************)
(* TcpServer with its Acceptor, the base loop and the IO loops of its      *)
(* thread pool: how a connection is accepted in one thread, established in *)
(* another, closed there, removed from the server's map in the first and   *)
(* destroyed in the second, and when the shared_ptr's to it are gone.      *)
(*                                                                         *)
(* A loop is an event phase, in which it handles the channels of one Poll, *)
(* and a functor phase, in which it runs the tasks it swapped out; each    *)
(* handler and each task is one step of its loop's thread.                 *)
(***************************************************************************)
EXTENDS Naturals, Sequences, Functions

CONSTANTS
    MaxThreads,     \* bound on num_threads_
    MaxConns        \* bound on the connections

ASSUME ServerAssumption == MaxThreads \in Nat /\ MaxConns \in Nat

Base == 0
Loops == 0..MaxThreads
Conns == 1..MaxConns
Acceptor == 0                   \* the acceptor's channel among the active ones

Functors == [f : {"ConnectEstablished", "RemoveConnectionInLoop", "ConnectDestroyed"},
             c : Conns]

VARIABLES
    num_threads_,   \* IO threads; with 0 the base loop does all the work
    next_conn_id_,
    next_,          \* EventLoopThreadPool::next_
    connections_,   \* the connections the server's map holds
    server,         \* "constructed", "running", "destroying", "destroyed" or "aborted"
    loop_,          \* the loop of each connection
    state_,         \* TcpConnection::state_; "none" before it is created
    registered,     \* the connections whose channel is in its poller
    hungup,         \* the connections the peer has closed
    pc,             \* where each loop's thread is
    active,         \* activeChannels_ of each loop, as far as not handled
    pending,        \* pending_functors_ of each loop
    batch,          \* the tasks each loop has swapped out
    ups, downs      \* history: calls of connection_callback_

loops == <<pc, active, pending, batch>>
conns == <<loop_, state_, registered, ups, downs>>
vars == <<num_threads_, next_conn_id_, next_, connections_, server, loops, conns, hungup>>

(* Who holds a shared_ptr to c: the map, and every bound task.             *)
Bound(c) ==
    \E l \in Loops : \E t \in Range(pending[l]) \cup Range(batch[l]) : t.c = c

Held(c) == c \in connections_ \/ Bound(c)

Init ==
    /\ num_threads_ \in 0..MaxThreads
    /\ next_conn_id_ = 0 /\ next_ = 0
    /\ connections_ = {} /\ server = "constructed"
    /\ loop_ = [c \in Conns |-> Base]
    /\ state_ = [c \in Conns |-> "none"]
    /\ registered = {} /\ hungup = {}
    /\ pc = [l \in Loops |-> "poll"]
    /\ active = [l \in Loops |-> {}]
    /\ pending = [l \in Loops |-> <<>>]
    /\ batch = [l \in Loops |-> <<>>]
    /\ ups = [c \in Conns |-> 0] /\ downs = [c \in Conns |-> 0]

-----------------------------------------------------------------------------
(* TcpConnection, as far as the server sees it, called in thread l.        *)
ConnectEstablished(l, c) ==
    /\ state_' = [state_ EXCEPT ![c] = "kConnected"]
    /\ registered' = registered \cup {c}
    /\ ups' = [ups EXCEPT ![c] = @ + 1]
    /\ UNCHANGED <<loop_, downs, server>>

(* Channel::Remove: in another thread than that of the channel's loop,     *)
(* AssertInLoopThread of the poller aborts the process.                    *)
RemoveChannel(l, c) ==
    IF loop_[c] = l THEN registered' = registered \ {c} /\ UNCHANGED server
    ELSE server' = "aborted" /\ UNCHANGED registered

\* Mutated form: the callback is called whatever the state.
UpWhateverState(c) == TRUE

Connected(c) == state_[c] = "kConnected"

ConnectDestroyed(l, c) ==
    /\ IF Connected(c)
       THEN /\ state_' = [state_ EXCEPT ![c] = "kDisconnected"]
            /\ downs' = [downs EXCEPT ![c] = @ + 1]
       ELSE UNCHANGED <<state_, downs>>
    /\ RemoveChannel(l, c)
    /\ UNCHANGED <<loop_, ups>>

-----------------------------------------------------------------------------
(* Event phase.                                                            *)
HungUp(l) == { c \in registered \cap hungup : loop_[c] = l }

(* The acceptor's channel is in the base loop's poller from listen() on.   *)
Clients(l) ==
    IF l = Base /\ server = "running" /\ next_conn_id_ < MaxConns THEN {Acceptor} ELSE {}

Poll(l) ==
    /\ pc[l] = "poll"
    /\ \E clients \in SUBSET Clients(l) :
        /\ HungUp(l) \cup clients # {} \/ pending[l] # <<>>
        /\ active' = [active EXCEPT ![l] = HungUp(l) \cup clients]
    /\ pc' = [pc EXCEPT ![l] = "events"]
    /\ UNCHANGED <<num_threads_, next_conn_id_, next_, connections_, server, conns, hungup,
                   pending, batch>>

QueueInLoop(l, f, c) == pending' = [pending EXCEPT ![l] = Append(@, [f |-> f, c |-> c])]

\* Mutated form: the server does not keep the connection.
KeepNothing(c) == UNCHANGED connections_

Keep(c) == connections_' = connections_ \cup {c}

NewConnection ==
    LET c == next_conn_id_ + 1
        l == IF num_threads_ = 0 THEN Base ELSE next_ + 1
    IN  /\ next_conn_id_' = c
        /\ next_' = IF next_ + 1 >= num_threads_ THEN 0 ELSE next_ + 1
        /\ loop_' = [loop_ EXCEPT ![c] = l]
        /\ state_' = [state_ EXCEPT ![c] = "kConnecting"]
        /\ Keep(c)
        /\ QueueInLoop(l, "ConnectEstablished", c)
        /\ UNCHANGED <<registered, ups, downs>>

(* Acceptor::HandleRead; a failing accept only logs.                       *)
HandleAccept ==
    /\ pc[Base] = "events" /\ Acceptor \in active[Base]
    /\ active' = [active EXCEPT ![Base] = @ \ {Acceptor}]
    /\ \/ NewConnection
       \/ UNCHANGED <<next_conn_id_, next_, connections_, conns, pending>>
    /\ UNCHANGED <<num_threads_, server, hungup, pc, batch>>

(* HandleClose with its close_callback_ RemoveConnection.                  *)
HandleClose(l, c) ==
    /\ pc[l] = "events" /\ c \in active[l]
    /\ active' = [active EXCEPT ![l] = @ \ {c}]
    /\ state_' = [state_ EXCEPT ![c] = "kDisconnected"]
    /\ registered' = registered \ {c}
    /\ downs' = [downs EXCEPT ![c] = @ + 1]
    /\ QueueInLoop(Base, "RemoveConnectionInLoop", c)
    /\ UNCHANGED <<num_threads_, next_conn_id_, next_, connections_, server, hungup, loop_, ups,
                   pc, batch>>

-----------------------------------------------------------------------------
(* Functor phase.                                                          *)
SwapFunctors(l) ==
    /\ pc[l] = "events" /\ active[l] = {}
    /\ pc' = [pc EXCEPT ![l] = "functors"]
    /\ batch' = [batch EXCEPT ![l] = pending[l]]
    /\ pending' = [pending EXCEPT ![l] = <<>>]
    /\ UNCHANGED <<num_threads_, next_conn_id_, next_, connections_, server, conns, hungup, active>>

(* What task t, run by loop l, does.                                       *)
RunConnectEstablished(l, t) ==
    /\ t.f = "ConnectEstablished"
    /\ ConnectEstablished(l, t.c)
    /\ UNCHANGED <<connections_, pending>>

RunConnectDestroyed(l, t) ==
    /\ t.f = "ConnectDestroyed"
    /\ ConnectDestroyed(l, t.c)
    /\ UNCHANGED <<connections_, pending>>

\* Mutated form: the connection is left in the map.
EraseNothing(c) == UNCHANGED connections_

Erase(c) == connections_' = connections_ \ {c}

\* Mutated form: the base loop destroys the connection on the spot.
DestroyHere(l, c) == ConnectDestroyed(l, c) /\ UNCHANGED pending

(* RunInLoop calls ConnectDestroyed at once when the connection belongs to *)
(* the loop that runs the task.                                            *)
DestroyInItsLoop(l, c) ==
    IF loop_[c] = l THEN ConnectDestroyed(l, c) /\ UNCHANGED pending
    ELSE QueueInLoop(loop_[c], "ConnectDestroyed", c) /\ UNCHANGED <<conns, server>>

RemoveConnectionInLoop(l, t) ==
    /\ t.f = "RemoveConnectionInLoop"
    /\ Erase(t.c)
    /\ DestroyInItsLoop(l, t.c)

RunFunctor(l) ==
    /\ pc[l] = "functors" /\ batch[l] # <<>>
    /\ batch' = [batch EXCEPT ![l] = Tail(@)]
    /\ LET t == Head(batch[l])
       IN  \/ RunConnectEstablished(l, t)
           \/ RunConnectDestroyed(l, t)
           \/ RemoveConnectionInLoop(l, t)
    /\ UNCHANGED <<num_threads_, next_conn_id_, next_, hungup, pc, active>>

FunctorsDone(l) ==
    /\ pc[l] = "functors" /\ batch[l] = <<>>
    /\ pc' = [pc EXCEPT ![l] = "poll"]
    /\ UNCHANGED <<num_threads_, next_conn_id_, next_, connections_, server, conns, hungup,
                   active, pending, batch>>

-----------------------------------------------------------------------------
(* Start: the thread pool is started (module EventLoopThreadPool) and then *)
(* the acceptor listens; before Loop() or in a task of the base loop.  A   *)
(* second call does nothing.                                               *)
Start ==
    /\ server = "constructed"
    /\ pc[Base] \in {"poll", "functors"}
    /\ server' = "running"
    /\ UNCHANGED <<num_threads_, next_conn_id_, next_, connections_, loops, conns, hungup>>

(* The base loop is quit and its Loop() returns; then ~TcpServer runs in   *)
(* the base thread while the IO threads go on.                             *)
StopBase ==
    /\ server \in {"constructed", "running"}
    /\ pc[Base] = "poll"
    /\ pc' = [pc EXCEPT ![Base] = "stopped"]
    /\ server' = "destroying"
    /\ UNCHANGED <<num_threads_, next_conn_id_, next_, connections_, conns, hungup,
                   active, pending, batch>>

(* The destructor holds the connection while ConnectDestroyed runs, so one *)
(* on which that aborts is never let go.                                   *)
DestroyConnection(c) ==
    /\ server = "destroying" /\ c \in connections_
    /\ ConnectDestroyed(Base, c)
    /\ connections_' = IF server' = "aborted" THEN connections_ ELSE connections_ \ {c}
    /\ UNCHANGED <<num_threads_, next_conn_id_, next_, hungup, loops>>

(* thread_pool_ is destroyed last: every IO loop finishes its iteration.   *)
ServerDestroyed ==
    /\ server = "destroying" /\ connections_ = {}
    /\ \A l \in Loops \ {Base} : pc[l] = "poll"
    /\ server' = "destroyed"
    /\ pc' = [l \in Loops |-> "stopped"]
    /\ UNCHANGED <<num_threads_, next_conn_id_, next_, connections_, conns, hungup,
                   active, pending, batch>>

(* The peer closes, at any time after the connection was accepted.         *)
PeerCloses(c) ==
    /\ state_[c] # "none" /\ c \notin hungup
    /\ hungup' = hungup \cup {c}
    /\ UNCHANGED <<num_threads_, next_conn_id_, next_, connections_, server, loops, conns>>

LoopStep(l) ==
    /\ server # "aborted"
    /\ \/ Poll(l)
       \/ l = Base /\ HandleAccept
       \/ \E c \in Conns : HandleClose(l, c)
       \/ SwapFunctors(l)
       \/ RunFunctor(l)
       \/ FunctorsDone(l)

Next ==
    \/ \E l \in Loops : LoopStep(l)
    \/ Start
    \/ StopBase
    \/ \E c \in Conns : DestroyConnection(c) \/ PeerCloses(c)
    \/ ServerDestroyed

Spec == Init /\ [][Next]_vars

(* Every loop's thread runs.                                               *)
FairSpec == Spec /\ \A l \in Loops : WF_vars(LoopStep(l))

-----------------------------------------------------------------------------
TypeOK ==
    /\ num_threads_ \in 0..MaxThreads
    /\ next_conn_id_ \in 0..MaxConns
    /\ next_ \in Nat
    /\ num_threads_ > 0 => next_ < num_threads_
    /\ connections_ \subseteq Conns
    /\ server \in {"constructed", "running", "destroying", "destroyed", "aborted"}
    /\ loop_ \in [Conns -> Loops]
    /\ state_ \in [Conns -> {"none", "kConnecting", "kConnected", "kDisconnected"}]
    /\ registered \subseteq Conns /\ hungup \subseteq Conns
    /\ pc \in [Loops -> {"poll", "events", "functors", "stopped"}]
    /\ active \in [Loops -> SUBSET (Conns \cup {Acceptor})]
    /\ pending \in [Loops -> Seq(Functors)]
    /\ batch \in [Loops -> Seq(Functors)]
    /\ ups \in [Conns -> Nat] /\ downs \in [Conns -> Nat]

(* A Channel* that the kernel may report, or that a Poll has reported and  *)
(* that is still to be handled, belongs to a connection that somebody      *)
(* holds: the loop never follows the pointer of a freed channel.  With it  *)
(* the variables have their types.                                         *)
NoDanglingChannel ==
    /\ TypeOK
    /\ \A c \in registered : Held(c)
    /\ \A l \in Loops : \A c \in active[l] \ {Acceptor} : Held(c)

Asked(c) ==
    LET tasks == batch[Base] \o pending[Base]
    IN  { i \in DOMAIN tasks : tasks[i] = [f |-> "RemoveConnectionInLoop", c |-> c] }

(* The assertions of the removal hold although connections are accepted,   *)
(* closed and removed in different threads.  assert(n == 1) of             *)
(* RemoveConnectionInLoop: whoever asks to be removed is in the map, and   *)
(* asks once.  AssertInLoopThread of EpollPoller: a channel is removed     *)
(* only by the thread of its loop, with one exception, ~TcpServer of a     *)
(* server with IO threads, which aborts on a connection of an IO loop.     *)
RemovalAsserts ==
    /\ \A c \in Conns : Asked(c) # {} =>
            c \in connections_ /\ \A i, j \in Asked(c) : i = j
    /\ server = "aborted" => num_threads_ > 0 /\ pc[Base] = "stopped"

(* connection_callback_ is called once when a connection comes up and once *)
(* when it goes down, and a connection is freed only after both.  After    *)
(* ~TcpServer every one that had come up has been reported down, and none  *)
(* of their channels is left in a poller.                                  *)
UpThenDown ==
    /\ \A c \in Conns :
        /\ downs[c] <= ups[c] /\ ups[c] <= 1
        /\ state_[c] # "none" /\ ~Held(c) => ups[c] = downs[c]
    /\ server = "destroyed" => registered = {} /\ downs = ups

(* A connection whose peer has closed, even before it was established, is  *)
(* removed from the map and freed in the end, as long as the base loop     *)
(* runs.                                                                   *)
ClosedIsFreed == \A c \in Conns : (c \in hungup) ~> (~Held(c) \/ pc[Base] = "stopped")
=============================================================================
