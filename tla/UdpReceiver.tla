----------------------------- MODULE UdpReceiver -----------------------------
(***************************************************************************)
(* UdpReceiver with its UdpSocket and its PacketBufferPool, run by one     *)
(* loop: HandleRead takes buffers from the pool, fills a batch of them     *)
(* with one recvmmsg and passes each datagram to message_callback_, which  *)
(* may keep it, copy it, drop it, and stop or restart the receiver.        *)
(* Datagrams that were kept are let go later by any thread, even after the *)
(* receiver is gone; the last copy returns the buffer to the pool.         *)
(*                                                                         *)
(* Datagrams are numbered in the order of their arrival.                   *)
(***************************************************************************)
EXTENDS Naturals, Sequences, FiniteSets, Functions

CONSTANTS
    MaxPerRead,         \* max_packets_per_read_
    MaxBatch,           \* kDefaultMaxPacketPerRead: bound on one recvmmsg
    InitialBuffers,     \* initial_buffer_count
    Capacity,           \* max_datagram_size
    MaxDatagrams,       \* bound on the datagrams that arrive
    MaxErrors           \* bound on how often recvmmsg fails with input waiting

ASSUME ReceiverAssumption ==
    /\ MaxPerRead \in Nat \ {0} /\ MaxBatch \in Nat \ {0}
    /\ InitialBuffers \in Nat /\ Capacity \in Nat \ {0}
    /\ MaxDatagrams \in Nat /\ MaxErrors \in Nat

VARIABLES
    life,           \* "none", "socket", "pool", "alive", "failed" or "destroyed"
    fd_,            \* socket_ has an open descriptor
    started_,
    registered,     \* the channel is in the poller
    pc,             \* where the loop's thread is
    packets_read,   \* in this call of HandleRead
    buffers,        \* the buffers of the batch, in order
    got,            \* received_count
    i,              \* the datagram of the batch being passed on
    free_buffers,   \* the pool's stack
    created,        \* how many buffers exist: they go only with the pool
    content,        \* the datagram each buffer holds, 0 for none
    size_,          \* PacketBuffer::size_ of each buffer
    kept,           \* the UdpDatagrams that the user holds, up to two copies
    socket,         \* the datagrams in the kernel's receive queue
    arrived, errors,
    passed,         \* history: the datagrams passed to message_callback_
    late            \* history: how many of them since the last Stop

object == <<life, fd_>>
pool == <<free_buffers, created>>
memory == <<content, size_>>
batch == <<packets_read, buffers, got, i>>
vars == <<object, started_, registered, pc, batch, pool, memory, kept, socket,
          arrived, errors, passed, late>>

SmallerOf(m, n) == IF m < n THEN m ELSE n

(* Sizes below, at and above the capacity of a buffer.                     *)
SizeOf(d) == d % (Capacity + 2)

Init ==
    /\ life = "none" /\ fd_ = FALSE
    /\ started_ = FALSE /\ registered = FALSE
    /\ pc = "poll"
    /\ packets_read = 0 /\ buffers = <<>> /\ got = 0 /\ i = 0
    /\ free_buffers = <<>> /\ created = 0
    /\ content = [b \in 1 .. InitialBuffers + MaxPerRead + MaxDatagrams |-> 0]
    /\ size_ = [b \in DOMAIN content |-> 0]
    /\ kept = {}
    /\ socket = <<>> /\ arrived = 0 /\ errors = 0
    /\ passed = <<>> /\ late = 0

-----------------------------------------------------------------------------
(* The constructor makes the members socket_ and buffer_pool_, tests its   *)
(* arguments, and sets and binds the socket.  Whatever fails throws, which *)
(* destroys the members made so far: ~UniqueFd closes the descriptor, if   *)
(* there is one.                                                           *)
CloseFd == fd_' = FALSE

OpenSocket ==
    /\ life = "none"
    /\ life' = "socket"
    /\ fd_' \in BOOLEAN
    /\ UNCHANGED <<started_, registered, pc, batch, pool, memory, kept, socket, arrived,
                   errors, passed, late>>

MakePool ==
    /\ life = "socket"
    /\ life' = "pool"
    /\ free_buffers' = [n \in 1..InitialBuffers |-> n]
    /\ created' = InitialBuffers
    /\ UNCHANGED <<fd_, started_, registered, pc, batch, memory, kept, socket, arrived,
                   errors, passed, late>>

ConstructorThrows ==
    /\ life \in {"socket", "pool"}
    /\ life' = "failed"
    /\ CloseFd
    /\ free_buffers' = <<>> /\ created' = 0
    /\ UNCHANGED <<started_, registered, pc, batch, memory, kept, socket, arrived,
                   errors, passed, late>>

Constructed ==
    /\ life = "pool" /\ fd_
    /\ life' = "alive"
    /\ UNCHANGED <<fd_, started_, registered, pc, batch, pool, memory, kept, socket, arrived,
                   errors, passed, late>>

(* The pool's State goes with the last of the pool and the datagrams, and  *)
(* the free buffers with it.                                               *)
DropPoolUnless(used) ==
    IF used THEN UNCHANGED pool ELSE free_buffers' = <<>> /\ created' = 0

(* ~UdpReceiver, which stops it, in the loop's thread, in a task or in the *)
(* handler of another channel.  When that one runs between Poll and        *)
(* HandleRead, a pointer to the channel that is destroyed here stays in    *)
(* the loop's list of active channels.                                     *)
Destroy ==
    /\ life = "alive" /\ pc \in {"poll", "active"}
    /\ life' = "destroyed"
    /\ started_' = FALSE /\ registered' = FALSE
    /\ CloseFd /\ socket' = <<>>
    /\ DropPoolUnless(kept # {})
    /\ UNCHANGED <<pc, batch, memory, kept, arrived, errors, passed, late>>

-----------------------------------------------------------------------------
(* User code in the loop's thread: in the callback, or in a task or the    *)
(* handler of another channel, which may run between Poll and HandleRead.  *)
(* message_callback_ is set: without it Start throws and changes nothing.  *)
InUserCode == life = "alive" /\ pc \in {"poll", "active", "callback"}

Start ==
    /\ InUserCode /\ ~started_
    /\ started_' = TRUE /\ registered' = TRUE
    /\ late' = 0
    /\ UNCHANGED <<object, pc, batch, pool, memory, kept, socket, arrived, errors, passed>>

Stop ==
    /\ InUserCode /\ started_
    /\ started_' = FALSE /\ registered' = FALSE
    /\ late' = 0
    /\ UNCHANGED <<object, pc, batch, pool, memory, kept, socket, arrived, errors, passed>>

Poll ==
    /\ pc = "poll"
    /\ registered /\ socket # <<>>
    /\ pc' = "active"
    /\ UNCHANGED <<object, started_, registered, batch, pool, memory, kept, socket, arrived,
                   errors, passed, late>>

-----------------------------------------------------------------------------
\* Mutated form: the count of the previous read event goes on.
CountOn == packets_read

CountFrom == 0

(* What the loop does with the channel of a destroyed receiver is not      *)
(* defined (the default build, with AddressSanitizer, ends the process):   *)
(* the model goes no further there.                                        *)
HandleRead ==
    /\ pc = "active" /\ life = "alive"
    /\ pc' = "acquire"
    /\ packets_read' = CountFrom
    /\ UNCHANGED <<object, started_, registered, buffers, got, i, pool, memory, kept, socket,
                   arrived, errors, passed, late>>

BatchSize == SmallerOf(MaxPerRead - packets_read, MaxBatch)

(* PacketBufferPool::Acquire, for each datagram of the batch.              *)
Acquire ==
    /\ pc = "acquire" /\ Len(buffers) < BatchSize
    /\ IF free_buffers = <<>>
       THEN /\ buffers' = Append(buffers, created + 1)
            /\ created' = created + 1
            /\ UNCHANGED free_buffers
       ELSE /\ buffers' = Append(buffers, free_buffers[Len(free_buffers)])
            /\ free_buffers' = SubSeq(free_buffers, 1, Len(free_buffers) - 1)
            /\ UNCHANGED created
    /\ UNCHANGED <<object, started_, registered, pc, packets_read, got, i, memory, kept, socket,
                   arrived, errors, passed, late>>

\* Mutated form: the buffers of a batch are forgotten.
None == <<>>

(* The datagrams of the batch that were not moved away.                    *)
NotMoved == SubSeq(buffers, i + 1, Len(buffers))

(* The vector of datagrams ends its life: the deleters of what it still    *)
(* holds return the buffers, first to last, with no size.                  *)
ReleaseBatch(next) ==
    /\ pc' = next
    /\ free_buffers' = free_buffers \o NotMoved
    /\ buffers' = <<>>

Full == pc = "acquire" /\ Len(buffers) = BatchSize

Interrupted ==
    /\ Full /\ errors < MaxErrors
    /\ errors' = errors + 1
    /\ ReleaseBatch("acquire")
    /\ UNCHANGED <<object, started_, registered, packets_read, got, i, created, memory, kept,
                   socket, arrived, passed, late>>

ReceiveError ==
    /\ Full /\ errors < MaxErrors
    /\ errors' = errors + 1
    /\ ReleaseBatch("poll")
    /\ UNCHANGED <<object, started_, registered, packets_read, got, i, created, memory, kept,
                   socket, arrived, passed, late>>

(* EAGAIN.                                                                 *)
ReceiveNothing ==
    /\ Full /\ socket = <<>>
    /\ ReleaseBatch("poll")
    /\ UNCHANGED <<object, started_, registered, packets_read, got, i, created, memory, kept,
                   socket, arrived, errors, passed, late>>

Receive ==
    /\ Full /\ socket # <<>>
    /\ got' = SmallerOf(Len(buffers), Len(socket))
    /\ content' = [b \in DOMAIN content |->
                     IF \E k \in 1..got' : buffers[k] = b
                     THEN socket[CHOOSE k \in 1..got' : buffers[k] = b] ELSE content[b]]
    /\ socket' = SubSeq(socket, got' + 1, Len(socket))
    /\ packets_read' = packets_read + got'
    /\ i' = 0
    /\ pc' = "pass"
    /\ UNCHANGED <<object, started_, registered, buffers, pool, size_, kept, arrived, errors, passed,
                   late>>

set_size(b, size) == size_' = [size_ EXCEPT ![b] = size]

ReadableSize(b) == SmallerOf(SizeOf(content[b]), Capacity)

UdpDatagram(b, copy) ==
    [buffer |-> b, id |-> content[b], copy |-> copy,
     original_size |-> SizeOf(content[b]),
     truncated |-> SizeOf(content[b]) > Capacity]

\* Mutated form: all of the batch, not what was received.
WholeBatch == Len(buffers)

Received == got

(* The datagram is moved into message_callback_.                           *)
PassOn ==
    /\ pc = "pass" /\ i < Received
    /\ pc' = "callback"
    /\ i' = i + 1
    /\ LET b == buffers[i + 1]
       IN  /\ set_size(b, ReadableSize(b))
           /\ kept' = kept \cup {UdpDatagram(b, 1)}
           /\ passed' = Append(passed, content[b])
    /\ late' = IF started_ THEN 0 ELSE late + 1
    /\ UNCHANGED <<object, started_, registered, packets_read, buffers, got, pool, content,
                   socket, arrived, errors>>

\* Mutated form: nobody looks whether the callback stopped the receiver.
GoesOnAnyway == TRUE

GoesOn == started_

(* After a callback that stopped the receiver the rest of the batch is     *)
(* dropped.                                                                *)
CallbackReturns ==
    /\ pc = "callback"
    /\ IF GoesOn THEN pc' = "pass" /\ UNCHANGED <<free_buffers, buffers>>
       ELSE ReleaseBatch("poll")
    /\ i' = IF GoesOn THEN i ELSE 0
    /\ UNCHANGED <<object, started_, registered, packets_read, got, created, memory, kept,
                   socket, arrived, errors, passed, late>>

BatchDone ==
    /\ pc = "pass" /\ i = Received
    /\ ReleaseBatch(IF got < Len(buffers) \/ packets_read >= MaxPerRead
                    THEN "poll" ELSE "acquire")
    /\ i' = 0
    /\ UNCHANGED <<object, started_, registered, packets_read, got, created, memory, kept, socket,
                   arrived, errors, passed, late>>

-----------------------------------------------------------------------------
(* Users copy a datagram and let copies go, in any thread and at any time. *)
(* The deleter of the last copy resets the buffer and returns it.          *)
Copy(d) ==
    /\ d \in kept /\ d.copy = 1
    /\ kept' = kept \cup {[d EXCEPT !.copy = 2]}
    /\ UNCHANGED <<object, started_, registered, pc, batch, pool, memory, socket, arrived,
                   errors, passed, late>>

\* Mutated form: every copy returns the buffer.
EveryCopy(d) == TRUE

LastCopy(d) == \A e \in kept \ {d} : e.buffer # d.buffer

Release(d) ==
    /\ d \in kept
    /\ kept' = kept \ {d}
    /\ IF ~LastCopy(d) THEN UNCHANGED <<pool, size_>>
       ELSE IF life = "destroyed" /\ kept' = {} THEN DropPoolUnless(FALSE) /\ UNCHANGED size_
       ELSE /\ set_size(d.buffer, 0)
            /\ free_buffers' = Append(free_buffers, d.buffer)
            /\ UNCHANGED created
    /\ UNCHANGED <<object, started_, registered, pc, batch, content, socket, arrived,
                   errors, passed, late>>

Arrive ==
    /\ life = "alive" /\ arrived < MaxDatagrams
    /\ arrived' = arrived + 1
    /\ socket' = Append(socket, arrived + 1)
    /\ UNCHANGED <<object, started_, registered, pc, batch, pool, memory, kept, errors,
                   passed, late>>

LoopStep ==
    \/ Poll \/ HandleRead \/ Acquire \/ Interrupted \/ ReceiveError \/ ReceiveNothing
    \/ Receive \/ PassOn \/ CallbackReturns \/ BatchDone

Next ==
    \/ LoopStep
    \/ OpenSocket \/ MakePool \/ ConstructorThrows \/ Constructed \/ Destroy
    \/ Start \/ Stop
    \/ \E d \in kept : Copy(d) \/ Release(d)
    \/ Arrive

Spec == Init /\ [][Next]_vars

FairSpec == Spec /\ WF_vars(LoopStep)

-----------------------------------------------------------------------------
InFlight == SubSeq(buffers, i + 1, Len(buffers))

KeptBuffers == { d.buffer : d \in kept }

TypeOK ==
    /\ life \in {"none", "socket", "pool", "alive", "failed", "destroyed"} /\ fd_ \in BOOLEAN
    /\ started_ \in BOOLEAN /\ registered = started_
    /\ pc \in {"poll", "active", "acquire", "pass", "callback"}
    /\ packets_read \in Nat /\ got \in Nat /\ i \in 0 .. Len(buffers)
    /\ buffers \in Seq(1..created)
    /\ free_buffers \in Seq(1..created)
    /\ content \in [DOMAIN content -> 0..MaxDatagrams]
    /\ size_ \in [DOMAIN content -> 0..Capacity]
    /\ kept \subseteq [buffer : 1..created, id : 0..MaxDatagrams, copy : {1, 2},
                       original_size : Nat, truncated : BOOLEAN]
    /\ socket \in Seq(1..MaxDatagrams) /\ passed \in Seq(0..MaxDatagrams)
    /\ late \in Nat

(* Nothing is lost on any path out of the constructor, HandleRead and the  *)
(* destructor, also with datagrams that outlive the receiver: every buffer *)
(* has one owner, the pool, the batch, or the datagrams the user holds;    *)
(* and the descriptor is open only while the receiver is being made or     *)
(* exists, in the poller only while it is open.  With it the variables     *)
(* have their types.                                                       *)
NothingLost ==
    /\ TypeOK
    /\ Range(free_buffers) \cup Range(InFlight) \cup KeptBuffers = 1..created
    /\ Len(free_buffers) + Len(InFlight) + Cardinality(KeptBuffers) = created
    /\ fd_ => life \in {"socket", "pool", "alive"}
    /\ registered => fd_

(* UdpDatagram.h:10 promises that the payload is valid while a copy of the *)
(* UdpDatagram exists: whoever returns buffers meanwhile, and also after   *)
(* the receiver is gone, what a kept copy shows is the datagram it was     *)
(* made for and as much of it as was stored.                               *)
KeptIsStable ==
    \A d \in kept :
        /\ content[d.buffer] = d.id
        /\ size_[d.buffer] = IF d.truncated THEN Capacity ELSE d.original_size

(* Datagrams reach the callback in the order of their arrival, each once.  *)
PassedInOrder == \A m, n \in 1 .. Len(passed) : m < n => passed[m] < passed[n]

(* After Stop at most one more datagram reaches the callback, also when    *)
(* the channel was already in the list of active ones.                     *)
StopIsPrompt == late <= 1

(* A datagram is read from the socket unless the receiver is stopped.      *)
SocketIsEmptied ==
    \A d \in 1..MaxDatagrams :
        (d \in Range(socket)) ~> (d \notin Range(socket) \/ ~started_)
=============================================================================
