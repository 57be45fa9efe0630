---------------------------- MODULE TcpConnection ----------------------------
(***************************************************************************)
(* One TcpConnection with its Channel, its registration in the EpollPoller *)
(* and its socket, driven by the loop that owns it, by user callbacks, by  *)
(* the TcpServer that removes it, by the peer, and by another thread that  *)
(* may call ShutDown once.                                                 *)
(*                                                                         *)
(* The bytes given to send are numbered 1, 2, 3, ...  The receiving side   *)
(* keeps only whether there is something to read (its contents are the     *)
(* subject of module Buffer).                                              *)
(***************************************************************************)
EXTENDS Naturals, Sequences

CONSTANTS
    MaxBytes,       \* bound on the bytes given to send
    SockCap         \* room in the kernel's send buffer, in bytes

ASSUME ConnectionAssumption ==
    /\ MaxBytes \in Nat
    /\ SockCap \in Nat \ {0}

VARIABLES
    state_,         \* TcpConnection::state_
    write_complete_callback_,   \* is one set?
    events_,        \* Channel::events_: the subset of {"read", "write"} wanted
    index_,         \* Channel::index_
    interest,       \* the events the kernel's epoll set holds for the fd
    output_buffer_, \* the bytes that wait to be written
    pc,             \* where the loop thread is
    revents_,       \* Channel::revents_
    sending,        \* how far a call of send has come
    message,        \* the part of its message that is still to be dealt with
    functors,       \* the loop's pending tasks for this connection
    batch,          \* those that DoPendingFunctors has swapped out
    removal,        \* how far TcpServer's removal of the connection has come
    caller,         \* where the other thread is in ShutDown
    wire,           \* all bytes written to the socket
    drained,        \* how many of them have left the kernel's send buffer
    fin,            \* shutdown(SHUT_WR) was called
    rcv,            \* there are received bytes to read
    peer,           \* what the peer has done: "open", "fin" or "reset"
    skerr,          \* the socket has an error not yet fetched
    killed,         \* SIGPIPE has ended the process
    given,          \* history: how many bytes send was given while connected
    ups, downs      \* history: how often connection_callback_ saw the connection
                    \* come up and go down

channel == <<events_, index_, interest>>
socket == <<wire, drained, fin, rcv, peer, skerr>>
conn == <<state_, output_buffer_, removal, given, ups, downs>>
thread == <<pc, revents_, sending, message, functors, batch>>
rest == <<caller, write_complete_callback_, killed>>
vars == <<channel, socket, conn, thread, rest>>

States == {"kConnecting", "kConnected", "kDisconnecting", "kDisconnected"}

(* User code runs inside connection_callback_ or a task, inside            *)
(* message_callback_, and inside write_complete_callback_.                 *)
UserCode == {"task", "onMessage", "onWriteComplete"}

Stream(first, last) == [i \in 1 .. last + 1 - first |-> first + i - 1]

is_writing == "write" \in events_

Space == SockCap - (Len(wire) - drained)
SendBroken == fin \/ peer = "reset"

-----------------------------------------------------------------------------
(* Channel and EpollPoller.                                                *)

\* Mutated form: a channel without events stays in the epoll set.
UpdateChannelKeeps(wanted) ==
    /\ events_' = wanted
    /\ interest' = wanted
    /\ index_' = "kAdded"

UpdateChannel(wanted) ==
    /\ events_' = wanted
    /\ IF index_ = "kAdded" /\ wanted = {}
       THEN interest' = {"absent"} /\ index_' = "kDeleted"
       ELSE interest' = wanted /\ index_' = "kAdded"

EnableReading == UpdateChannel(events_ \cup {"read"})
EnableWriting == UpdateChannel(events_ \cup {"write"})
DisableWriting == UpdateChannel(events_ \ {"write"})
DisableAll == UpdateChannel({})

(* DisableAll, which puts a channel that was deleted back into the epoll   *)
(* set without events, followed by Remove, which takes it out again.       *)
DisableAllAndRemove ==
    /\ events_' = {}
    /\ interest' = {"absent"}
    /\ index_' = "kDeleted"

-----------------------------------------------------------------------------
Init ==
    /\ state_ = "kConnecting" /\ write_complete_callback_ \in BOOLEAN
    /\ events_ = {} /\ index_ = "kNew" /\ interest = {"absent"}
    /\ output_buffer_ = <<>>
    /\ pc = "poll" /\ revents_ = {} /\ sending = "no" /\ message = <<>>
    /\ functors = <<"ConnectEstablished">> /\ batch = <<>>
    /\ removal = "none"
    /\ caller = "idle"
    /\ wire = <<>> /\ drained = 0 /\ fin = FALSE
    /\ rcv = FALSE /\ peer = "open" /\ skerr = FALSE
    /\ killed = FALSE
    /\ given = 0 /\ ups = 0 /\ downs = 0

(* The kernel's view of the socket.                                        *)
ReadyEvents ==
    (IF rcv \/ peer # "open" THEN {"read"} ELSE {}) \cup
    (IF Space > 0 \/ SendBroken THEN {"write"} ELSE {}) \cup
    (IF peer = "reset" \/ (fin /\ peer = "fin") THEN {"hup"} ELSE {}) \cup
    (IF skerr THEN {"err"} ELSE {})

Reported ==
    IF interest = {"absent"} THEN {} ELSE ReadyEvents \cap (interest \cup {"hup", "err"})

Poll ==
    /\ pc = "poll"
    /\ Reported # {} \/ functors # <<>>
    /\ revents_' = Reported
    /\ pc' = IF Reported # {} THEN "hup" ELSE "swap"
    /\ UNCHANGED <<channel, socket, conn, rest, sending, message, functors, batch>>

-----------------------------------------------------------------------------
\* Mutated form: the server is not told that the connection is closed.
HandleCloseSilently ==
    /\ state_' = "kDisconnected"
    /\ DisableAll
    /\ downs' = downs + 1
    /\ UNCHANGED removal

\* Mutated form: the state does not record that the connection is closed.
HandleCloseKeepsState ==
    /\ DisableAll
    /\ downs' = downs + 1
    /\ removal' = "requested"
    /\ UNCHANGED state_

HandleClose ==
    /\ state_' = "kDisconnected"
    /\ DisableAll
    /\ downs' = downs + 1
    /\ removal' = "requested"

ShutdownWrite == fin' = TRUE

(* HandleEventWithGuard: hang-up without input, then error, then output,   *)
(* then input.  HandleError fetches the socket's error.                    *)
HandleHangUpAndError ==
    /\ pc = "hup"
    /\ pc' = "out"
    /\ IF "hup" \in revents_ /\ "read" \notin revents_
       THEN HandleClose
       ELSE UNCHANGED <<channel, state_, downs, removal>>
    /\ skerr' = (skerr /\ "err" \notin revents_)
    /\ UNCHANGED <<wire, drained, fin, rcv, peer, output_buffer_, given, ups,
                   revents_, sending, message, functors, batch, rest>>

(* How many of n bytes ::write takes.                                      *)
Taken(n) == IF SendBroken THEN 0 ELSE IF n < Space THEN n ELSE Space

\* Mutated form: the channel has no write callback.
WritesNever == FALSE

WritesNow == "write" \in revents_ /\ is_writing

(* A write on a connection that is shut down or reset.  Like any system    *)
(* call it fetches the error of a reset; otherwise, or when that error is  *)
(* EPIPE itself, it raises SIGPIPE.  The library leaves the signal as it   *)
(* is, so that ends the process unless the program has chosen otherwise.   *)
WriteFails ==
    /\ skerr' = FALSE
    /\ killed' \in BOOLEAN

HandleWrite ==
    /\ pc = "out"
    /\ LET n == Taken(Len(output_buffer_))
       IN  IF WritesNow /\ n > 0
           THEN /\ wire' = wire \o SubSeq(output_buffer_, 1, n)
                /\ output_buffer_' = SubSeq(output_buffer_, n + 1, Len(output_buffer_))
                /\ IF output_buffer_' = <<>>
                   THEN DisableWriting /\ pc' = "onWriteComplete"
                   ELSE UNCHANGED channel /\ pc' = "in"
           ELSE pc' = "in" /\ UNCHANGED <<wire, output_buffer_, channel>>
    /\ IF WritesNow /\ SendBroken THEN WriteFails ELSE UNCHANGED <<skerr, killed>>
    /\ UNCHANGED <<drained, fin, rcv, peer, state_, removal, given, ups, downs, revents_,
                   sending, message, functors, batch, caller, write_complete_callback_>>

(* In each callback user code makes any number of calls.                   *)
NotSending == sending = "no"

\* Mutated form: nobody finishes a shutdown that had to wait for output.
NoShutdown == UNCHANGED fin

FinishShutdown == IF state_ = "kDisconnecting" THEN ShutdownWrite ELSE UNCHANGED fin

(* The end of HandleWrite, after write_complete_callback_ returned.        *)
WriteCompleted ==
    /\ pc = "onWriteComplete" /\ NotSending
    /\ pc' = "in"
    /\ FinishShutdown
    /\ UNCHANGED <<channel, wire, drained, rcv, peer, skerr, conn,
                   revents_, sending, message, functors, batch, rest>>

(* HandleRead: data, an error, or the end of the peer's stream.            *)
HandleRead ==
    /\ pc = "in"
    /\ IF "read" \notin revents_
       THEN pc' = "swap" /\ UNCHANGED <<channel, rcv, skerr, state_, downs, removal>>
       ELSE IF rcv
       THEN /\ rcv' = FALSE
            /\ pc' = "onMessage"
            /\ UNCHANGED <<channel, skerr, state_, downs, removal>>
       ELSE IF skerr
       THEN /\ skerr' = FALSE
            /\ pc' = "swap"
            /\ UNCHANGED <<channel, rcv, state_, downs, removal>>
       ELSE /\ HandleClose
            /\ pc' = "swap"
            /\ UNCHANGED <<rcv, skerr>>
    /\ UNCHANGED <<wire, drained, fin, peer, output_buffer_, given, ups,
                   revents_, sending, message, functors, batch, rest>>

-----------------------------------------------------------------------------
(* The functor phase of the loop.                                          *)
ConnectEstablished ==
    /\ state_' = "kConnected"
    /\ EnableReading
    /\ ups' = ups + 1
    /\ pc' = "task"
    /\ UNCHANGED <<downs, removal>>

ConnectDestroyed ==
    /\ IF state_ \in {"kConnected", "kDisconnecting"}
       THEN state_' = "kDisconnected" /\ downs' = downs + 1
       ELSE UNCHANGED <<state_, downs>>
    /\ DisableAllAndRemove
    /\ removal' = "done"
    /\ UNCHANGED <<pc, ups>>

SwapFunctors ==
    /\ pc = "swap"
    /\ pc' = "functors"
    /\ batch' = functors /\ functors' = <<>>
    /\ UNCHANGED <<channel, socket, conn, revents_, sending, message, rest>>

RunFunctor ==
    /\ pc = "functors"
    /\ batch # <<>>
    /\ batch' = Tail(batch)
    /\ CASE Head(batch) = "ConnectEstablished" -> ConnectEstablished
         [] Head(batch) = "ConnectDestroyed" -> ConnectDestroyed
         [] OTHER -> /\ pc' = "task"
                     /\ UNCHANGED <<channel, state_, ups, downs, removal>>
    /\ UNCHANGED <<socket, output_buffer_, given, revents_, sending, message,
                   functors, rest>>

(* The destructor of the server calls ConnectDestroyed itself, in the      *)
(* thread of the loop.                                                     *)
ServerDestroyed ==
    /\ pc = "functors"
    /\ removal = "none" /\ state_ # "kConnecting"
    /\ ConnectDestroyed
    /\ UNCHANGED <<socket, output_buffer_, given, revents_, sending, message, functors, batch,
                   rest>>

FunctorsDone ==
    /\ pc = "functors"
    /\ batch = <<>>
    /\ pc' = "poll"
    /\ UNCHANGED <<channel, socket, conn, revents_, sending, message, functors, batch, rest>>

(* RemoveConnection and RemoveConnectionInLoop hand the connection through *)
(* the server's loop back to its own loop.                                 *)
RemoveConnection ==
    /\ removal = "requested"
    /\ removal' = "queued"
    /\ functors' = Append(functors, "ConnectDestroyed")
    /\ UNCHANGED <<channel, socket, state_, output_buffer_, given, ups, downs,
                   pc, revents_, sending, message, batch, rest>>

(* Any thread hands a task that uses the connection to its loop.           *)
QueueTask ==
    /\ "task" \notin { functors[i] : i \in 1 .. Len(functors) }
    /\ functors' = Append(functors, "task")
    /\ UNCHANGED <<channel, socket, conn, pc, revents_, sending, message, batch, rest>>

-----------------------------------------------------------------------------
(* What user code does to the connection in the thread of its loop.        *)
ReturnFromUser ==
    /\ pc \in {"task", "onMessage"} /\ NotSending
    /\ pc' = IF pc = "task" THEN "functors" ELSE "swap"
    /\ UNCHANGED <<channel, socket, conn, revents_, sending, message, functors, batch, rest>>

InUserCode ==
    /\ pc \in UserCode /\ NotSending
    /\ pc = "onWriteComplete" => write_complete_callback_

(* send passes the test of state_; with another state it does nothing.     *)
Send(n) ==
    /\ InUserCode
    /\ state_ = "kConnected"
    /\ given + n <= MaxBytes
    /\ sending' = "tested"
    /\ message' = Stream(given + 1, given + n)
    /\ given' = given + n
    /\ UNCHANGED <<channel, socket, state_, output_buffer_, removal, ups, downs,
                   pc, revents_, functors, batch, rest>>

(* The write that send attempts when nothing waits to be written.  When    *)
(* all is written, write_complete_callback_ is the last thing send does:   *)
(* what the callback does is what the user code goes on to do.             *)
DirectWrite ==
    LET n == Taken(Len(message))
    IN  /\ wire' = wire \o SubSeq(message, 1, n)
        /\ message' = SubSeq(message, n + 1, Len(message))
        /\ sending' = IF message' = <<>> THEN "no" ELSE "remaining"
        /\ UNCHANGED <<skerr, killed>>

(* EPIPE is a fault_error: the message is dropped.  When errno is another  *)
(* one, the error of a reset or what LOG_ERROR, which comes before the     *)
(* test, left in it, the message is kept.                                  *)
FailedWrite ==
    /\ WriteFails
    /\ \/ message' = <<>> /\ sending' = "no"
       \/ sending' = "remaining" /\ UNCHANGED message
    /\ UNCHANGED wire

\* Mutated form: send writes although older bytes wait to be written.
WritesAnyway == FALSE

MustQueue == is_writing \/ output_buffer_ # <<>>

SendWrite ==
    /\ sending = "tested"
    /\ IF MustQueue
       THEN sending' = "remaining" /\ UNCHANGED <<wire, message, skerr, killed>>
       ELSE IF SendBroken THEN FailedWrite ELSE DirectWrite
    /\ UNCHANGED <<channel, drained, fin, rcv, peer, conn, pc, revents_, functors, batch,
                   caller, write_complete_callback_>>

SendRemaining ==
    /\ sending = "remaining"
    /\ output_buffer_' = output_buffer_ \o message
    /\ message' = <<>> /\ sending' = "no"
    /\ IF is_writing THEN UNCHANGED channel ELSE EnableWriting
    /\ UNCHANGED <<socket, state_, removal, given, ups, downs,
                   pc, revents_, functors, batch, rest>>

\* Mutated form: shutdown does not look whether output is waiting.
ShutdownAtOnce == ShutdownWrite

ShutdownUnlessWriting == IF is_writing THEN UNCHANGED fin ELSE ShutdownWrite

ShutDown ==
    /\ InUserCode
    /\ state_ = "kConnected"
    /\ state_' = "kDisconnecting"
    /\ ShutdownUnlessWriting
    /\ UNCHANGED <<channel, wire, drained, rcv, peer, skerr, output_buffer_, removal,
                   given, ups, downs, thread, rest>>

-----------------------------------------------------------------------------
(* ShutDown in another thread: the test of state_, its assignment, and the *)
(* test of is_writing are steps of their own.                              *)
OffLoopTest ==
    /\ caller = "idle" /\ state_ = "kConnected"
    /\ caller' = "tested"
    /\ UNCHANGED <<channel, socket, conn, thread, write_complete_callback_, killed>>

OffLoopSet ==
    /\ caller = "tested"
    /\ caller' = "set"
    /\ state_' = "kDisconnecting"
    /\ UNCHANGED <<channel, socket, output_buffer_, removal, given, ups, downs, thread,
                   write_complete_callback_, killed>>

OffLoopShutdown ==
    /\ caller = "set"
    /\ caller' = "done"
    /\ ShutdownUnlessWriting
    /\ UNCHANGED <<channel, wire, drained, rcv, peer, skerr, conn, thread,
                   write_complete_callback_, killed>>

-----------------------------------------------------------------------------
(* The peer and the network.                                               *)
PeerSends ==
    /\ peer = "open" /\ ~rcv
    /\ rcv' = TRUE
    /\ UNCHANGED <<channel, wire, drained, fin, peer, skerr, conn, thread, rest>>

PeerCloses ==
    /\ peer = "open"
    /\ peer' = "fin"
    /\ UNCHANGED <<channel, wire, drained, fin, rcv, skerr, conn, thread, rest>>

PeerResets ==
    /\ peer # "reset"
    /\ peer' = "reset" /\ skerr' = TRUE
    /\ UNCHANGED <<channel, wire, drained, fin, rcv, conn, thread, rest>>

Drain ==
    /\ peer # "reset" /\ drained < Len(wire)
    /\ drained' = drained + 1
    /\ UNCHANGED <<channel, wire, fin, rcv, peer, skerr, conn, thread, rest>>

-----------------------------------------------------------------------------
LoopStep ==
    \/ Poll
    \/ HandleHangUpAndError
    \/ HandleWrite
    \/ WriteCompleted
    \/ HandleRead
    \/ SwapFunctors
    \/ RunFunctor
    \/ FunctorsDone
    \/ ReturnFromUser
    \/ SendWrite
    \/ SendRemaining

OffLoopStep == OffLoopSet \/ OffLoopShutdown

ProgramStep ==
    \/ LoopStep
    \/ \E n \in 1..MaxBytes : Send(n)
    \/ ShutDown
    \/ ServerDestroyed
    \/ RemoveConnection
    \/ QueueTask
    \/ OffLoopTest \/ OffLoopStep

Next ==
    \/ ~killed /\ ProgramStep
    \/ PeerSends \/ PeerCloses \/ PeerResets \/ Drain

Spec == Init /\ [][Next]_vars

(* The loop runs, user code returns, the server's loop runs, an open       *)
(* connection drains.  Nothing is assumed of what users and peers decide.  *)
FairSpec ==
    /\ Spec
    /\ WF_vars(~killed /\ LoopStep)
    /\ WF_vars(~killed /\ OffLoopStep) /\ WF_vars(~killed /\ RemoveConnection)
    /\ WF_vars(Drain)

-----------------------------------------------------------------------------
TypeOK ==
    /\ state_ \in States /\ write_complete_callback_ \in BOOLEAN
    /\ events_ \subseteq {"read", "write"}
    /\ index_ \in {"kNew", "kAdded", "kDeleted"}
    /\ interest = {"absent"} \/ interest \subseteq {"read", "write"}
    /\ output_buffer_ \in Seq(1..MaxBytes)
    /\ pc \in {"poll", "hup", "out", "in", "swap", "functors"} \cup UserCode
    /\ revents_ \subseteq {"read", "write", "hup", "err"}
    /\ sending \in {"no", "tested", "remaining"}
    /\ message \in Seq(1..MaxBytes)
    /\ functors \in Seq({"ConnectEstablished", "ConnectDestroyed", "task"})
    /\ batch \in Seq({"ConnectEstablished", "ConnectDestroyed", "task"})
    /\ removal \in {"none", "requested", "queued", "done"}
    /\ caller \in {"idle", "tested", "set", "done"}
    /\ wire \in Seq(1..MaxBytes)
    /\ drained \in 0 .. Len(wire)
    /\ Len(wire) - drained <= SockCap
    /\ fin \in BOOLEAN /\ rcv \in BOOLEAN /\ skerr \in BOOLEAN
    /\ killed \in BOOLEAN
    /\ peer \in {"open", "fin", "reset"}
    /\ given \in 0..MaxBytes
    /\ ups \in 0..1 /\ downs \in Nat

Open == state_ \in {"kConnected", "kDisconnecting"}

(* The stream is spoiled by a reset, by ShutDown in another thread, or by  *)
(* a write_complete_callback_, from which HandleWrite could get new output *)
(* between its write and its FIN.                                          *)
Spoiled == peer = "reset" \/ caller # "idle" \/ write_complete_callback_

(* The poller's bookkeeping is the kernel's: a channel is marked kAdded    *)
(* exactly when its fd is in the epoll set, with the events the channel    *)
(* wants, and the loop never waits with a channel that wants none of them  *)
(* (whose hang-ups the kernel would report for ever).  Until the           *)
(* connection is reported down it waits for output space exactly when      *)
(* output is waiting: it neither stalls nor spins.  With it the variables  *)
(* have their types.                                                       *)
Registered ==
    /\ TypeOK
    /\ (index_ = "kAdded") <=> (interest # {"absent"})
    /\ index_ = "kAdded" => interest = events_
    /\ pc = "poll" => interest # {}
    /\ pc = "poll" /\ ups > 0 /\ downs = 0 => (is_writing <=> output_buffer_ # <<>>)

(* The end of a connection is handled once: HandleClose is reached only    *)
(* while the connection is open, as it asserts, although hang-up and end   *)
(* of input come together; and connection_callback_ reports the end once,  *)
(* whether the peer or the server ended the connection, and before it is   *)
(* taken out of the poller, as long as ShutDown is called in the thread of *)
(* the loop.  From another thread ShutDown may set state_ back between its *)
(* test and its assignment; then the end is reported once more, not twice. *)
EndsOnce ==
    /\ pc = "hup" /\ "hup" \in revents_ /\ "read" \notin revents_ => Open
    /\ pc = "in" /\ "read" \in revents_ /\ ~rcv /\ ~skerr => Open
    /\ downs <= ups + IF caller = "idle" THEN 0 ELSE 1
    /\ caller = "idle" /\ removal = "done" => downs = ups

(* Whatever send was given reaches the socket in order, each byte once,    *)
(* or still waits in output_buffer_, however direct writes, buffered       *)
(* writes, callbacks that send again and shutdown alternate, unless the    *)
(* peer resets the connection or another thread shuts it down meanwhile.   *)
(* And SIGPIPE, which nothing in the library ignores, cannot come from the *)
(* connection's own shutdown: only a spoiled stream is written to after it *)
(* was broken.                                                             *)
SentInOrder ==
    /\ wire = Stream(1, Len(wire))
    /\ peer # "reset" /\ caller = "idle" =>
            wire \o output_buffer_ \o message = Stream(1, given)
    /\ killed => Spoiled

(* "Gentle close, waits until the data has been sent" (TcpConnection.h:37) *)
(* and README.md:14: when the FIN is sent, all that send accepted has been *)
(* written, as long as ShutDown is called in the thread of the loop.       *)
GracefulShutdown == fin /\ peer # "reset" /\ caller = "idle" => wire = Stream(1, given)

(* The same for a connection without a write_complete_callback_, from      *)
(* which HandleWrite could get new output between its write and its FIN.   *)
PlainGracefulShutdown == ~write_complete_callback_ => GracefulShutdown

(* The connection is a byte stream: whatever send, the direct write,       *)
(* HandleWrite, ShutDown and the callbacks do, the socket gets what send   *)
(* accepted in order and once, nothing is accepted or written behind the   *)
(* FIN, and the FIN comes after all of it, as long as it is not spoiled.   *)
Abstract == INSTANCE ByteStream WITH
    accepted <- Stream(1, given), sent <- wire, ended <- fin,
    spoiled <- Spoiled

KeepsByteStream == Abstract!Spec

(* A shutdown that had to wait for output is carried out by HandleWrite,   *)
(* also when ShutDown runs in another thread between the steps of the      *)
(* loop, unless the connection is reported down first or the write that    *)
(* should come before meets a reset and SIGPIPE ends the process.          *)
ShutdownCompletes == (state_ = "kDisconnecting") ~> (fin \/ downs > 0 \/ killed)

(* Bytes given to send reach the peer unless the connection is reset or    *)
(* reported down, or shut down by another thread or behind the back of a   *)
(* write_complete_callback_.                                               *)
OutputDrains ==
    \A n \in 1..MaxBytes : (given >= n) ~>
        \/ drained >= n \/ downs > 0 \/ peer = "reset"
        \/ caller # "idle" \/ (fin /\ write_complete_callback_)

(* When the peer closes or resets the connection it is taken out of the    *)
(* poller, whatever is still to be read or written, unless a write on the  *)
(* broken connection, for output that waits or in a later send, raises     *)
(* SIGPIPE and the program, like the library, has done nothing about it.   *)
PeerGoneRemoves == (peer # "open" /\ ups > 0) ~> (removal = "done" \/ killed)
=============================================================================
