-------------------------- MODULE TcpConnectionProofs --------------------------
(***************************************************************************)
(* Machine-checked proofs about module TcpConnection, for every MaxBytes   *)
(* and every SockCap: the channel's registration, the one end of a         *)
(* connection, the order of what is sent, the graceful shutdown, and that  *)
(* the connection implements ByteStream.                                   *)
(***************************************************************************)
EXTENDS TcpConnection, SequenceTheorems, TLAPS

-----------------------------------------------------------------------------
(* Sequences of bytes.                                                     *)

Bytes == 1..MaxBytes

(* What ::write takes from the front of a sequence and what it leaves make *)
(* up that sequence.                                                       *)
LEMMA WriteSplits ==
    ASSUME NEW s \in Seq(Bytes), NEW n \in 0 .. Len(s)
    PROVE  /\ SubSeq(s, 1, n) \in Seq(Bytes)
           /\ Len(SubSeq(s, 1, n)) = n
           /\ SubSeq(s, n + 1, Len(s)) \in Seq(Bytes)
           /\ SubSeq(s, 1, n) \o SubSeq(s, n + 1, Len(s)) = s
  <1>1. Len(s) \in Nat /\ \A i \in 1 .. Len(s) : s[i] \in Bytes
    BY Zenon, LenProperties, ElementOfSeq
  <1>2. /\ SubSeq(s, 1, n) \in Seq(Bytes)
        /\ Len(SubSeq(s, 1, n)) = IF 1 <= n THEN n - 1 + 1 ELSE 0
    <2>1. \A i \in 1 .. n : s[i] \in Bytes
      BY <1>1
    <2> QED
      BY <1>1, <2>1, SubSeqProperties
  <1>3. SubSeq(s, n + 1, Len(s)) \in Seq(Bytes)
    <2>1. \A i \in n + 1 .. Len(s) : s[i] \in Bytes
      BY <1>1
    <2> QED
      BY <1>1, <2>1, SubSeqProperties
  <1>4. SubSeq(s, 1, n) \o SubSeq(s, n + 1, Len(s)) = s
    <2>1. 1 \in 1 .. Len(s) + 1 /\ n \in 1 - 1 .. Len(s) /\ Len(s) \in n .. Len(s)
      BY <1>1
    <2>2. SubSeq(s, 1, n) \o SubSeq(s, n + 1, Len(s)) = SubSeq(s, 1, Len(s))
      BY Zenon, <2>1, ConcatAdjacentSubSeq
    <2> QED
      BY Zenon, <2>2, SubSeqFull
  <1>5. Len(SubSeq(s, 1, n)) = n
    <2> DEFINE l == Len(SubSeq(s, 1, n))
    <2>1. l = IF 1 <= n THEN n - 1 + 1 ELSE 0
      BY Zenon, <1>2
    <2> HIDE DEF l
    <2>2. l = n
      BY <2>1, <1>1
    <2> QED
      BY Zenon, <2>2 DEF l
  <1> QED
    BY Zenon, <1>2, <1>3, <1>4, <1>5

(* The stream up to a byte is a sequence of that many bytes.               *)
LEMMA StreamFromStart ==
    ASSUME NEW g \in 0..MaxBytes, MaxBytes \in Nat
    PROVE  /\ Stream(1, g) \in Seq(Bytes)
           /\ Len(Stream(1, g)) = g
           /\ \A i \in 1 .. g : Stream(1, g)[i] = i
  BY DEF Stream, Bytes

(* The stream goes on with the bytes that the next send is given.          *)
LEMMA StreamGrows ==
    ASSUME NEW g \in Nat, NEW n \in Nat, g + n <= MaxBytes, MaxBytes \in Nat
    PROVE  Stream(1, g) \o Stream(g + 1, g + n) = Stream(1, g + n)
  <1> g \in 0..MaxBytes /\ g + n \in 0..MaxBytes
    OBVIOUS
  <1>1. /\ Stream(1, g) \in Seq(Bytes) /\ Len(Stream(1, g)) = g
        /\ \A i \in 1 .. g : Stream(1, g)[i] = i
    BY Zenon, StreamFromStart
  <1>2. /\ Stream(g + 1, g + n) \in Seq(Bytes) /\ Len(Stream(g + 1, g + n)) = n
        /\ \A i \in 1 .. n : Stream(g + 1, g + n)[i] = g + i
    BY DEF Stream, Bytes
  <1>3. /\ Stream(1, g + n) \in Seq(Bytes) /\ Len(Stream(1, g + n)) = g + n
        /\ \A i \in 1 .. g + n : Stream(1, g + n)[i] = i
    BY Zenon, StreamFromStart
  <1> DEFINE s == Stream(1, g)
             t == Stream(g + 1, g + n)
             u == Stream(1, g + n)
  <1> HIDE DEF s, t, u
  <1>4. /\ s \o t \in Seq(Bytes)
        /\ Len(s \o t) = g + n
        /\ \A i \in 1 .. g + n : (s \o t)[i] = IF i <= g THEN s[i] ELSE t[i - g]
    <2>1. s \in Seq(Bytes) /\ t \in Seq(Bytes) /\ Len(s) = g /\ Len(t) = n
      BY Zenon, <1>1, <1>2 DEF s, t
    <2>2. /\ s \o t \in Seq(Bytes)
          /\ Len(s \o t) = Len(s) + Len(t)
          /\ \A i \in 1 .. Len(s) + Len(t) : (s \o t)[i] =
                     IF i <= Len(s) THEN s[i] ELSE t[i - Len(s)]
      BY Zenon, <2>1, ConcatProperties
    <2> QED
      BY Zenon, <2>1, <2>2
  <1>5. ASSUME NEW i \in 1 .. g + n
        PROVE  (s \o t)[i] = u[i]
    <2>1. CASE i <= g
      BY <2>1, <1>4, <1>1, <1>3 DEF s, u
    <2>2. CASE ~(i <= g)
      <3>1. i - g \in 1 .. n
        BY <2>2
      <3>2. t[i - g] = g + (i - g)
        BY Zenon, <3>1, <1>2 DEF t
      <3> QED
        BY <2>2, <3>2, <1>4, <1>3 DEF u
    <2> QED
      BY Zenon, <2>1, <2>2
  <1>6. u \in Seq(Bytes) /\ Len(u) = g + n
    BY Zenon, <1>3 DEF u
  <1>7. s \o t = u
    BY Zenon, <1>4, <1>5, <1>6, SeqEqual
  <1> QED
    BY Zenon, <1>7 DEF s, t, u

(* What begins the stream is the stream up to there.                       *)
LEMMA StreamPrefix ==
    ASSUME NEW w \in Seq(Bytes), NEW v \in Seq(Bytes), NEW g \in 0..MaxBytes,
           MaxBytes \in Nat, w \o v = Stream(1, g)
    PROVE  w = Stream(1, Len(w)) /\ Len(w) + Len(v) = g
  <1>1. /\ Len(w) \in Nat /\ Len(v) \in Nat /\ Len(w \o v) = Len(w) + Len(v)
        /\ \A i \in 1 .. Len(w) + Len(v) : (w \o v)[i] =
                     IF i <= Len(w) THEN w[i] ELSE v[i - Len(w)]
    BY Zenon, LenProperties, ConcatProperties
  <1>2. Len(Stream(1, g)) = g /\ \A i \in 1 .. g : Stream(1, g)[i] = i
    BY Zenon, StreamFromStart
  <1>3. Len(w) + Len(v) = g
    BY Zenon, <1>1, <1>2
  <1>4. Len(w) \in 0..MaxBytes
    BY <1>1, <1>3
  <1>5. /\ Stream(1, Len(w)) \in Seq(Bytes) /\ Len(Stream(1, Len(w))) = Len(w)
        /\ \A i \in 1 .. Len(w) : Stream(1, Len(w))[i] = i
    BY Zenon, <1>4, StreamFromStart
  <1>6. ASSUME NEW i \in 1 .. Len(w)
        PROVE  w[i] = Stream(1, Len(w))[i]
    <2>1. i \in 1 .. g /\ i \in 1 .. Len(w) + Len(v) /\ i <= Len(w)
      BY <1>1, <1>3
    <2> QED
      BY <2>1, <1>1, <1>2, <1>5
  <1>7. w = Stream(1, Len(w))
    BY Zenon, <1>5, <1>6, SeqEqual
  <1> QED
    BY Zenon, <1>3, <1>7

LEMMA Associative ==
    ASSUME NEW a \in Seq(Bytes), NEW b \in Seq(Bytes), NEW c \in Seq(Bytes)
    PROVE  (a \o b) \o c = a \o (b \o c)
  BY ConcatAssociative

(* Bytes that move from the front of what waits to the end of what is      *)
(* written stay in their place.                                            *)
LEMMA WriteKeeps ==
    ASSUME NEW w \in Seq(Bytes), NEW o \in Seq(Bytes), NEW m \in Seq(Bytes),
           NEW n \in 0 .. Len(o)
    PROVE  ((w \o SubSeq(o, 1, n)) \o SubSeq(o, n + 1, Len(o))) \o m = (w \o o) \o m
  <1> DEFINE f == SubSeq(o, 1, n)
             r == SubSeq(o, n + 1, Len(o))
  <1>1. f \in Seq(Bytes) /\ r \in Seq(Bytes) /\ f \o r = o
    BY Zenon, WriteSplits
  <1> HIDE DEF f, r
  <1>2. (w \o f) \o r = w \o (f \o r)
    <2>1. f \in Seq(Bytes) /\ r \in Seq(Bytes)
      BY Zenon, <1>1
    <2> QED
      BY Zenon, <2>1, Associative
  <1>3. ((w \o f) \o r) \o m = (w \o o) \o m
    BY Zenon, <1>1, <1>2
  <1> QED
    BY Zenon, <1>3 DEF f, r

-----------------------------------------------------------------------------
(* The connection is established and nobody has begun to take it out of    *)
(* its loop.                                                               *)
Up == ups = 1 /\ removal = "none"

(* The life of the connection: state_, what connection_callback_ was told, *)
(* and how far the removal has come.                                       *)
LifeInv ==
    /\ ups = 0 => /\ state_ = "kConnecting" /\ removal = "none" /\ downs = 0
                  /\ caller = "idle" /\ output_buffer_ = <<>>
    /\ ups = 1 => state_ # "kConnecting"
    /\ Up => Open /\ downs = 0
    /\ removal # "none" => state_ \in {"kDisconnecting", "kDisconnected"} /\ downs \in 1..2
    /\ removal \in {"requested", "queued"} => downs = 1
    /\ removal # "none" /\ caller = "idle" => state_ = "kDisconnected" /\ downs = 1

(* The channel is in the poller, reading, while the connection is up, and  *)
(* otherwise not.  It waits for output space when output is waiting.       *)
ChannelInv ==
    /\ Up => /\ index_ = "kAdded" /\ interest = events_ /\ "read" \in events_
             /\ is_writing <=> output_buffer_ # <<>>
    /\ ~Up => index_ # "kAdded" /\ interest = {"absent"} /\ events_ = {}

(* Where the loop can be.  Between the poll and HandleRead only a hang-up  *)
(* without input ends the connection, and send is never cut off.           *)
ThreadInv ==
    /\ pc \notin {"functors", "task"} => batch = <<>>
    /\ pc \notin {"poll", "swap", "functors"} => ups = 1
    /\ pc = "hup" => removal = "none"
    /\ pc \in {"out", "onWriteComplete", "in"} /\ "read" \in revents_ => removal = "none"
    /\ sending # "no" => pc \in UserCode /\ removal = "none"
    /\ sending = "no" <=> message = <<>>

(* The loop's tasks: ConnectEstablished is the first and comes once,       *)
(* ConnectDestroyed comes at most once, after the removal was queued.      *)
TaskOrder(q, u, r) ==
    /\ u = 0 => q # <<>> /\ q[1] = "ConnectEstablished"
    /\ \A i \in 1 .. Len(q) : q[i] = "ConnectEstablished" => u = 0 /\ i = 1
    /\ \A i \in 1 .. Len(q) : q[i] = "ConnectDestroyed" => r = "queued"
    /\ \A i, j \in 1 .. Len(q) :
          q[i] = "ConnectDestroyed" /\ q[j] = "ConnectDestroyed" => i = j

TaskInv == TaskOrder(batch \o functors, ups, removal)

(* Nothing is missing between what was written and what still waits,       *)
(* unless writing has become impossible.                                   *)
Complete == wire \o output_buffer_ \o message = Stream(1, given)

StreamInv ==
    /\ wire = Stream(1, Len(wire))
    /\ SendBroken \/ Complete
    /\ peer # "reset" /\ caller = "idle" => Complete

(* A loop that alone shuts the connection down does so outside of send.    *)
ShutdownInv ==
    /\ fin /\ caller = "idle" => state_ \in {"kDisconnecting", "kDisconnected"} /\ sending = "no"
    /\ sending # "no" /\ caller = "idle" => state_ = "kConnected"
    /\ pc = "onWriteComplete" /\ ~write_complete_callback_ => output_buffer_ = <<>> /\ sending = "no"
    /\ fin /\ caller = "idle" /\ ~write_complete_callback_ => output_buffer_ = <<>>

ConnInv ==
    /\ TypeOK /\ LifeInv /\ ChannelInv /\ ThreadInv /\ TaskInv /\ StreamInv /\ ShutdownInv

-----------------------------------------------------------------------------
(* Each part of the invariant survives what leaves its variables alone.    *)
LEMMA Frames ==
    /\ LifeInv /\ UNCHANGED <<ups, state_, removal, downs, caller, output_buffer_>> => LifeInv'
    /\ ChannelInv /\ UNCHANGED <<channel, ups, removal, output_buffer_>> => ChannelInv'
    /\ ThreadInv /\ UNCHANGED <<pc, batch, ups, removal, revents_, sending, message>> => ThreadInv'
    /\ TaskInv /\ UNCHANGED <<batch, functors, ups, removal>> => TaskInv'
    /\ StreamInv /\ UNCHANGED <<wire, output_buffer_, message, given, fin, peer, caller>>
          => StreamInv'
    /\ ShutdownInv /\ UNCHANGED <<fin, caller, state_, sending, pc, output_buffer_,
                                  write_complete_callback_>> => ShutdownInv'
  <1>1. LifeInv /\ UNCHANGED <<ups, state_, removal, downs, caller, output_buffer_>> => LifeInv'
    BY Zenon DEF LifeInv, Up, Open
  <1>2. ChannelInv /\ UNCHANGED <<channel, ups, removal, output_buffer_>> => ChannelInv'
    BY Zenon DEF ChannelInv, Up, channel, is_writing
  <1>3. ThreadInv /\ UNCHANGED <<pc, batch, ups, removal, revents_, sending, message>> => ThreadInv'
    BY Zenon DEF ThreadInv
  <1>4. TaskInv /\ UNCHANGED <<batch, functors, ups, removal>> => TaskInv'
    BY Zenon DEF TaskInv, TaskOrder
  <1>5. StreamInv /\ UNCHANGED <<wire, output_buffer_, message, given, fin, peer, caller>>
          => StreamInv'
    BY DEF StreamInv, Complete, SendBroken
  <1>6. ShutdownInv /\ UNCHANGED <<fin, caller, state_, sending, pc, output_buffer_,
                                   write_complete_callback_>> => ShutdownInv'
    BY DEF ShutdownInv
  <1> QED
    BY Zenon, <1>1, <1>2, <1>3, <1>4, <1>5, <1>6

(* What is written begins the stream when nothing is missing.              *)
LEMMA CompletePrefix ==
    ASSUME NEW w \in Seq(Bytes), NEW o \in Seq(Bytes), NEW m \in Seq(Bytes),
           NEW g \in 0..MaxBytes, (w \o o) \o m = Stream(1, g)
    PROVE  w = Stream(1, Len(w))
  <1>1. MaxBytes \in Nat
    BY Zenon, ConnectionAssumption
  <1>2. w \o (o \o m) = Stream(1, g)
    BY Zenon, Associative
  <1>3. o \o m \in Seq(Bytes)
    BY Zenon, ConcatProperties
  <1> QED
    BY Zenon, <1>1, <1>2, <1>3, StreamPrefix

LEMMA InitInv == Init => ConnInv
  <1> SUFFICES ASSUME Init PROVE ConnInv
    OBVIOUS
  <1> USE ConnectionAssumption DEF Init
  <1>1. TypeOK
    <2>1. /\ <<>> \in Seq(1..MaxBytes) /\ Len(<<>>) = 0
          /\ <<>> \in Seq({"ConnectEstablished", "ConnectDestroyed", "task"})
          /\ <<"ConnectEstablished">> \in Seq({"ConnectEstablished", "ConnectDestroyed", "task"})
      OBVIOUS
    <2>2. 0 \in 0..MaxBytes /\ 0 \in 0..0 /\ 0 \in 0..1 /\ 0 \in Nat /\ 0 - 0 <= SockCap
      OBVIOUS
    <2> QED
      BY Zenon, <2>1, <2>2 DEF TypeOK, States, UserCode
  <1>2. LifeInv /\ ChannelInv /\ ThreadInv /\ ShutdownInv
    BY DEF LifeInv, Up, Open, ChannelInv, is_writing, ThreadInv, UserCode, ShutdownInv
  <1>3. TaskInv
    <2>1. <<>> \o <<"ConnectEstablished">> = <<"ConnectEstablished">>
      OBVIOUS
    <2>2. TaskOrder(<<"ConnectEstablished">>, 0, "none")
      BY DEF TaskOrder
    <2> QED
      BY Zenon, <2>1, <2>2 DEF TaskInv
  <1>4. StreamInv
    <2>1. Stream(1, 0) = <<>>
      BY DEF Stream
    <2>2. Len(<<>>) = 0 /\ (<<>> \o <<>>) \o <<>> = <<>>
      OBVIOUS
    <2>3. wire = Stream(1, Len(wire))
      BY Zenon, <2>1, <2>2
    <2>4. Complete
      BY Zenon, <2>1, <2>2 DEF Complete
    <2> QED
      BY Zenon, <2>3, <2>4 DEF StreamInv
  <1> QED
    BY Zenon, <1>1, <1>2, <1>3, <1>4 DEF ConnInv

-----------------------------------------------------------------------------
(* The poll and the handlers of the channel's events.                      *)

LEMMA PollStep == ConnInv /\ Poll => ConnInv'
  <1> SUFFICES ASSUME ConnInv, Poll PROVE ConnInv'
    OBVIOUS
  <1> USE DEF ConnInv
  <1>1. Reported \subseteq {"read", "write", "hup", "err"}
    BY Zenon DEF TypeOK, Reported, ReadyEvents
  <1>2. Reported # {} => Up
    BY Zenon DEF Reported, ChannelInv
  <1>3. TypeOK'
    BY <1>1 DEF TypeOK, Poll, channel, socket, conn, rest, UserCode
  <1>4. ThreadInv'
    BY Zenon, <1>2 DEF ThreadInv, TypeOK, Poll, conn, Up, UserCode
  <1>5. ShutdownInv'
    BY Zenon DEF ShutdownInv, Poll, socket, conn, rest
  <1>6. LifeInv' /\ ChannelInv' /\ TaskInv' /\ StreamInv'
    BY Zenon, Frames DEF Poll, channel, socket, conn, rest
  <1> QED
    BY Zenon, <1>3, <1>4, <1>5, <1>6

(* HandleClose finds the channel in the poller: DisableAll takes it out.   *)
LEMMA CloseDisables ==
    ASSUME ConnInv, Up, HandleClose
    PROVE  /\ events_' = {} /\ interest' = {"absent"} /\ index_' = "kDeleted"
           /\ state_' = "kDisconnected" /\ downs' = 1 /\ removal' = "requested"
  <1>1. index_ = "kAdded" /\ downs = 0
    BY Zenon DEF ConnInv, ChannelInv, LifeInv
  <1> QED
    BY <1>1 DEF HandleClose, DisableAll, UpdateChannel

(* It leads to what the invariant says of a connection that is removed.    *)
LEMMA CloseStep ==
    ASSUME ConnInv, Up, HandleClose, UNCHANGED <<ups, output_buffer_, caller>>
    PROVE  LifeInv' /\ ChannelInv'
  <1>1. ups = 1
    BY Zenon DEF Up
  <1>2. LifeInv'
    BY <1>1, CloseDisables DEF LifeInv, Up, Open
  <1>3. ChannelInv'
    BY Zenon, <1>1, CloseDisables DEF ChannelInv, Up
  <1> QED
    BY Zenon, <1>2, <1>3

(* No task waits to destroy a connection that nobody removes yet.          *)
LEMMA CloseTasks ==
    ASSUME TaskInv, Up, ups' = ups, batch' = batch, functors' = functors
    PROVE  TaskInv'
  BY Zenon DEF TaskInv, TaskOrder, Up

LEMMA HangUpStep == ConnInv /\ HandleHangUpAndError => ConnInv'
  <1> SUFFICES ASSUME ConnInv, HandleHangUpAndError PROVE ConnInv'
    OBVIOUS
  <1> USE DEF ConnInv
  <1>1. Up
    BY Zenon DEF Up, ThreadInv, HandleHangUpAndError
  <1>2. sending = "no"
    BY Zenon DEF ThreadInv, HandleHangUpAndError, UserCode
  <1>3. StreamInv'
    BY Zenon, Frames DEF HandleHangUpAndError, rest
  <1>4. TaskInv'
    BY Zenon, <1>1, CloseTasks DEF HandleHangUpAndError
  <1>5. CASE "hup" \in revents_ /\ "read" \notin revents_
    <2>1. HandleClose
      BY Zenon, <1>5 DEF HandleHangUpAndError
    <2>2. /\ events_' = {} /\ interest' = {"absent"} /\ index_' = "kDeleted"
          /\ state_' = "kDisconnected" /\ downs' = 1 /\ removal' = "requested"
      BY Zenon, <2>1, <1>1, CloseDisables
    <2>3. LifeInv' /\ ChannelInv'
      BY Zenon, <1>1, <2>1, CloseStep DEF HandleHangUpAndError, rest
    <2>4. TypeOK'
      BY <2>2 DEF TypeOK, HandleHangUpAndError, States, rest
    <2>5. ThreadInv'
      BY Zenon, <1>1, <1>2, <1>5, <2>2 DEF ThreadInv, HandleHangUpAndError, Up
    <2>6. ShutdownInv'
      BY Zenon, <1>2, <2>2 DEF ShutdownInv, HandleHangUpAndError, rest
    <2> QED
      BY Zenon, <1>3, <1>4, <2>3, <2>4, <2>5, <2>6
  <1>6. CASE ~("hup" \in revents_ /\ "read" \notin revents_)
    <2>1. UNCHANGED <<channel, state_, downs, removal>>
      BY Zenon, <1>6 DEF HandleHangUpAndError
    <2>2. TypeOK'
      BY <2>1 DEF TypeOK, HandleHangUpAndError, channel, rest
    <2>3. ThreadInv'
      BY Zenon, <1>1, <1>2, <2>1 DEF ThreadInv, HandleHangUpAndError, Up
    <2>4. ShutdownInv'
      BY Zenon, <1>2, <2>1 DEF ShutdownInv, HandleHangUpAndError, rest
    <2>5. LifeInv' /\ ChannelInv'
      BY Zenon, <2>1, Frames DEF HandleHangUpAndError, rest
    <2> QED
      BY Zenon, <1>3, <1>4, <2>2, <2>3, <2>4, <2>5
  <1> QED
    BY Zenon, <1>5, <1>6

(* ::write takes no more than there is, nor than there is room for, and    *)
(* nothing once it is broken.                                              *)
LEMMA TakenBounds ==
    ASSUME TypeOK, NEW l \in Nat
    PROVE  /\ Taken(l) \in 0 .. l
           /\ Taken(l) <= SockCap - (Len(wire) - drained)
           /\ Taken(l) > 0 => ~SendBroken
  <1>1. /\ Len(wire) \in Nat /\ drained \in Nat /\ drained <= Len(wire) /\ SockCap \in Nat
        /\ Len(wire) - drained <= SockCap
    BY ConnectionAssumption DEF TypeOK
  <1>2. CASE SendBroken
    BY <1>1, <1>2 DEF Taken
  <1>3. CASE ~SendBroken
    BY <1>1, <1>3 DEF Taken, Space
  <1> QED
    BY Zenon, <1>2, <1>3

LEMMA WriteFits ==
    ASSUME TypeOK, NEW s \in Seq(Bytes), NEW n \in 0 .. Len(s),
           n <= SockCap - (Len(wire) - drained),
           wire' = wire \o SubSeq(s, 1, n), drained' = drained
    PROVE  /\ wire' \in Seq(1..MaxBytes)
           /\ drained' \in 0 .. Len(wire)'
           /\ Len(wire)' - drained' <= SockCap
  <1> DEFINE f == SubSeq(s, 1, n)
  <1>1. f \in Seq(Bytes) /\ Len(f) = n /\ wire' = wire \o f
    BY Zenon, WriteSplits
  <1> HIDE DEF f
  <1>2. wire \in Seq(Bytes) /\ Len(wire) \in Nat /\ drained \in 0 .. Len(wire) /\ SockCap \in Nat
    BY ConnectionAssumption DEF TypeOK, Bytes
  <1>3. wire' \in Seq(Bytes) /\ Len(wire') = Len(wire) + Len(f)
    BY Zenon, <1>1, <1>2, ConcatProperties
  <1>4. n \in Nat /\ Len(wire') = Len(wire) + n
    BY <1>1, <1>2, <1>3
  <1>5. drained' \in 0 .. Len(wire') /\ Len(wire') - drained' <= SockCap
    BY <1>2, <1>4
  <1> QED
    BY Zenon, <1>3, <1>5 DEF Bytes

(* A channel that goes on reading stays in the poller.                     *)
LEMMA UpdateKeeps ==
    ASSUME NEW wanted, "read" \in wanted, UpdateChannel(wanted)
    PROVE  events_' = wanted /\ interest' = wanted /\ index_' = "kAdded"
  BY Zenon DEF UpdateChannel

LEMMA WriteStep == ConnInv /\ HandleWrite => ConnInv'
  <1> SUFFICES ASSUME ConnInv, HandleWrite PROVE ConnInv'
    OBVIOUS
  <1> USE DEF ConnInv
  <1>1. /\ pc = "out" /\ sending = "no" /\ message = <<>> /\ batch = <<>> /\ ups = 1
        /\ UNCHANGED <<ups, state_, removal, downs, caller, given, fin, peer, functors, batch,
                       write_complete_callback_, message, sending, revents_, drained>>
    BY Zenon DEF ThreadInv, HandleWrite, UserCode
  <1>2. TaskInv'
    BY Zenon, Frames DEF HandleWrite
  <1> DEFINE n == Taken(Len(output_buffer_))
  <1>3. output_buffer_ \in Seq(Bytes) /\ Len(output_buffer_) \in Nat
    BY DEF TypeOK, Bytes
  <1>4. /\ n \in 0 .. Len(output_buffer_) /\ n <= SockCap - (Len(wire) - drained)
        /\ n > 0 => ~SendBroken
    BY Zenon, <1>3, TakenBounds
  <1>5. CASE WritesNow /\ n > 0
    <2>1. /\ wire' = wire \o SubSeq(output_buffer_, 1, n)
          /\ output_buffer_' = SubSeq(output_buffer_, n + 1, Len(output_buffer_))
          /\ IF output_buffer_' = <<>>
             THEN DisableWriting /\ pc' = "onWriteComplete"
             ELSE UNCHANGED channel /\ pc' = "in"
      BY Zenon, <1>5 DEF HandleWrite
    <2>2. ~SendBroken
      BY Zenon, <1>4, <1>5
    <2> HIDE DEF n
    <2>3. Up /\ is_writing
      BY Zenon, <1>5 DEF WritesNow, is_writing, ChannelInv
    <2>4. /\ index_ = "kAdded" /\ interest = events_ /\ "read" \in events_
          /\ events_ \subseteq {"read", "write"}
      BY Zenon, <2>3 DEF ChannelInv, TypeOK
    <2>5. output_buffer_' \in Seq(Bytes)
      BY Zenon, <1>3, <1>4, <2>1, WriteSplits
    <2>6. /\ wire' \in Seq(1..MaxBytes) /\ drained' \in 0 .. Len(wire)'
          /\ Len(wire)' - drained' <= SockCap
      BY Zenon, <1>1, <1>3, <1>4, <2>1, WriteFits
    <2>7. /\ index_' = "kAdded" /\ interest' = events_' /\ "read" \in events_'
          /\ events_' \subseteq {"read", "write"}
          /\ is_writing' <=> output_buffer_' # <<>>
          /\ pc' = IF output_buffer_' = <<>> THEN "onWriteComplete" ELSE "in"
      <3>1. CASE output_buffer_' = <<>>
        <4>1. /\ pc' = "onWriteComplete" /\ UpdateChannel(events_ \ {"write"})
              /\ "read" \in events_ \ {"write"}
          BY Zenon, <3>1, <2>1, <2>4 DEF DisableWriting
        <4>2. events_' = events_ \ {"write"} /\ interest' = events_' /\ index_' = "kAdded"
          BY Zenon, <4>1, UpdateKeeps
        <4> QED
          BY Zenon, <3>1, <4>1, <4>2, <2>4 DEF is_writing
      <3>2. CASE output_buffer_' # <<>>
        BY Zenon, <3>2, <2>1, <2>3, <2>4 DEF channel, is_writing
      <3> QED
        BY Zenon, <3>1, <3>2
    <2>8. TypeOK'
      <3>1. (skerr \in BOOLEAN)' /\ (killed \in BOOLEAN)'
        BY Zenon DEF HandleWrite, WriteFails, TypeOK
      <3> QED
        BY SMTT(30), <3>1, <1>1, <2>5, <2>6, <2>7 DEF TypeOK, HandleWrite, UserCode, Bytes
    <2>9. LifeInv'
      BY Zenon, <1>1 DEF LifeInv, Up, Open
    <2>10. ChannelInv'
      BY Zenon, <1>1, <2>3, <2>7 DEF ChannelInv, Up
    <2>11. ThreadInv'
      BY Zenon, <1>1, <2>3, <2>7 DEF ThreadInv, Up, UserCode
    <2>12. StreamInv'
      <3>1. Complete
        BY Zenon, <2>2 DEF StreamInv
      <3>2. message \in Seq(Bytes) /\ wire \in Seq(Bytes)
        BY Zenon DEF TypeOK, Bytes
      <3>3. (wire' \o output_buffer_') \o message' = (wire \o output_buffer_) \o message
        <4>1. ((wire \o SubSeq(output_buffer_, 1, n))
                    \o SubSeq(output_buffer_, n + 1, Len(output_buffer_))) \o message
                = (wire \o output_buffer_) \o message
          BY Zenon, <1>3, <1>4, <3>2, WriteKeeps
        <4> QED
          BY Zenon, <4>1, <2>1, <1>1
      <3>4. Complete'
        BY Zenon, <3>1, <3>3, <1>1 DEF Complete, Stream
      <3>5. (wire = Stream(1, Len(wire)))'
        <4>1. /\ wire' \in Seq(Bytes) /\ output_buffer_' \in Seq(Bytes)
              /\ message' \in Seq(Bytes) /\ given' \in 0..MaxBytes
          BY Zenon, <2>5, <2>6, <3>2, <1>1 DEF TypeOK, Bytes
        <4> QED
          BY Zenon, <3>4, <4>1, CompletePrefix DEF Complete
      <3> QED
        BY Zenon, <3>4, <3>5 DEF StreamInv
    <2>13. ShutdownInv'
      BY Zenon, <1>1, <2>1, <2>2, <2>7 DEF ShutdownInv, SendBroken
    <2> QED
      BY Zenon, <1>2, <2>8, <2>9, <2>10, <2>11, <2>12, <2>13
  <1>6. CASE ~(WritesNow /\ n > 0)
    <2>1. pc' = "in" /\ UNCHANGED <<wire, output_buffer_, channel>>
      BY Zenon, <1>6 DEF HandleWrite
    <2>2. TypeOK'
      <3>1. (skerr \in BOOLEAN)' /\ (killed \in BOOLEAN)'
        BY Zenon DEF HandleWrite, WriteFails, TypeOK
      <3> QED
        BY <3>1, <1>1, <2>1 DEF TypeOK, HandleWrite, channel
    <2>3. ThreadInv'
      BY Zenon, <1>1, <2>1 DEF ThreadInv
    <2>4. ShutdownInv'
      BY Zenon, <1>1, <2>1 DEF ShutdownInv
    <2>5. LifeInv' /\ ChannelInv' /\ StreamInv'
      BY Zenon, <1>1, <2>1, Frames
    <2> QED
      BY Zenon, <1>2, <2>2, <2>3, <2>4, <2>5
  <1> QED
    BY Zenon, <1>5, <1>6

LEMMA WriteCompletedStep == ConnInv /\ WriteCompleted => ConnInv'
  <1> SUFFICES ASSUME ConnInv, WriteCompleted PROVE ConnInv'
    OBVIOUS
  <1> USE DEF ConnInv
  <1>1. /\ pc = "onWriteComplete" /\ pc' = "in" /\ sending = "no" /\ message = <<>>
        /\ batch = <<>> /\ ups = 1
        /\ UNCHANGED <<channel, conn, rest, wire, peer, revents_, sending, message, functors, batch>>
    BY Zenon DEF ThreadInv, WriteCompleted, NotSending
  <1>2. IF state_ = "kDisconnecting" THEN fin' = TRUE ELSE fin' = fin
    BY Zenon DEF WriteCompleted, FinishShutdown, ShutdownWrite
  <1>3. TypeOK'
    <2>1. (fin \in BOOLEAN)'
      BY Zenon, <1>2 DEF TypeOK
    <2> QED
      BY <1>1, <2>1 DEF TypeOK, WriteCompleted, channel, conn, rest
  <1>4. ThreadInv'
    BY Zenon, <1>1 DEF ThreadInv, conn
  <1>5. StreamInv'
    BY Zenon, <1>1, <1>2 DEF StreamInv, Complete, SendBroken, conn, rest
  <1>6. ShutdownInv'
    BY Zenon, <1>1, <1>2 DEF ShutdownInv, conn, rest
  <1>7. LifeInv' /\ ChannelInv' /\ TaskInv'
    BY Zenon, <1>1, Frames DEF conn, rest
  <1> QED
    BY Zenon, <1>3, <1>4, <1>5, <1>6, <1>7

LEMMA ReadStep == ConnInv /\ HandleRead => ConnInv'
  <1> SUFFICES ASSUME ConnInv, HandleRead PROVE ConnInv'
    OBVIOUS
  <1> USE DEF ConnInv
  <1>1. /\ pc = "in" /\ sending = "no" /\ batch = <<>> /\ ups = 1
        /\ UNCHANGED <<ups, caller, wire, output_buffer_, message, given, fin, peer,
                       sending, batch, functors, revents_, write_complete_callback_, killed>>
    BY Zenon DEF ThreadInv, HandleRead, UserCode, rest
  <1>2. StreamInv'
    BY Zenon, <1>1, Frames
  <1>3. CASE "read" \in revents_ /\ ~rcv /\ ~skerr
    <2>1. HandleClose /\ pc' = "swap" /\ UNCHANGED <<rcv, skerr>>
      BY Zenon, <1>3 DEF HandleRead
    <2>2. Up
      BY Zenon, <1>1, <1>3 DEF ThreadInv, Up
    <2>3. /\ events_' = {} /\ interest' = {"absent"} /\ index_' = "kDeleted"
          /\ state_' = "kDisconnected" /\ downs' = 1 /\ removal' = "requested"
      BY Zenon, <2>1, <2>2, CloseDisables
    <2>4. LifeInv' /\ ChannelInv'
      BY Zenon, <1>1, <2>1, <2>2, CloseStep
    <2>5. TypeOK'
      BY <1>1, <2>1, <2>3 DEF TypeOK, HandleRead, States
    <2>6. ThreadInv'
      BY Zenon, <1>1, <2>1, <2>3 DEF ThreadInv
    <2>7. ShutdownInv'
      BY Zenon, <1>1, <2>1, <2>3 DEF ShutdownInv
    <2>8. TaskInv'
      BY Zenon, <1>1, <2>2, CloseTasks
    <2> QED
      BY Zenon, <1>2, <2>4, <2>5, <2>6, <2>7, <2>8
  <1>4. CASE ~("read" \in revents_ /\ ~rcv /\ ~skerr)
    <2>1. /\ pc' \in {"swap", "onMessage"} /\ rcv' \in {rcv, FALSE} /\ skerr' \in {skerr, FALSE}
          /\ UNCHANGED <<channel, state_, downs, removal>>
      BY Zenon, <1>4 DEF HandleRead
    <2>2. TypeOK'
      <3>1. (rcv \in BOOLEAN)' /\ (skerr \in BOOLEAN)'
        BY Zenon, <2>1 DEF TypeOK
      <3> QED
        BY <3>1, <1>1, <2>1 DEF TypeOK, HandleRead, UserCode, channel
    <2>3. ThreadInv'
      BY Zenon, <1>1, <2>1 DEF ThreadInv, UserCode
    <2>4. ShutdownInv'
      BY Zenon, <1>1, <2>1 DEF ShutdownInv
    <2>5. LifeInv' /\ ChannelInv' /\ TaskInv'
      BY Zenon, <1>1, <2>1, Frames
    <2> QED
      BY Zenon, <1>2, <2>2, <2>3, <2>4, <2>5
  <1> QED
    BY Zenon, <1>3, <1>4

-----------------------------------------------------------------------------
(* The functors of the loop.                                               *)

TaskNames == {"ConnectEstablished", "ConnectDestroyed", "task"}

(* Running the first task keeps the order of the others.                   *)
LEMMA TaskRuns ==
    ASSUME NEW q \in Seq(TaskNames), q # <<>>, NEW u \in 0..1, NEW r, TaskOrder(q, u, r)
    PROVE  /\ Head(q) = "ConnectEstablished" => u = 0 /\ TaskOrder(Tail(q), 1, r)
           /\ Head(q) = "ConnectDestroyed" =>
                 u = 1 /\ r = "queued" /\ TaskOrder(Tail(q), 1, "done")
           /\ Head(q) = "task" => u = 1 /\ TaskOrder(Tail(q), 1, r)
  <1>1. /\ Len(q) \in Nat /\ Len(q) > 0 /\ Head(q) = q[1] /\ Tail(q) \in Seq(TaskNames)
        /\ Len(Tail(q)) = Len(q) - 1
        /\ \A i \in 1 .. Len(Tail(q)) : i + 1 \in 1 .. Len(q) /\ Tail(q)[i] = q[i + 1]
    OBVIOUS
  <1> DEFINE t == Tail(q)
  <1> HIDE DEF t
  <1>2. /\ Len(t) \in Nat /\ 1 \in 1 .. Len(q)
        /\ \A i \in 1 .. Len(t) : i + 1 \in 1 .. Len(q) /\ i + 1 # 1 /\ t[i] = q[i + 1]
        /\ \A i, j \in 1 .. Len(t) : i + 1 = j + 1 => i = j
    BY <1>1 DEF t
  <1>3. \A i \in 1 .. Len(t) : t[i] # "ConnectEstablished"
    BY Zenon, <1>2 DEF TaskOrder
  <1>4. \A i, j \in 1 .. Len(t) :
           t[i] = "ConnectDestroyed" /\ t[j] = "ConnectDestroyed" => i = j
    BY SMTT(30), <1>2 DEF TaskOrder
  <1>5. ASSUME q[1] # "ConnectDestroyed"
        PROVE  TaskOrder(t, 1, r)
    BY <1>2, <1>3, <1>4 DEF TaskOrder
  <1>6. ASSUME q[1] = "ConnectDestroyed"
        PROVE  u = 1 /\ r = "queued" /\ TaskOrder(t, 1, "done")
    <2>1. u = 1 /\ r = "queued"
      BY <1>2, <1>6 DEF TaskOrder
    <2>2. \A i \in 1 .. Len(t) : t[i] # "ConnectDestroyed"
      BY <1>2, <1>6 DEF TaskOrder
    <2> QED
      BY <2>1, <2>2, <1>3 DEF TaskOrder
  <1>7. q[1] = "ConnectEstablished" => u = 0
    BY Zenon, <1>2 DEF TaskOrder
  <1>8. q[1] = "task" => u = 1
    BY <1>2 DEF TaskOrder
  <1> QED
    BY Zenon, <1>1, <1>5, <1>6, <1>7, <1>8 DEF t

(* New tasks go to the end.                                                *)
LEMMA TaskQueued ==
    ASSUME NEW q \in Seq(TaskNames), NEW u \in 0..1, NEW r, TaskOrder(q, u, r)
    PROVE  /\ TaskOrder(Append(q, "task"), u, r)
           /\ r = "requested" => TaskOrder(Append(q, "ConnectDestroyed"), u, "queued")
  <1>1. ASSUME NEW x
        PROVE  /\ Len(q) \in Nat /\ Len(Append(q, x)) = Len(q) + 1
               /\ Append(q, x)[Len(q) + 1] = x
               /\ \A i \in 1 .. Len(q) : Append(q, x)[i] = q[i]
               /\ q # <<>> => 1 \in 1 .. Len(q) /\ Append(q, x) # <<>>
               /\ \A i \in 1 .. Len(q) + 1 : i # Len(q) + 1 => i \in 1 .. Len(q)
    BY SMTT(30)
  <1>2. TaskOrder(Append(q, "task"), u, r)
    BY <1>1 DEF TaskOrder
  <1>3. r = "requested" => TaskOrder(Append(q, "ConnectDestroyed"), u, "queued")
    BY <1>1 DEF TaskOrder
  <1> QED
    BY Zenon, <1>2, <1>3

LEMMA SwapStep == ConnInv /\ SwapFunctors => ConnInv'
  <1> SUFFICES ASSUME ConnInv, SwapFunctors PROVE ConnInv'
    OBVIOUS
  <1> USE DEF ConnInv
  <1>1. /\ pc = "swap" /\ pc' = "functors" /\ batch = <<>> /\ sending = "no"
        /\ batch' = functors /\ functors' = <<>>
        /\ UNCHANGED <<channel, socket, conn, revents_, sending, message, rest>>
    BY Zenon DEF ThreadInv, SwapFunctors, UserCode
  <1>2. TypeOK'
    <2>1. (batch \in Seq(TaskNames))' /\ (functors \in Seq(TaskNames))'
      BY Zenon, <1>1 DEF TypeOK, TaskNames
    <2> QED
      BY <1>1, <2>1 DEF TypeOK, channel, socket, conn, rest, TaskNames
  <1>3. ThreadInv'
    BY Zenon, <1>1 DEF ThreadInv, conn
  <1>4. TaskInv'
    <2>1. functors \in Seq(TaskNames)
      BY Zenon DEF TypeOK, TaskNames
    <2>2. <<>> \o functors = functors /\ functors \o <<>> = functors
      BY Zenon, <2>1, ConcatEmptySeq
    <2> QED
      BY Zenon, <1>1, <2>2 DEF TaskInv, conn
  <1>5. ShutdownInv'
    BY Zenon, <1>1 DEF ShutdownInv, socket, conn, rest
  <1>6. LifeInv' /\ ChannelInv' /\ StreamInv'
    BY Zenon, <1>1, Frames DEF conn, rest, socket
  <1> QED
    BY Zenon, <1>2, <1>3, <1>4, <1>5, <1>6

(* The first of the loop's tasks is the first of its batch.                *)
LEMMA BatchFirst ==
    ASSUME TypeOK, batch # <<>>
    PROVE  /\ batch \o functors \in Seq(TaskNames) /\ batch \o functors # <<>>
           /\ Head(batch \o functors) = Head(batch)
           /\ Tail(batch \o functors) = Tail(batch) \o functors
           /\ Head(batch) \in TaskNames /\ Tail(batch) \in Seq(TaskNames)
  <1>1. batch \in Seq(TaskNames) /\ functors \in Seq(TaskNames)
    BY Zenon DEF TypeOK, TaskNames
  <1>2. /\ batch \o functors \in Seq(TaskNames) /\ batch \o functors # <<>>
        /\ Head(batch \o functors) = Head(batch)
        /\ Head(batch) \in TaskNames /\ Tail(batch) \in Seq(TaskNames)
    BY <1>1
  <1>3. Tail(batch \o functors) = Tail(batch) \o functors
    BY <1>1
  <1> QED
    BY Zenon, <1>2, <1>3

(* ConnectDestroyed, whoever calls it, leads to what the invariant says of *)
(* a connection that is removed.                                           *)
LEMMA DestroyStep ==
    ASSUME ConnInv, ConnectDestroyed, ups = 1, removal \in {"none", "queued"},
           UNCHANGED <<caller, output_buffer_>>
    PROVE  /\ events_' = {} /\ interest' = {"absent"} /\ index_' = "kDeleted"
           /\ state_' = "kDisconnected" /\ downs' \in Nat /\ removal' = "done"
           /\ ups' = 1 /\ pc' = pc
           /\ LifeInv' /\ ChannelInv'
  <1> USE DEF ConnInv
  <1>1. /\ events_' = {} /\ interest' = {"absent"} /\ index_' = "kDeleted"
        /\ removal' = "done" /\ ups' = 1 /\ pc' = pc
        /\ IF state_ \in {"kConnected", "kDisconnecting"}
           THEN state_' = "kDisconnected" /\ downs' = downs + 1
           ELSE state_' = state_ /\ downs' = downs
    BY Zenon DEF ConnectDestroyed, DisableAllAndRemove
  <1>2. /\ state_ \in {"kConnected", "kDisconnecting", "kDisconnected"}
        /\ removal = "none" => state_ \in {"kConnected", "kDisconnecting"} /\ downs = 0
        /\ removal = "queued" =>
              downs = 1 /\ (caller = "idle" => state_ = "kDisconnected")
    BY Zenon DEF LifeInv, Up, Open, TypeOK, States
  <1>3. state_' = "kDisconnected" /\ downs' \in 1..2 /\ (caller = "idle" => downs' = 1)
    BY <1>1, <1>2
  <1>4. LifeInv'
    BY Zenon, <1>1, <1>3 DEF LifeInv, Up, Open
  <1>5. ChannelInv'
    BY Zenon, <1>1 DEF ChannelInv, Up
  <1> QED
    BY <1>1, <1>3, <1>4, <1>5

LEMMA RunStep == ConnInv /\ RunFunctor => ConnInv'
  <1> SUFFICES ASSUME ConnInv, RunFunctor PROVE ConnInv'
    OBVIOUS
  <1> USE DEF ConnInv
  <1>1. /\ pc = "functors" /\ batch # <<>> /\ batch' = Tail(batch) /\ sending = "no"
        /\ UNCHANGED <<socket, output_buffer_, given, revents_, sending, message, functors, rest>>
    BY Zenon DEF RunFunctor, ThreadInv, UserCode
  <1> DEFINE q == batch \o functors
  <1>2. /\ q \in Seq(TaskNames) /\ q # <<>> /\ Head(q) = Head(batch)
        /\ Tail(q) = (batch \o functors)'
        /\ Head(batch) \in TaskNames /\ batch' \in Seq(TaskNames)
    BY Zenon, <1>1, BatchFirst
  <1>3. TaskOrder(q, ups, removal) /\ ups \in 0..1
    BY Zenon DEF TaskInv, TypeOK
  <1> HIDE DEF q
  <1>4. /\ Head(q) = "ConnectEstablished" => ups = 0 /\ TaskOrder(Tail(q), 1, removal)
        /\ Head(q) = "ConnectDestroyed" =>
              ups = 1 /\ removal = "queued" /\ TaskOrder(Tail(q), 1, "done")
        /\ Head(q) = "task" => ups = 1 /\ TaskOrder(Tail(q), 1, removal)
    BY Zenon, <1>2, <1>3, TaskRuns
  <1>5. StreamInv'
    BY Zenon, <1>1, Frames DEF socket, rest
  <1>6. CASE Head(batch) = "ConnectEstablished"
    <2>1. ConnectEstablished
      BY Zenon, <1>6 DEF RunFunctor
    <2>2. /\ ups = 0 /\ state_ = "kConnecting" /\ removal = "none" /\ downs = 0
          /\ caller = "idle" /\ output_buffer_ = <<>>
      BY Zenon, <1>2, <1>4, <1>6 DEF LifeInv
    <2>3. events_ = {} /\ index_ # "kAdded"
      BY <2>2 DEF ChannelInv, Up
    <2>4. /\ state_' = "kConnected" /\ ups' = 1 /\ pc' = "task" /\ downs' = downs
          /\ removal' = removal
          /\ events_' = {"read"} /\ interest' = {"read"} /\ index_' = "kAdded"
      BY <2>1, <2>2, <2>3 DEF ConnectEstablished, EnableReading, UpdateChannel
    <2>5. TypeOK'
      BY <1>1, <1>2, <2>4 DEF TypeOK, States, UserCode, socket, rest, TaskNames
    <2>6. LifeInv'
      BY Zenon, <1>1, <2>2, <2>4 DEF LifeInv, Up, Open, rest
    <2>7. ChannelInv'
      BY Zenon, <1>1, <2>2, <2>4 DEF ChannelInv, Up, is_writing
    <2>8. ThreadInv'
      BY Zenon, <1>1, <2>2, <2>4 DEF ThreadInv
    <2>9. ShutdownInv'
      BY Zenon, <1>1, <2>2, <2>4 DEF ShutdownInv, socket, rest
    <2>10. TaskInv'
      BY Zenon, <1>2, <1>4, <1>6, <2>4 DEF TaskInv
    <2> QED
      BY Zenon, <1>5, <2>5, <2>6, <2>7, <2>8, <2>9, <2>10
  <1>7. CASE Head(batch) = "ConnectDestroyed"
    <2>1. ConnectDestroyed
      BY Zenon, <1>7 DEF RunFunctor
    <2>2. ups = 1 /\ removal = "queued" /\ TaskOrder(Tail(q), 1, "done")
      BY Zenon, <1>2, <1>4, <1>7
    <2>3. /\ events_' = {} /\ interest' = {"absent"} /\ index_' = "kDeleted"
          /\ state_' = "kDisconnected" /\ downs' \in Nat /\ removal' = "done"
          /\ ups' = 1 /\ pc' = pc
          /\ LifeInv' /\ ChannelInv'
      BY Zenon, <1>1, <2>1, <2>2, DestroyStep DEF rest
    <2>4. TypeOK'
      BY <1>1, <1>2, <2>3 DEF TypeOK, States, socket, rest, TaskNames
    <2>5. ThreadInv'
      BY Zenon, <1>1, <2>3 DEF ThreadInv
    <2>6. ShutdownInv'
      BY Zenon, <1>1, <2>3 DEF ShutdownInv, socket, rest
    <2>7. TaskInv'
      BY Zenon, <1>2, <2>2, <2>3 DEF TaskInv
    <2> QED
      BY Zenon, <1>5, <2>3, <2>4, <2>5, <2>6, <2>7
  <1>8. CASE Head(batch) = "task"
    <2>1. pc' = "task" /\ UNCHANGED <<channel, state_, ups, downs, removal>>
      BY Zenon, <1>8 DEF RunFunctor
    <2>2. ups = 1 /\ TaskOrder(Tail(q), 1, removal)
      BY Zenon, <1>2, <1>4, <1>8
    <2>3. TypeOK'
      BY SMTT(30), <1>1, <1>2, <2>1 DEF TypeOK, UserCode, channel, socket, rest, TaskNames
    <2>4. ThreadInv'
      BY Zenon, <1>1, <2>1, <2>2 DEF ThreadInv
    <2>5. ShutdownInv'
      BY Zenon, <1>1, <2>1 DEF ShutdownInv, socket, rest
    <2>6. TaskInv'
      BY Zenon, <1>2, <2>1, <2>2 DEF TaskInv
    <2>7. LifeInv' /\ ChannelInv'
      BY Zenon, <1>1, <2>1, Frames DEF rest
    <2> QED
      BY Zenon, <1>5, <2>3, <2>4, <2>5, <2>6, <2>7
  <1> QED
    BY Zenon, <1>2, <1>6, <1>7, <1>8 DEF TaskNames

LEMMA ServerDestroyedStep == ConnInv /\ ServerDestroyed => ConnInv'
  <1> SUFFICES ASSUME ConnInv, ServerDestroyed PROVE ConnInv'
    OBVIOUS
  <1> USE DEF ConnInv
  <1>1. /\ pc = "functors" /\ sending = "no" /\ removal = "none" /\ ups = 1
        /\ ConnectDestroyed
        /\ UNCHANGED <<socket, output_buffer_, given, revents_, sending, message, functors,
                       batch, rest>>
    BY DEF ServerDestroyed, ThreadInv, UserCode, LifeInv, TypeOK
  <1>2. /\ events_' = {} /\ interest' = {"absent"} /\ index_' = "kDeleted"
        /\ state_' = "kDisconnected" /\ downs' \in Nat /\ removal' = "done"
        /\ ups' = 1 /\ pc' = pc
        /\ LifeInv' /\ ChannelInv'
    BY Zenon, <1>1, DestroyStep DEF rest
  <1>3. TypeOK'
    BY <1>1, <1>2 DEF TypeOK, States, socket, rest
  <1>4. ThreadInv'
    BY Zenon, <1>1, <1>2 DEF ThreadInv
  <1>5. ShutdownInv'
    BY Zenon, <1>1, <1>2 DEF ShutdownInv, socket, rest
  <1>6. TaskInv'
    BY Zenon, <1>1, <1>2, CloseTasks DEF Up
  <1>7. StreamInv'
    BY Zenon, <1>1, Frames DEF socket, rest
  <1> QED
    BY Zenon, <1>2, <1>3, <1>4, <1>5, <1>6, <1>7

LEMMA FunctorsDoneStep == ConnInv /\ FunctorsDone => ConnInv'
  <1> SUFFICES ASSUME ConnInv, FunctorsDone PROVE ConnInv'
    OBVIOUS
  <1> USE DEF ConnInv
  <1>1. TypeOK'
    BY DEF TypeOK, FunctorsDone, channel, socket, conn, rest
  <1>2. ThreadInv'
    BY Zenon DEF ThreadInv, FunctorsDone, conn, UserCode
  <1>3. ShutdownInv'
    BY Zenon DEF ShutdownInv, FunctorsDone, socket, conn, rest
  <1>4. LifeInv' /\ ChannelInv' /\ TaskInv' /\ StreamInv'
    BY Zenon, Frames DEF FunctorsDone, socket, conn, rest
  <1> QED
    BY <1>1, <1>2, <1>3, <1>4

(* A task at the end of functors is one at the end of all tasks.           *)
LEMMA AppendTask ==
    ASSUME TypeOK, NEW x \in TaskNames
    PROVE  /\ batch \o functors \in Seq(TaskNames)
           /\ batch \o Append(functors, x) = Append(batch \o functors, x)
           /\ Append(functors, x) \in Seq(TaskNames)
  <1>1. batch \in Seq(TaskNames) /\ functors \in Seq(TaskNames)
    BY Zenon DEF TypeOK, TaskNames
  <1> QED
    BY <1>1

LEMMA RemoveStep == ConnInv /\ RemoveConnection => ConnInv'
  <1> SUFFICES ASSUME ConnInv, RemoveConnection PROVE ConnInv'
    OBVIOUS
  <1> USE DEF ConnInv
  <1>1. /\ removal = "requested" /\ removal' = "queued"
        /\ functors' = Append(functors, "ConnectDestroyed")
        /\ UNCHANGED <<channel, socket, state_, output_buffer_, given, ups, downs,
                       pc, revents_, sending, message, batch, rest>>
    BY Zenon DEF RemoveConnection
  <1>2. "ConnectDestroyed" \in TaskNames
    BY Zenon DEF TaskNames
  <1>3. functors' \in Seq(TaskNames)
    BY Zenon, <1>1, <1>2, AppendTask
  <1>4. TypeOK'
    BY <1>1, <1>3 DEF TypeOK, channel, socket, rest, TaskNames
  <1>5. LifeInv'
    BY Zenon, <1>1 DEF LifeInv, Up, Open, rest
  <1>6. ChannelInv'
    BY Zenon, <1>1 DEF ChannelInv, Up, channel
  <1>7. ThreadInv'
    BY Zenon, <1>1 DEF ThreadInv
  <1>8. TaskInv'
    <2> DEFINE q == batch \o functors
    <2>1. q \in Seq(TaskNames) /\ (batch \o functors)' = Append(q, "ConnectDestroyed")
      BY Zenon, <1>1, <1>2, AppendTask
    <2>2. TaskOrder(q, ups, removal) /\ ups \in 0..1
      BY DEF TaskInv, TypeOK
    <2> HIDE DEF q
    <2>3. TaskOrder(Append(q, "ConnectDestroyed"), ups, "queued")
      BY Zenon, <1>1, <2>1, <2>2, TaskQueued
    <2> QED
      BY Zenon, <1>1, <2>1, <2>3 DEF TaskInv
  <1>9. StreamInv' /\ ShutdownInv'
    BY Zenon, <1>1, Frames DEF socket, rest
  <1> QED
    BY Zenon, <1>4, <1>5, <1>6, <1>7, <1>8, <1>9

LEMMA QueueTaskStep == ConnInv /\ QueueTask => ConnInv'
  <1> SUFFICES ASSUME ConnInv, QueueTask PROVE ConnInv'
    OBVIOUS
  <1> USE DEF ConnInv
  <1>1. /\ functors' = Append(functors, "task")
        /\ UNCHANGED <<channel, socket, conn, pc, revents_, sending, message, batch, rest>>
    BY Zenon DEF QueueTask
  <1>2. "task" \in TaskNames
    BY Zenon DEF TaskNames
  <1>3. functors' \in Seq(TaskNames)
    BY Zenon, <1>1, <1>2, AppendTask
  <1>4. TypeOK'
    BY <1>1, <1>3 DEF TypeOK, channel, socket, conn, rest, TaskNames
  <1>5. TaskInv'
    <2> DEFINE q == batch \o functors
    <2>1. q \in Seq(TaskNames) /\ (batch \o functors)' = Append(q, "task")
      BY Zenon, <1>1, <1>2, AppendTask
    <2>2. TaskOrder(q, ups, removal) /\ ups \in 0..1
      BY DEF TaskInv, TypeOK
    <2> HIDE DEF q
    <2>3. TaskOrder(Append(q, "task"), ups, removal)
      BY Zenon, <2>1, <2>2, TaskQueued
    <2> QED
      BY Zenon, <1>1, <2>1, <2>3 DEF TaskInv, conn
  <1>6. LifeInv' /\ ChannelInv' /\ ThreadInv' /\ StreamInv' /\ ShutdownInv'
    BY Zenon, <1>1, Frames DEF socket, conn, rest
  <1> QED
    BY Zenon, <1>4, <1>5, <1>6

-----------------------------------------------------------------------------
(* User code in the thread of the loop.                                    *)

LEMMA ReturnStep == ConnInv /\ ReturnFromUser => ConnInv'
  <1> SUFFICES ASSUME ConnInv, ReturnFromUser PROVE ConnInv'
    OBVIOUS
  <1> USE DEF ConnInv
  <1>1. TypeOK'
    BY DEF TypeOK, ReturnFromUser, channel, socket, conn, rest
  <1>2. ThreadInv'
    BY Zenon DEF ThreadInv, ReturnFromUser, NotSending, conn
  <1>3. ShutdownInv'
    BY Zenon DEF ShutdownInv, ReturnFromUser, NotSending, socket, conn, rest
  <1>4. LifeInv' /\ ChannelInv' /\ TaskInv' /\ StreamInv'
    BY Zenon, Frames DEF ReturnFromUser, socket, conn, rest
  <1> QED
    BY <1>1, <1>2, <1>3, <1>4

LEMMA SendStep ==
    ASSUME ConnInv, NEW n \in 1..MaxBytes, Send(n)
    PROVE  ConnInv'
  <1> USE DEF ConnInv
  <1>1. /\ pc \in UserCode /\ sending = "no" /\ message = <<>> /\ state_ = "kConnected"
        /\ pc = "onWriteComplete" => write_complete_callback_
        /\ given + n <= MaxBytes /\ sending' = "tested"
        /\ message' = Stream(given + 1, given + n) /\ given' = given + n
        /\ UNCHANGED <<channel, socket, state_, output_buffer_, removal, ups, downs,
                       pc, revents_, functors, batch, rest>>
    BY Zenon DEF Send, InUserCode, NotSending, ThreadInv
  <1>2. /\ MaxBytes \in Nat /\ given \in 0..MaxBytes /\ given \in Nat /\ n \in Nat /\ n > 0
        /\ given + n \in 0..MaxBytes
        /\ wire \in Seq(Bytes) /\ output_buffer_ \in Seq(Bytes)
    BY <1>1, ConnectionAssumption DEF TypeOK, Bytes
  <1>3. message' \in Seq(Bytes) /\ message' # <<>>
    <2>1. /\ Stream(given + 1, given + n) \in Seq(Bytes)
          /\ Len(Stream(given + 1, given + n)) = n
      BY <1>2 DEF Stream, Bytes
    <2> DEFINE m == Stream(given + 1, given + n)
    <2> HIDE DEF m
    <2>2. m \in Seq(Bytes) /\ Len(m) = n
      BY Zenon, <2>1 DEF m
    <2>3. m # <<>>
      BY <2>2, <1>2
    <2> QED
      BY Zenon, <1>1, <2>2, <2>3 DEF m
  <1>4. TypeOK'
    <2>1. (message \in Seq(1..MaxBytes))' /\ (given \in 0..MaxBytes)'
      BY Zenon, <1>1, <1>2, <1>3 DEF Bytes
    <2> QED
      BY <1>1, <2>1 DEF TypeOK, channel, socket, rest
  <1>5. Up
    BY <1>1 DEF LifeInv, Up, TypeOK
  <1>6. ThreadInv'
    BY Zenon, <1>1, <1>3, <1>5 DEF ThreadInv, Up
  <1>7. StreamInv'
    <2>1. ASSUME Complete
          PROVE  Complete'
      <3>1. wire \o output_buffer_ \in Seq(Bytes)
        BY Zenon, <1>2, ConcatProperties
      <3>2. (wire \o output_buffer_) \o <<>> = wire \o output_buffer_
        BY Zenon, <3>1, ConcatEmptySeq
      <3>3. wire \o output_buffer_ = Stream(1, given)
        BY Zenon, <1>1, <2>1, <3>2 DEF Complete
      <3>4. Stream(1, given) \o Stream(given + 1, given + n) = Stream(1, given + n)
        BY Zenon, <1>1, <1>2, StreamGrows
      <3> QED
        BY Zenon, <1>1, <3>3, <3>4 DEF Complete, socket
    <2> QED
      BY Zenon, <1>1, <2>1 DEF StreamInv, SendBroken, socket, rest
  <1>8. ShutdownInv'
    BY Zenon, <1>1 DEF ShutdownInv, socket, rest
  <1>9. LifeInv' /\ ChannelInv' /\ TaskInv'
    BY Zenon, <1>1, Frames DEF rest
  <1> QED
    BY Zenon, <1>4, <1>6, <1>7, <1>8, <1>9

LEMMA SendWriteStep == ConnInv /\ SendWrite => ConnInv'
  <1> SUFFICES ASSUME ConnInv, SendWrite PROVE ConnInv'
    OBVIOUS
  <1> USE DEF ConnInv
  <1>1. /\ sending = "tested" /\ pc \in UserCode /\ removal = "none" /\ message # <<>>
        /\ UNCHANGED <<channel, drained, fin, rcv, peer, conn, pc, revents_, functors, batch,
                       caller, write_complete_callback_>>
    BY Zenon DEF SendWrite, ThreadInv
  <1>2. LifeInv' /\ ChannelInv' /\ TaskInv'
    BY Zenon, <1>1, Frames DEF conn
  <1>3. ASSUME sending' \in {"no", "remaining"}, sending' = "no" <=> message' = <<>>,
               message' \in Seq(Bytes), skerr' \in BOOLEAN, killed' \in BOOLEAN,
               wire' \in Seq(1..MaxBytes), drained' \in 0 .. Len(wire)',
               Len(wire)' - drained' <= SockCap, StreamInv'
        PROVE  ConnInv'
    <2>1. TypeOK'
      BY <1>1, <1>3 DEF TypeOK, channel, conn, Bytes
    <2>2. ThreadInv'
      BY Zenon, <1>1, <1>3 DEF ThreadInv, conn
    <2>3. ShutdownInv'
      BY Zenon, <1>1, <1>3 DEF ShutdownInv, conn
    <2> QED
      BY Zenon, <1>2, <1>3, <2>1, <2>2, <2>3
  <1>4. /\ wire \in Seq(Bytes) /\ message \in Seq(Bytes) /\ given \in 0..MaxBytes
        /\ wire \in Seq(1..MaxBytes) /\ drained \in 0 .. Len(wire)
        /\ Len(wire) - drained <= SockCap /\ skerr \in BOOLEAN /\ killed \in BOOLEAN
        /\ output_buffer_ \in Seq(Bytes)
    BY Zenon DEF TypeOK, Bytes
  <1>5. CASE MustQueue
    <2>1. sending' = "remaining" /\ UNCHANGED <<wire, message, skerr, killed>>
      BY Zenon, <1>5 DEF SendWrite
    <2>2. StreamInv'
      BY Zenon, <1>1, <2>1, Frames DEF conn
    <2> QED
      BY Zenon, <1>1, <1>3, <1>4, <2>1, <2>2
  <1>6. CASE ~MustQueue /\ SendBroken
    <2>1. FailedWrite
      BY Zenon, <1>6 DEF SendWrite
    <2>2. /\ wire' = wire /\ skerr' = FALSE /\ killed' \in BOOLEAN
          /\ \/ message' = <<>> /\ sending' = "no"
             \/ sending' = "remaining" /\ message' = message
      BY Zenon, <2>1 DEF FailedWrite, WriteFails
    <2>3. message' \in Seq(Bytes)
      <3>1. <<>> \in Seq(Bytes)
        OBVIOUS
      <3> QED
        BY Zenon, <1>4, <2>2, <3>1
    <2>4. StreamInv'
      <3>1. SendBroken'
        BY Zenon, <1>1, <1>6 DEF SendBroken
      <3>2. ~(peer # "reset" /\ caller = "idle")
        BY Zenon, <1>1, <1>6 DEF ShutdownInv, SendBroken
      <3>3. (wire = Stream(1, Len(wire)))'
        BY Zenon, <2>2 DEF StreamInv
      <3> QED
        BY Zenon, <1>1, <3>1, <3>2, <3>3 DEF StreamInv
    <2> QED
      BY Zenon, <1>1, <1>3, <1>4, <2>2, <2>3, <2>4
  <1>7. CASE ~MustQueue /\ ~SendBroken
    <2> DEFINE n == Taken(Len(message))
    <2>1. DirectWrite
      BY Zenon, <1>7 DEF SendWrite
    <2>2. /\ wire' = wire \o SubSeq(message, 1, n)
          /\ message' = SubSeq(message, n + 1, Len(message))
          /\ sending' = IF message' = <<>> THEN "no" ELSE "remaining"
          /\ skerr' = skerr /\ killed' = killed
      BY Zenon, <2>1 DEF DirectWrite
    <2>3. Len(message) \in Nat
      BY <1>4
    <2>4. n \in 0 .. Len(message) /\ n <= SockCap - (Len(wire) - drained)
      BY Zenon, <2>3, TakenBounds
    <2> HIDE DEF n
    <2>5. message' \in Seq(Bytes)
      BY Zenon, <1>4, <2>2, <2>4, WriteSplits
    <2>6. /\ wire' \in Seq(1..MaxBytes) /\ drained' \in 0 .. Len(wire)'
          /\ Len(wire)' - drained' <= SockCap
      BY Zenon, <1>1, <1>4, <2>2, <2>4, WriteFits
    <2>7. output_buffer_ = <<>> /\ output_buffer_' = <<>>
      BY Zenon, <1>1, <1>7 DEF MustQueue, conn
    <2>8. Complete'
      <3>1. Complete
        BY Zenon, <1>7 DEF StreamInv
      <3>2. wire \o <<>> = wire
        BY Zenon, <1>4, ConcatEmptySeq
      <3>3. wire \o message = Stream(1, given)
        BY Zenon, <3>1, <3>2, <2>7 DEF Complete
      <3>4. wire' \o <<>> = wire'
        BY Zenon, <2>6, ConcatEmptySeq
      <3>5. wire' \o message' = wire \o message
        <4> DEFINE f == SubSeq(message, 1, n)
                   r == SubSeq(message, n + 1, Len(message))
        <4>1. f \in Seq(Bytes) /\ r \in Seq(Bytes) /\ f \o r = message
          BY Zenon, <1>4, <2>4, WriteSplits
        <4>2. wire' = wire \o f /\ message' = r
          BY Zenon, <2>2
        <4> HIDE DEF f, r
        <4>3. (wire \o f) \o r = wire \o (f \o r)
          <5>1. f \in Seq(Bytes) /\ r \in Seq(Bytes)
            BY Zenon, <4>1
          <5> QED
            BY Zenon, <1>4, <5>1, Associative
        <4> QED
          BY Zenon, <4>1, <4>2, <4>3
      <3>6. given' = given
        BY Zenon, <1>1 DEF conn
      <3> QED
        BY Zenon, <3>3, <3>4, <3>5, <3>6, <2>7 DEF Complete
    <2>9. StreamInv'
      <3>1. (wire \in Seq(Bytes))' /\ (output_buffer_ \in Seq(Bytes))' /\ (given \in 0..MaxBytes)'
        BY Zenon, <1>1, <1>4, <2>6 DEF Bytes, conn
      <3>2. (wire = Stream(1, Len(wire)))'
        BY Zenon, <3>1, <2>5, <2>8, CompletePrefix DEF Complete
      <3> QED
        BY Zenon, <2>8, <3>2 DEF StreamInv
    <2>10. sending' \in {"no", "remaining"} /\ (sending' = "no" <=> message' = <<>>)
      BY Zenon, <2>2
    <2> QED
      BY Zenon, <1>3, <1>4, <2>2, <2>5, <2>6, <2>9, <2>10
  <1> QED
    BY Zenon, <1>5, <1>6, <1>7

LEMMA SendRemainingStep == ConnInv /\ SendRemaining => ConnInv'
  <1> SUFFICES ASSUME ConnInv, SendRemaining PROVE ConnInv'
    OBVIOUS
  <1> USE DEF ConnInv
  <1>1. /\ sending = "remaining" /\ pc \in UserCode /\ removal = "none" /\ message # <<>>
        /\ ups = 1
        /\ output_buffer_' = output_buffer_ \o message
        /\ message' = <<>> /\ sending' = "no"
        /\ UNCHANGED <<socket, state_, removal, given, ups, downs, pc, revents_, functors,
                       batch, rest>>
    BY Zenon DEF SendRemaining, ThreadInv, UserCode
  <1>2. IF is_writing THEN UNCHANGED channel ELSE EnableWriting
    BY Zenon DEF SendRemaining
  <1>3. /\ wire \in Seq(Bytes) /\ output_buffer_ \in Seq(Bytes) /\ message \in Seq(Bytes)
        /\ events_ \subseteq {"read", "write"}
    BY Zenon DEF TypeOK, Bytes
  <1>4. output_buffer_' \in Seq(Bytes) /\ output_buffer_' # <<>>
    <2>1. output_buffer_ \o message \in Seq(Bytes)
      BY Zenon, <1>3, ConcatProperties
    <2>2. output_buffer_ \o message # <<>>
      BY <1>1, <1>3
    <2> QED
      BY Zenon, <1>1, <2>1, <2>2
  <1>5. /\ index_' = "kAdded" /\ interest' = events_' /\ "read" \in events_'
        /\ events_' \subseteq {"read", "write"} /\ is_writing'
    <2>1. index_ = "kAdded" /\ interest = events_ /\ "read" \in events_
      BY Zenon, <1>1 DEF ChannelInv, Up
    <2>2. CASE is_writing
      BY Zenon, <1>2, <1>3, <2>1, <2>2 DEF channel, is_writing
    <2>3. CASE ~is_writing
      <3>1. UpdateChannel(events_ \cup {"write"}) /\ "read" \in events_ \cup {"write"}
        BY Zenon, <1>2, <2>1, <2>3 DEF EnableWriting
      <3>2. events_' = events_ \cup {"write"} /\ interest' = events_' /\ index_' = "kAdded"
        BY Zenon, <3>1, UpdateKeeps
      <3> QED
        BY Zenon, <1>3, <2>1, <3>2 DEF is_writing
    <2> QED
      BY Zenon, <2>2, <2>3
  <1>6. TypeOK'
    <2>1. (message \in Seq(1..MaxBytes))' /\ (output_buffer_ \in Seq(1..MaxBytes))'
      BY <1>1, <1>4 DEF Bytes
    <2> QED
      BY Zenon, <1>1, <1>5, <2>1 DEF TypeOK, socket, rest
  <1>7. LifeInv'
    BY Zenon, <1>1 DEF LifeInv, Up, Open, rest
  <1>8. ChannelInv'
    BY Zenon, <1>1, <1>4, <1>5 DEF ChannelInv, Up
  <1>9. ThreadInv'
    BY Zenon, <1>1 DEF ThreadInv
  <1>10. StreamInv'
    <2>1. (wire' \o output_buffer_') \o message' = (wire \o output_buffer_) \o message
      <3>1. wire \o output_buffer_' \in Seq(Bytes)
        BY Zenon, <1>3, <1>4, ConcatProperties
      <3>2. (wire \o output_buffer_') \o <<>> = wire \o output_buffer_'
        BY Zenon, <3>1, ConcatEmptySeq
      <3>3. (wire \o output_buffer_) \o message = wire \o (output_buffer_ \o message)
        BY Zenon, <1>3, Associative
      <3> QED
        BY Zenon, <1>1, <3>2, <3>3 DEF socket
    <2>2. Complete' <=> Complete
      BY Zenon, <1>1, <2>1 DEF Complete
    <2> QED
      BY Zenon, <1>1, <2>2 DEF StreamInv, SendBroken, socket, rest
  <1>11. ShutdownInv'
    BY Zenon, <1>1 DEF ShutdownInv, socket, rest
  <1>12. TaskInv'
    BY Zenon, <1>1, Frames
  <1> QED
    BY Zenon, <1>6, <1>7, <1>8, <1>9, <1>10, <1>11, <1>12

LEMMA ShutDownStep == ConnInv /\ ShutDown => ConnInv'
  <1> SUFFICES ASSUME ConnInv, ShutDown PROVE ConnInv'
    OBVIOUS
  <1> USE DEF ConnInv
  <1>1. /\ sending = "no" /\ state_ = "kConnected" /\ state_' = "kDisconnecting"
        /\ IF is_writing THEN fin' = fin ELSE fin' = TRUE
        /\ UNCHANGED <<channel, wire, drained, rcv, peer, skerr, output_buffer_, removal,
                       given, ups, downs, thread, rest>>
    BY Zenon DEF ShutDown, InUserCode, NotSending, ShutdownUnlessWriting, ShutdownWrite
  <1>2. Up
    BY <1>1 DEF LifeInv, Up, TypeOK
  <1>3. is_writing <=> output_buffer_ # <<>>
    BY Zenon, <1>2 DEF ChannelInv
  <1>4. TypeOK'
    <2>1. (fin \in BOOLEAN)'
      BY Zenon, <1>1 DEF TypeOK
    <2> QED
      BY <1>1, <2>1 DEF TypeOK, States, channel, thread, rest
  <1>5. LifeInv'
    BY Zenon, <1>1 DEF LifeInv, Up, Open, rest
  <1>6. StreamInv'
    BY Zenon, <1>1 DEF StreamInv, Complete, SendBroken, thread, rest
  <1>7. ShutdownInv'
    BY Zenon, <1>1, <1>3 DEF ShutdownInv, thread, rest
  <1>8. ChannelInv' /\ ThreadInv' /\ TaskInv'
    BY Zenon, <1>1, Frames DEF thread
  <1> QED
    BY Zenon, <1>4, <1>5, <1>6, <1>7, <1>8

-----------------------------------------------------------------------------
(* The other thread, the peer and the network.                             *)

LEMMA OffLoopSteps == ConnInv /\ (OffLoopTest \/ OffLoopSet \/ OffLoopShutdown) => ConnInv'
  <1> SUFFICES ASSUME ConnInv, OffLoopTest \/ OffLoopSet \/ OffLoopShutdown PROVE ConnInv'
    OBVIOUS
  <1> USE DEF ConnInv
  <1>1. CASE OffLoopTest
    <2>1. TypeOK'
      BY <1>1 DEF TypeOK, OffLoopTest, channel, socket, conn, thread
    <2>2. LifeInv'
      BY Zenon, <1>1 DEF LifeInv, Up, Open, OffLoopTest, conn
    <2>3. StreamInv'
      BY Zenon, <1>1 DEF StreamInv, Complete, SendBroken, OffLoopTest, socket, conn, thread
    <2>4. ShutdownInv'
      BY Zenon, <1>1 DEF ShutdownInv, OffLoopTest, socket, conn, thread
    <2>5. ChannelInv' /\ ThreadInv' /\ TaskInv'
      BY Zenon, <1>1, Frames DEF OffLoopTest, conn, thread
    <2> QED
      BY Zenon, <2>1, <2>2, <2>3, <2>4, <2>5
  <1>2. CASE OffLoopSet
    <2>1. TypeOK'
      BY <1>2 DEF TypeOK, States, OffLoopSet, channel, socket, thread
    <2>2. LifeInv'
      BY Zenon, <1>2 DEF LifeInv, Up, Open, OffLoopSet
    <2>3. StreamInv'
      BY Zenon, <1>2 DEF StreamInv, Complete, SendBroken, OffLoopSet, socket, thread
    <2>4. ShutdownInv'
      BY Zenon, <1>2 DEF ShutdownInv, OffLoopSet, socket, thread
    <2>5. ChannelInv' /\ ThreadInv' /\ TaskInv'
      BY Zenon, <1>2, Frames DEF OffLoopSet, thread
    <2> QED
      BY <2>1, <2>2, <2>3, <2>4, <2>5
  <1>3. CASE OffLoopShutdown
    <2>1. /\ caller = "set" /\ caller' = "done" /\ fin' \in {fin, TRUE}
          /\ UNCHANGED <<channel, wire, drained, rcv, peer, skerr, conn, thread,
                         write_complete_callback_, killed>>
      BY Zenon, <1>3 DEF OffLoopShutdown, ShutdownUnlessWriting, ShutdownWrite
    <2>2. TypeOK'
      <3>1. (fin \in BOOLEAN)'
        BY Zenon, <2>1 DEF TypeOK
      <3> QED
        BY <2>1, <3>1 DEF TypeOK, channel, conn, thread
    <2>3. LifeInv'
      BY Zenon, <2>1 DEF LifeInv, Up, Open, conn
    <2>4. StreamInv'
      BY Zenon, <2>1 DEF StreamInv, Complete, SendBroken, conn, thread
    <2>5. ShutdownInv'
      BY Zenon, <2>1 DEF ShutdownInv, conn, thread
    <2>6. ChannelInv' /\ ThreadInv' /\ TaskInv'
      BY Zenon, <2>1, Frames DEF conn, thread
    <2> QED
      BY <2>2, <2>3, <2>4, <2>5, <2>6
  <1> QED
    BY Zenon, <1>1, <1>2, <1>3

LEMMA PeerSteps == ConnInv /\ (PeerSends \/ PeerCloses \/ PeerResets \/ Drain) => ConnInv'
  <1> SUFFICES ASSUME ConnInv, PeerSends \/ PeerCloses \/ PeerResets \/ Drain PROVE ConnInv'
    OBVIOUS
  <1> USE DEF ConnInv
  <1>1. UNCHANGED <<channel, wire, fin, conn, thread, rest>> /\ (peer = "reset" => peer' = "reset")
    BY Zenon DEF PeerSends, PeerCloses, PeerResets, Drain
  <1>2. TypeOK'
    <2>1. (peer \in {"open", "fin", "reset"})' /\ (rcv \in BOOLEAN)' /\ (skerr \in BOOLEAN)'
      BY Zenon DEF TypeOK, PeerSends, PeerCloses, PeerResets, Drain
    <2>2. (drained \in 0 .. Len(wire))' /\ (Len(wire) - drained <= SockCap)'
      <3>1. Len(wire) \in Nat /\ drained \in 0 .. Len(wire) /\ Len(wire) - drained <= SockCap
            /\ SockCap \in Nat
        BY ConnectionAssumption DEF TypeOK
      <3>2. drained' = drained \/ (drained < Len(wire) /\ drained' = drained + 1)
        BY Zenon DEF PeerSends, PeerCloses, PeerResets, Drain
      <3>3. wire' = wire
        BY Zenon, <1>1
      <3> QED
        BY <3>1, <3>2, <3>3
    <2> QED
      BY <1>1, <2>1, <2>2 DEF TypeOK, channel, conn, thread, rest
  <1>3. StreamInv'
    BY Zenon, <1>1 DEF StreamInv, Complete, SendBroken, conn, thread, rest
  <1>4. LifeInv' /\ ChannelInv' /\ ThreadInv' /\ TaskInv' /\ ShutdownInv'
    BY Zenon, <1>1, Frames DEF conn, thread, rest
  <1> QED
    BY Zenon, <1>2, <1>3, <1>4

LEMMA StutterStep == ConnInv /\ UNCHANGED vars => ConnInv'
  <1> SUFFICES ASSUME ConnInv, UNCHANGED vars PROVE ConnInv'
    OBVIOUS
  <1> USE DEF ConnInv
  <1>1. TypeOK'
    BY DEF TypeOK, vars, channel, socket, conn, thread, rest
  <1>2. /\ LifeInv' /\ ChannelInv' /\ ThreadInv' /\ TaskInv' /\ StreamInv' /\ ShutdownInv'
    BY Zenon, Frames DEF vars, socket, conn, thread, rest
  <1> QED
    BY Zenon, <1>1, <1>2

(* The invariant holds in every state of every behaviour.                  *)
LEMMA ConnAlways == Spec => []ConnInv
  <1>1. ConnInv /\ [Next]_vars => ConnInv'
    <2> SUFFICES ASSUME ConnInv, [Next]_vars PROVE ConnInv'
      OBVIOUS
    <2>1. CASE LoopStep
      BY Zenon, <2>1, PollStep, HangUpStep, WriteStep, WriteCompletedStep, ReadStep, SwapStep,
         RunStep, FunctorsDoneStep, ReturnStep, SendWriteStep, SendRemainingStep
         DEF LoopStep
    <2>2. CASE \E n \in 1..MaxBytes : Send(n)
      BY Zenon, <2>2, SendStep
    <2>3. CASE ShutDown \/ ServerDestroyed \/ RemoveConnection \/ QueueTask
      BY Zenon, <2>3, ShutDownStep, ServerDestroyedStep, RemoveStep, QueueTaskStep
    <2>4. CASE OffLoopTest \/ OffLoopStep
      BY Zenon, <2>4, OffLoopSteps DEF OffLoopStep
    <2>5. CASE PeerSends \/ PeerCloses \/ PeerResets \/ Drain
      BY Zenon, <2>5, PeerSteps
    <2>6. CASE UNCHANGED vars
      BY Zenon, <2>6, StutterStep
    <2> QED
      BY Zenon, <2>1, <2>2, <2>3, <2>4, <2>5, <2>6 DEF Next, ProgramStep
  <1> QED
    BY <1>1, InitInv, PTL DEF Spec

(* Module TcpConnection, Registered: Channel::update and EpollPoller keep  *)
(* index_, events_ and the kernel's epoll set in step, no loop waits with  *)
(* a channel that wants no event, and HandleWrite and send ask for output  *)
(* space exactly while output waits.                                       *)
THEOREM PollerAgreesWithKernel == Spec => []Registered
  <1>1. ConnInv => Registered
    <2> SUFFICES ASSUME ConnInv PROVE Registered
      OBVIOUS
    <2>1. TypeOK /\ LifeInv /\ ChannelInv
      BY Zenon DEF ConnInv
    <2>2. events_ # {"absent"}
      BY Zenon, <2>1 DEF TypeOK
    <2>3. (index_ = "kAdded") <=> (interest # {"absent"})
      BY Zenon, <2>1, <2>2 DEF ChannelInv
    <2>4. (index_ = "kAdded" => interest = events_) /\ (pc = "poll" => interest # {})
      BY Zenon, <2>1 DEF ChannelInv
    <2>5. ups > 0 /\ downs = 0 => Up
      BY <2>1 DEF TypeOK, LifeInv, Up
    <2> QED
      BY Zenon, <2>1, <2>3, <2>4, <2>5 DEF Registered, ChannelInv
  <1> QED
    BY <1>1, ConnAlways, PTL

(* Module TcpConnection, EndsOnce: HandleClose's assertion never fails and *)
(* HandleClose and ConnectDestroyed together report the end once, or once  *)
(* more when ShutDown in another thread set state_ back.                   *)
THEOREM EndIsReportedOnce == Spec => []EndsOnce
  <1>1. ConnInv => EndsOnce
    <2> SUFFICES ASSUME ConnInv PROVE EndsOnce
      OBVIOUS
    <2>1. TypeOK /\ LifeInv /\ ThreadInv
      BY Zenon DEF ConnInv
    <2>2. pc = "hup" => Open
      BY Zenon, <2>1 DEF ThreadInv, LifeInv, Up
    <2>3. pc = "in" /\ "read" \in revents_ => Open
      BY Zenon, <2>1 DEF ThreadInv, LifeInv, Up
    <2>4. /\ removal = "none" => downs = 0
          /\ removal # "none" => ups = 1 /\ downs \in 1..2 /\ (caller = "idle" => downs = 1)
          /\ ups \in 0..1
      BY <2>1 DEF TypeOK, LifeInv, Up
    <2>5. downs <= ups + IF caller = "idle" THEN 0 ELSE 1
      BY <2>4
    <2>6. caller = "idle" /\ removal = "done" => downs = ups
      BY Zenon, <2>4
    <2> QED
      BY Zenon, <2>2, <2>3, <2>5, <2>6 DEF EndsOnce
  <1> QED
    BY <1>1, ConnAlways, PTL

(* A write fails only in a stream that is spoiled: without a callback and  *)
(* another thread, the FIN leaves nothing to write.                        *)
LEMMA FailsSpoiled ==
    ASSUME ConnInv, SendBroken, (pc = "out" /\ WritesNow) \/ sending # "no"
    PROVE  Spoiled
  <1> SUFFICES ASSUME ~Spoiled PROVE FALSE
    OBVIOUS
  <1>1. fin /\ caller = "idle" /\ ~write_complete_callback_
    BY Zenon DEF SendBroken, Spoiled
  <1>2. output_buffer_ = <<>> /\ sending = "no"
    BY Zenon, <1>1 DEF ConnInv, ShutdownInv
  <1>3. is_writing
    BY Zenon, <1>2 DEF WritesNow
  <1> QED
    BY Zenon, <1>2, <1>3 DEF ConnInv, ChannelInv, is_writing

(* SIGPIPE comes from writes that fail, and no stream is ever unspoiled.   *)
LEMMA SignalStep ==
    ASSUME ConnInv, [Next]_vars, killed => Spoiled
    PROVE  (killed => Spoiled)'
  <1>1. CASE HandleWrite \/ SendWrite
    <2>1. UNCHANGED <<peer, caller, write_complete_callback_>>
      BY Zenon, <1>1 DEF HandleWrite, SendWrite
    <2>2. killed' = killed \/ (SendBroken /\ ((pc = "out" /\ WritesNow) \/ sending # "no"))
      <3>1. CASE HandleWrite
        BY Zenon, <3>1 DEF HandleWrite
      <3>2. CASE SendWrite
        <4>1. sending # "no"
          BY <3>2 DEF SendWrite
        <4> QED
          BY Zenon, <3>2, <4>1 DEF SendWrite, DirectWrite
      <3> QED
        BY Zenon, <1>1, <3>1, <3>2
    <2> QED
      BY Zenon, <2>1, <2>2, FailsSpoiled DEF Spoiled
  <1>2. CASE ~(HandleWrite \/ SendWrite)
    <2>1. CASE OffLoopTest \/ OffLoopSet \/ OffLoopShutdown
      <3>1. caller' # "idle"
        BY <2>1 DEF OffLoopTest, OffLoopSet, OffLoopShutdown
      <3> QED
        BY Zenon, <3>1 DEF Spoiled
    <2>2. CASE PeerSends \/ PeerCloses \/ PeerResets \/ Drain
      <3>1. UNCHANGED rest /\ (peer = "reset" => peer' = "reset")
        BY Zenon, <2>2 DEF PeerSends, PeerCloses, PeerResets, Drain
      <3> QED
        BY Zenon, <3>1 DEF Spoiled, rest
    <2>3. CASE Poll \/ HandleHangUpAndError \/ WriteCompleted \/ HandleRead \/ SwapFunctors
               \/ RunFunctor \/ FunctorsDone \/ ReturnFromUser \/ SendRemaining
               \/ (\E n \in 1..MaxBytes : Send(n)) \/ ShutDown \/ ServerDestroyed
               \/ RemoveConnection \/ QueueTask \/ UNCHANGED vars
      <3>1. UNCHANGED <<peer, rest>>
        BY Zenon, <2>3 DEF Poll, HandleHangUpAndError, WriteCompleted, HandleRead, SwapFunctors,
           RunFunctor, FunctorsDone, ReturnFromUser, SendRemaining, Send, ShutDown,
           ServerDestroyed, RemoveConnection, QueueTask, vars, socket
      <3> QED
        BY Zenon, <3>1 DEF Spoiled, rest
    <2> QED
      BY Zenon, <1>2, <2>1, <2>2, <2>3 DEF Next, ProgramStep, LoopStep, OffLoopStep
  <1> QED
    BY Zenon, <1>1, <1>2

(* Module TcpConnection, SentInOrder: send, SendInLoop's direct write and  *)
(* HandleWrite put every byte on the socket in order and once, and write   *)
(* on a broken connection, which raises SIGPIPE, only when it is spoiled.  *)
THEOREM NothingReordered == Spec => []SentInOrder
  <1>1. Init => (killed => Spoiled)
    BY Zenon DEF Init
  <1>2. ConnInv /\ (killed => Spoiled) /\ [Next]_vars => (killed => Spoiled)'
    BY Zenon, SignalStep
  <1>3. ConnInv /\ (killed => Spoiled) => SentInOrder
    BY Zenon DEF ConnInv, StreamInv, Complete, SentInOrder
  <1> QED
    BY <1>1, <1>2, <1>3, ConnAlways, PTL DEF Spec

(* Module TcpConnection, PlainGracefulShutdown: without a                  *)
(* write_complete_callback_, ShutDown and HandleWrite send the FIN only    *)
(* after all that send accepted.                                           *)
THEOREM ShutdownIsGraceful == Spec => []PlainGracefulShutdown
  <1>1. ConnInv => PlainGracefulShutdown
    <2> SUFFICES ASSUME ConnInv, ~write_complete_callback_, fin, peer # "reset", caller = "idle"
                 PROVE  wire = Stream(1, given)
      BY Zenon DEF PlainGracefulShutdown, GracefulShutdown
    <2>1. output_buffer_ = <<>> /\ sending = "no"
      BY Zenon DEF ConnInv, ShutdownInv
    <2>2. message = <<>>
      BY Zenon, <2>1 DEF ConnInv, ThreadInv
    <2>3. Complete
      BY Zenon DEF ConnInv, StreamInv
    <2>4. wire \in Seq(Bytes)
      BY Zenon DEF ConnInv, TypeOK, Bytes
    <2>5. wire \o <<>> = wire
      BY Zenon, <2>4, ConcatEmptySeq
    <2> QED
      BY Zenon, <2>1, <2>2, <2>3, <2>5 DEF Complete
  <1> QED
    BY <1>1, ConnAlways, PTL

-----------------------------------------------------------------------------
(* The connection implements ByteStream.                                   *)

(* A longer stream extends a shorter one.                                  *)
LEMMA StreamExtends ==
    ASSUME NEW g \in 0..MaxBytes, NEW h \in 0..MaxBytes, g <= h
    PROVE  Abstract!Extends(Stream(1, h), Stream(1, g))
  <1> DEFINE s == Stream(1, g)
             t == Stream(1, h)
  <1>1. MaxBytes \in Nat
    BY Zenon, ConnectionAssumption
  <1>2. /\ s \in Seq(Bytes) /\ Len(s) = g /\ \A i \in 1 .. g : s[i] = i
        /\ t \in Seq(Bytes) /\ Len(t) = h /\ \A i \in 1 .. h : t[i] = i
    BY Zenon, <1>1, StreamFromStart
  <1> HIDE DEF s, t
  <1>3. g \in 0 .. Len(t) /\ g \in Nat /\ Len(s) <= Len(t)
    BY <1>1, <1>2
  <1> DEFINE u == SubSeq(t, 1, g)
  <1>4. u \in Seq(Bytes) /\ Len(u) = g
    BY Zenon, <1>2, <1>3, WriteSplits
  <1>5. \A i \in 1 .. g : u[i] = t[i]
    BY <1>1, <1>2, <1>3
  <1>6. \A i \in 1 .. g : i \in 1 .. h
    BY <1>1
  <1> HIDE DEF u
  <1>7. ASSUME NEW i \in 1 .. Len(u)
        PROVE  u[i] = s[i]
    <2>1. i \in 1 .. g
      BY Zenon, <1>4
    <2> QED
      BY Zenon, <1>2, <1>5, <1>6, <2>1
  <1>8. u = s
    BY Zenon, <1>2, <1>4, <1>7, SeqEqual
  <1> QED
    BY Zenon, <1>2, <1>3, <1>8 DEF Abstract!Extends, s, t, u

(* Steps that neither take nor write bytes and leave the stream as sound   *)
(* as it was are invisible in it.                                          *)
LEMMA QuietStep ==
    ASSUME UNCHANGED <<given, wire, fin>>, Spoiled' <=> Spoiled
    PROVE  UNCHANGED Abstract!vars
  <1>1. Spoiled' = Spoiled
    BY Zenon
  <1> QED
    BY Zenon, <1>1 DEF Abstract!vars, Spoiled, Stream

(* send, in a stream that is not spoiled, finds no FIN before it.          *)
LEMMA SendAccepts ==
    ASSUME ConnInv, NEW n \in 1..MaxBytes, Send(n)
    PROVE  Abstract!Accept
  <1>1. /\ state_ = "kConnected" /\ given + n <= MaxBytes /\ given' = given + n
        /\ UNCHANGED <<wire, fin, peer, caller, write_complete_callback_>>
    BY Zenon DEF Send, socket, rest
  <1>2. fin => caller # "idle"
    BY Zenon, <1>1 DEF ConnInv, ShutdownInv
  <1>3. given \in 0..MaxBytes /\ given' \in 0..MaxBytes /\ given <= given'
    BY <1>1, ConnectionAssumption DEF ConnInv, TypeOK
  <1>4. Abstract!Extends(Stream(1, given'), Stream(1, given))
    BY Zenon, <1>3, StreamExtends
  <1> QED
    BY Zenon, <1>1, <1>2, <1>4 DEF Abstract!Accept, Spoiled, Stream

(* What ::write takes continues what was written, and is no more than send *)
(* was given, because nothing of that is missing while ::write works.      *)
LEMMA WriteContinues ==
    ASSUME ConnInv, ConnInv', ~SendBroken, Len(wire) <= Len(wire'),
           UNCHANGED <<given, fin, peer, caller, write_complete_callback_>>
    PROVE  Abstract!Write
  <1>1. ~SendBroken' /\ ~fin
    BY Zenon DEF SendBroken
  <1>2. Complete' /\ wire = Stream(1, Len(wire)) /\ wire' = Stream(1, Len(wire'))
    BY Zenon, <1>1 DEF ConnInv, StreamInv
  <1> DEFINE w == wire'
             o == output_buffer_'
             m == message'
  <1>3. /\ wire \in Seq(Bytes) /\ w \in Seq(Bytes) /\ o \in Seq(Bytes) /\ m \in Seq(Bytes)
        /\ given \in 0..MaxBytes /\ MaxBytes \in Nat
    BY Zenon, ConnectionAssumption DEF ConnInv, TypeOK, Bytes
  <1>4. (w \o o) \o m = Stream(1, given)
    BY Zenon, <1>2 DEF Complete, Stream
  <1> HIDE DEF w, o, m
  <1>5. w \o (o \o m) = Stream(1, given) /\ o \o m \in Seq(Bytes)
    BY Zenon, <1>3, <1>4, Associative, ConcatProperties
  <1>6. Len(w) + Len(o \o m) = given
    BY Zenon, <1>3, <1>5, StreamPrefix
  <1>7. Len(wire) \in Nat /\ Len(w) \in Nat /\ Len(o \o m) \in Nat
    BY Zenon, <1>3, <1>5, LenProperties
  <1>8. Len(wire) <= Len(w)
    BY Zenon DEF w
  <1>9. Len(w) \in 0..MaxBytes /\ Len(wire) \in 0..MaxBytes /\ Len(w) <= given
    BY <1>3, <1>6, <1>7, <1>8
  <1>10. w = Stream(1, Len(w))
    BY Zenon, <1>2 DEF w
  <1>11. Abstract!Extends(w, wire) /\ Abstract!Extends(Stream(1, given), w)
    BY Zenon, <1>2, <1>3, <1>8, <1>9, <1>10, StreamExtends
  <1> QED
    BY Zenon, <1>1, <1>11 DEF Abstract!Write, Spoiled, w, Stream

(* HandleWrite and the direct write of send write, or leave the stream     *)
(* alone.                                                                  *)
LEMMA WritesWrite ==
    ASSUME ConnInv, ConnInv', HandleWrite \/ SendWrite
    PROVE  Abstract!Write \/ UNCHANGED Abstract!vars
  <1>1. UNCHANGED <<given, fin, peer, caller, write_complete_callback_>>
    BY Zenon DEF HandleWrite, SendWrite, conn
  <1>2. CASE wire' = wire
    BY Zenon, <1>1, <1>2, QuietStep DEF Spoiled
  <1>3. ASSUME NEW s \in Seq(Bytes), wire' = wire \o SubSeq(s, 1, Taken(Len(s))),
               ~SendBroken
        PROVE  Abstract!Write
    <2>1. TypeOK /\ wire \in Seq(Bytes) /\ Len(s) \in Nat /\ Len(wire) \in Nat
      BY Zenon, LenProperties DEF ConnInv, TypeOK, Bytes
    <2>2. Taken(Len(s)) \in 0 .. Len(s)
      BY Zenon, <2>1, TakenBounds
    <2> DEFINE f == SubSeq(s, 1, Taken(Len(s)))
    <2>3. f \in Seq(Bytes)
      BY Zenon, <2>2, WriteSplits
    <2>4. wire' = wire \o f
      BY Zenon, <1>3
    <2> HIDE DEF f
    <2>5. Len(wire') = Len(wire) + Len(f) /\ Len(f) \in Nat
      BY Zenon, <2>1, <2>3, <2>4, ConcatProperties, LenProperties
    <2>6. Len(wire) <= Len(wire')
      BY <2>1, <2>5
    <2> QED
      BY Zenon, <1>1, <1>3, <2>6, WriteContinues
  <1>4. output_buffer_ \in Seq(Bytes) /\ message \in Seq(Bytes)
    BY Zenon DEF ConnInv, TypeOK, Bytes
  <1>5. CASE HandleWrite /\ wire' # wire
    <2>1. /\ Taken(Len(output_buffer_)) > 0
          /\ wire' = wire \o SubSeq(output_buffer_, 1, Taken(Len(output_buffer_)))
      BY Zenon, <1>5 DEF HandleWrite
    <2>2. TypeOK /\ Len(output_buffer_) \in Nat
      BY Zenon, <1>4, LenProperties DEF ConnInv
    <2>3. ~SendBroken
      BY Zenon, <2>1, <2>2, TakenBounds
    <2> QED
      BY Zenon, <1>3, <1>4, <2>1, <2>3
  <1>6. CASE SendWrite /\ wire' # wire
    <2>1. ~SendBroken /\ wire' = wire \o SubSeq(message, 1, Taken(Len(message)))
      BY Zenon, <1>6 DEF SendWrite, FailedWrite, DirectWrite
    <2> QED
      BY Zenon, <1>3, <1>4, <2>1
  <1> QED
    BY Zenon, <1>2, <1>5, <1>6

(* The FIN, whoever sends it, is an end of the stream.                     *)
LEMMA FinEnds ==
    ASSUME PlainGracefulShutdown', UNCHANGED <<given, wire>>, Spoiled' <=> Spoiled,
           ShutdownWrite \/ UNCHANGED fin
    PROVE  Abstract!End \/ UNCHANGED Abstract!vars
  <1>1. CASE UNCHANGED fin
    BY Zenon, <1>1, QuietStep
  <1>2. CASE ShutdownWrite
    <2>1. fin' = TRUE
      BY Zenon, <1>2 DEF ShutdownWrite
    <2>2. ~Spoiled => wire = Stream(1, given)
      <3> SUFFICES ASSUME ~Spoiled PROVE wire = Stream(1, given)
        OBVIOUS
      <3>1. peer' # "reset" /\ caller' = "idle" /\ ~write_complete_callback_'
        BY Zenon DEF Spoiled
      <3>2. wire' = Stream(1, given')
        BY Zenon, <2>1, <3>1 DEF PlainGracefulShutdown, GracefulShutdown, Stream
      <3> QED
        BY Zenon, <3>2
    <2>3. Spoiled' = Spoiled
      BY Zenon
    <2> QED
      BY Zenon, <2>1, <2>2, <2>3 DEF Abstract!End, Spoiled, Stream
  <1> QED
    BY Zenon, <1>1, <1>2

(* Module TcpConnection, KeepsByteStream: send appends to the stream,      *)
(* HandleWrite and SendInLoop's direct write carry it on in order and      *)
(* never past what was given, the FIN of ShutDown and HandleWrite comes    *)
(* after the last byte, and no other step touches it.                      *)
THEOREM ImplementsByteStream == Spec => KeepsByteStream
  <1>1. Init => Abstract!Init
    <2> SUFFICES ASSUME Init PROVE Abstract!Init
      OBVIOUS
    <2>1. Stream(1, given) = <<>>
      <3>1. MaxBytes \in Nat /\ given = 0
        BY Zenon, ConnectionAssumption DEF Init
      <3>2. 0 \in 0..MaxBytes
        BY <3>1
      <3>3. Stream(1, 0) \in Seq(Bytes) /\ Len(Stream(1, 0)) = 0
        BY Zenon, <3>1, <3>2, StreamFromStart
      <3>4. Stream(1, 0) = <<>>
        BY Zenon, <3>3, EmptySeq
      <3> QED
        BY Zenon, <3>1, <3>4
    <2> QED
      BY Zenon, <2>1 DEF Init, Abstract!Init, Spoiled
  <1>2. ConnInv /\ ConnInv' /\ PlainGracefulShutdown' /\ [Next]_vars
            => [Abstract!Next]_Abstract!vars
    <2> SUFFICES ASSUME ConnInv, ConnInv', PlainGracefulShutdown', [Next]_vars
                 PROVE  Abstract!Next \/ UNCHANGED Abstract!vars
      OBVIOUS
    <2>1. CASE Poll \/ HandleHangUpAndError \/ HandleRead \/ SwapFunctors \/ FunctorsDone
               \/ ReturnFromUser \/ SendRemaining \/ RemoveConnection \/ QueueTask
               \/ PeerSends \/ Drain \/ UNCHANGED vars
      <3>1. UNCHANGED <<given, wire, fin, peer, caller, write_complete_callback_>>
        BY Zenon, <2>1 DEF Poll, HandleHangUpAndError, HandleRead, SwapFunctors, FunctorsDone,
           ReturnFromUser, SendRemaining, RemoveConnection, QueueTask, PeerSends, Drain, vars,
           socket, conn, rest
      <3> QED
        BY Zenon, <3>1, QuietStep DEF Spoiled
    <2>2. CASE RunFunctor \/ ServerDestroyed
      <3>1. UNCHANGED <<given, wire, fin, peer, caller, write_complete_callback_>>
        BY Zenon, <2>2 DEF RunFunctor, ServerDestroyed, socket, rest
      <3> QED
        BY Zenon, <3>1, QuietStep DEF Spoiled
    <2>3. CASE HandleWrite \/ SendWrite
      BY Zenon, <2>3, WritesWrite DEF Abstract!Next
    <2>4. CASE \E n \in 1..MaxBytes : Send(n)
      BY Zenon, <2>4, SendAccepts DEF Abstract!Next
    <2>5. CASE WriteCompleted \/ ShutDown \/ OffLoopShutdown
      <3>1. UNCHANGED <<given, wire>> /\ (ShutdownWrite \/ UNCHANGED fin)
        BY Zenon, <2>5 DEF WriteCompleted, ShutDown, OffLoopShutdown, FinishShutdown,
           ShutdownUnlessWriting, conn
      <3>2. Spoiled' <=> Spoiled
        <4>1. CASE WriteCompleted \/ ShutDown
          <5>1. UNCHANGED <<peer, caller, write_complete_callback_>>
            BY Zenon, <4>1 DEF WriteCompleted, ShutDown, rest
          <5> QED
            BY Zenon, <5>1 DEF Spoiled
        <4>2. CASE OffLoopShutdown
          <5>1. caller # "idle" /\ caller' # "idle"
            BY <4>2 DEF OffLoopShutdown
          <5> QED
            BY Zenon, <5>1 DEF Spoiled
        <4> QED
          BY Zenon, <2>5, <4>1, <4>2
      <3> QED
        BY Zenon, <3>1, <3>2, FinEnds DEF Abstract!Next
    <2>6. CASE OffLoopSet \/ PeerCloses
      <3>1. UNCHANGED <<given, wire, fin>>
        BY Zenon, <2>6 DEF OffLoopSet, PeerCloses, socket, conn
      <3>2. Spoiled' <=> Spoiled
        <4>1. CASE OffLoopSet
          <5>1. caller # "idle" /\ caller' # "idle"
            BY <4>1 DEF OffLoopSet
          <5> QED
            BY Zenon, <5>1 DEF Spoiled
        <4>2. CASE PeerCloses
          <5>1. peer # "reset" /\ peer' # "reset" /\ UNCHANGED <<caller, write_complete_callback_>>
            BY <4>2 DEF PeerCloses, rest
          <5> QED
            BY Zenon, <5>1 DEF Spoiled
        <4> QED
          BY Zenon, <2>6, <4>1, <4>2
      <3> QED
        BY Zenon, <3>1, <3>2, QuietStep
    <2>7. CASE OffLoopTest \/ PeerResets
      <3>1. UNCHANGED <<given, wire, fin>> /\ Spoiled' = TRUE
        BY Zenon, <2>7 DEF OffLoopTest, PeerResets, socket, conn, Spoiled
      <3> QED
        BY Zenon, <3>1 DEF Abstract!Next, Abstract!Spoil, Spoiled
    <2> QED
      BY Zenon, <2>1, <2>2, <2>3, <2>4, <2>5, <2>6, <2>7 DEF Next, ProgramStep, LoopStep, OffLoopStep
  <1> QED
    BY <1>1, <1>2, ConnAlways, ShutdownIsGraceful, PTL DEF Spec, KeepsByteStream, Abstract!Spec
====
