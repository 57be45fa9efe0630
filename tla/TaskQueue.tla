----------------------------- MODULE TaskQueue -----------------------------
(***************************************************************************)
(* What EventLoop promises of the callbacks handed to it with RunInLoop    *)
(* and QueueInLoop, without threads, eventfd or poll: queued tasks run in  *)
(* the order they were queued, each of them at most once; a task given to  *)
(* RunInLoop by the loop thread itself runs on the spot.                   *)
(***************************************************************************)
EXTENDS Sequences, Functions

CONSTANT Tasks

VARIABLES
    queue,      \* tasks queued and not yet run, oldest first
    done        \* tasks run, in the order they ran

vars == <<queue, done>>

Fresh(t) == t \notin Range(queue) \cup Range(done)

Init == queue = <<>> /\ done = <<>>

Queue(t) ==
    /\ Fresh(t)
    /\ queue' = Append(queue, t)
    /\ UNCHANGED done

RunNext ==
    /\ queue # <<>>
    /\ done' = Append(done, Head(queue))
    /\ queue' = Tail(queue)

RunOnTheSpot(t) ==
    /\ Fresh(t)
    /\ done' = Append(done, t)
    /\ UNCHANGED queue

Next == RunNext \/ \E t \in Tasks : Queue(t) \/ RunOnTheSpot(t)

Spec == Init /\ [][Next]_vars
=============================================================================
