----------------------------- MODULE EventLoop -----------------------------
(***************************************************************************)
(* One mini_muduo::EventLoop: the thread that owns it, any number of other *)
(* threads that call RunInLoop, QueueInLoop and Quit on it, the eventfd    *)
(* that wakes it up, and the descriptors it polls.                         *)
(*                                                                         *)
(* The loop thread is outside Loop() (pc "outside"), at the while test,    *)
(* blocked in Poll, going through activeChannels_ ("events"), in the       *)
(* handler of a channel ("callback"), going through the swapped functors   *)
(* ("functors") or in one of them ("functor").  User code of the loop      *)
(* thread runs in "outside", "callback" and "functor".  Each task is       *)
(* submitted at most once, so a task stands for one std::function object.  *)
(***************************************************************************)
EXTENDS Naturals, Sequences, Functions, FiniteSets

CONSTANTS
    Tasks,      \* the callbacks users may submit
    Callers,    \* threads other than the loop thread
    Channels    \* polled descriptors other than the wakeup descriptor

CONSTANTS
    WakeupChannel,
    kInitEventListSize

ASSUME ChannelAssumption ==
    /\ IsFiniteSet(Channels)
    /\ WakeupChannel \notin Channels
    /\ kInitEventListSize \in Nat \ {0}

VARIABLES
    pc,                         \* where the loop thread is
    quit_,
    calling_pending_functors_,
    pending_functors_,
    functors,                   \* DoPendingFunctors' local vector, what is left of it
    activeChannels_,
    events_,                    \* size and capacity of the vector Poll passes to epoll_wait
    wakeup,                     \* the eventfd wakeup_fd_ holds a nonzero counter
    ready,                      \* descriptors of Channels with an event pending in the kernel
    caller,                     \* what each other thread still has to do
    executed,                   \* history: tasks run, in order
    carried                     \* history: tasks already queued when Loop() was entered

vars == <<pc, quit_, calling_pending_functors_, pending_functors_, functors,
          activeChannels_, events_, wakeup, ready, caller, executed, carried>>

TypeOK ==
    /\ pc \in {"outside", "while", "poll", "events", "callback", "functors", "functor"}
    /\ quit_ \in BOOLEAN
    /\ calling_pending_functors_ \in BOOLEAN
    /\ calling_pending_functors_ <=> pc \in {"functors", "functor"}
    /\ pending_functors_ \in Seq(Tasks)
    /\ functors \in Seq(Tasks)
    /\ activeChannels_ \subseteq Channels \cup {WakeupChannel}
    /\ events_ \in [size : Nat \ {0}, capacity : Nat \ {0}]
    /\ wakeup \in BOOLEAN
    /\ ready \subseteq Channels
    /\ caller \in [Callers -> {"idle", "WakeUp"}]
    /\ executed \in Seq(Tasks)
    /\ carried \in Nat

Init ==
    /\ pc = "outside"
    /\ quit_ = FALSE
    /\ calling_pending_functors_ = FALSE
    /\ pending_functors_ = <<>>
    /\ functors = <<>>
    /\ activeChannels_ = {}
    /\ events_ = [size |-> kInitEventListSize, capacity |-> kInitEventListSize]
    /\ wakeup = FALSE
    /\ ready = {}
    /\ caller = [c \in Callers |-> "idle"]
    /\ executed = <<>>
    /\ carried = 0

Fresh(t) == t \notin Range(pending_functors_) \cup Range(functors) \cup Range(executed)

InUserCode == pc \in {"outside", "callback", "functor"}

-----------------------------------------------------------------------------
(* Loop() and DoPendingFunctors(), run by the loop thread.                 *)

EnterLoop ==
    /\ pc = "outside"
    /\ pc' = "while"
    /\ quit_' = FALSE
    /\ carried' = Len(pending_functors_)
    /\ UNCHANGED <<calling_pending_functors_, pending_functors_, functors,
                   activeChannels_, wakeup, ready, caller, events_, executed>>

TestQuit ==
    /\ pc = "while"
    /\ pc' = IF quit_ THEN "outside" ELSE "poll"
    /\ activeChannels_' = {}
    /\ UNCHANGED <<quit_, calling_pending_functors_, pending_functors_, functors,
                   wakeup, ready, caller, events_, executed, carried>>

\* Mutated form: the wakeup channel was never enabled for reading.
ReadyNowWithoutWakeup == ready

ReadyNow == ready \cup {ch \in {WakeupChannel} : wakeup}

\* Mutated form: compared with the size.
FullBySize(numEvents) == numEvents = events_.size

Full(numEvents) == numEvents = events_.capacity

(* What Poll makes of the vector.  resize() to more than the capacity of a *)
(* full vector gives that capacity; resize() to less keeps it.             *)
Resized(numEvents) ==
    IF Full(numEvents) THEN [size |-> events_.capacity * 2, capacity |-> events_.capacity * 2]
    ELSE IF numEvents <= kInitEventListSize THEN [events_ EXCEPT !.size = kInitEventListSize]
    ELSE events_

(* epoll_wait reports as many of the ready descriptors as the vector       *)
(* holds; which ones is the kernel's choice.                               *)
Poll ==
    /\ pc = "poll"
    /\ ReadyNow # {}
    /\ \E chs \in SUBSET ReadyNow :
        /\ IF Cardinality(ReadyNow) <= events_.size THEN chs = ReadyNow
           ELSE Cardinality(chs) = events_.size
        /\ activeChannels_' = chs
        /\ events_' = Resized(Cardinality(chs))
    /\ pc' = "events"
    /\ UNCHANGED <<quit_, calling_pending_functors_, pending_functors_, functors,
                   wakeup, ready, caller, executed, carried>>

\* Mutated form: epoll_wait with timeout -1.
PollNoTimeout == FALSE /\ UNCHANGED vars

PollTimeout ==
    /\ pc = "poll"
    /\ ReadyNow = {}
    /\ pc' = "events"
    /\ UNCHANGED <<quit_, calling_pending_functors_, pending_functors_, functors,
                   activeChannels_, wakeup, ready, caller, events_, executed, carried>>

WakeUpHandleRead ==
    /\ pc = "events"
    /\ WakeupChannel \in activeChannels_
    /\ activeChannels_' = activeChannels_ \ {WakeupChannel}
    /\ wakeup' = FALSE
    /\ UNCHANGED <<pc, quit_, calling_pending_functors_, pending_functors_, functors,
                   ready, caller, events_, executed, carried>>

HandleEvent(ch) ==
    /\ pc = "events"
    /\ ch \in activeChannels_
    /\ activeChannels_' = activeChannels_ \ {ch}
    /\ ready' = ready \ {ch}
    /\ pc' = "callback"
    /\ UNCHANGED <<quit_, calling_pending_functors_, pending_functors_, functors,
                   wakeup, caller, events_, executed, carried>>

ReturnFromHandler ==
    /\ pc = "callback"
    /\ pc' = "events"
    /\ UNCHANGED <<quit_, calling_pending_functors_, pending_functors_, functors,
                   activeChannels_, wakeup, ready, caller, events_, executed, carried>>

\* Mutated form: the vector is copied under the lock instead of swapped.
CopiedOut == pending_functors_

SwappedOut == <<>>

SwapFunctors ==
    /\ pc = "events"
    /\ activeChannels_ = {}
    /\ calling_pending_functors_' = TRUE
    /\ functors' = pending_functors_
    /\ pending_functors_' = SwappedOut
    /\ carried' = 0
    /\ pc' = "functors"
    /\ UNCHANGED <<quit_, activeChannels_, wakeup, ready, caller, events_, executed>>

RunFunctor ==
    /\ pc = "functors"
    /\ functors # <<>>
    /\ executed' = Append(executed, Head(functors))
    /\ functors' = Tail(functors)
    /\ pc' = "functor"
    /\ UNCHANGED <<quit_, calling_pending_functors_, pending_functors_,
                   activeChannels_, wakeup, ready, caller, events_, carried>>

ReturnFromFunctor ==
    /\ pc = "functor"
    /\ pc' = "functors"
    /\ UNCHANGED <<quit_, calling_pending_functors_, pending_functors_, functors,
                   activeChannels_, wakeup, ready, caller, events_, executed, carried>>

FunctorsDone ==
    /\ pc = "functors"
    /\ functors = <<>>
    /\ calling_pending_functors_' = FALSE
    /\ pc' = "while"
    /\ UNCHANGED <<quit_, pending_functors_, functors, activeChannels_, wakeup,
                   ready, caller, events_, executed, carried>>

-----------------------------------------------------------------------------
(* RunInLoop, QueueInLoop and Quit called by the loop thread's user code.  *)

LoopRunInLoop(t) ==
    /\ InUserCode
    /\ Fresh(t)
    /\ executed' = Append(executed, t)
    /\ UNCHANGED <<pc, quit_, calling_pending_functors_, pending_functors_, functors,
                   activeChannels_, wakeup, ready, caller, events_, carried>>

\* Mutated form: WakeUp() only if the caller is another thread.
NeverByItself == FALSE

WakesItself == calling_pending_functors_

LoopQueueInLoop(t) ==
    /\ InUserCode
    /\ Fresh(t)
    /\ pending_functors_' = Append(pending_functors_, t)
    /\ wakeup' = (wakeup \/ WakesItself)
    /\ UNCHANGED <<pc, quit_, calling_pending_functors_, functors, activeChannels_,
                   ready, caller, events_, executed, carried>>

LoopQuit ==
    /\ InUserCode
    /\ quit_' = TRUE
    /\ UNCHANGED <<pc, calling_pending_functors_, pending_functors_, functors,
                   activeChannels_, wakeup, ready, caller, events_, executed, carried>>

-----------------------------------------------------------------------------
(* The same calls by another thread.  RunInLoop is QueueInLoop there; both *)
(* it and Quit first publish the request and then write to the eventfd.    *)

QueueInLoop(c, t) ==
    /\ caller[c] = "idle"
    /\ Fresh(t)
    /\ pending_functors_' = Append(pending_functors_, t)
    /\ caller' = [caller EXCEPT ![c] = "WakeUp"]
    /\ UNCHANGED <<pc, quit_, calling_pending_functors_, functors, activeChannels_,
                   wakeup, ready, events_, executed, carried>>

Quit(c) ==
    /\ caller[c] = "idle"
    /\ quit_' = TRUE
    /\ caller' = [caller EXCEPT ![c] = "WakeUp"]
    /\ UNCHANGED <<pc, calling_pending_functors_, pending_functors_, functors,
                   activeChannels_, wakeup, ready, events_, executed, carried>>

WakeUp(c) ==
    /\ caller[c] = "WakeUp"
    /\ wakeup' = TRUE
    /\ caller' = [caller EXCEPT ![c] = "idle"]
    /\ UNCHANGED <<pc, quit_, calling_pending_functors_, pending_functors_, functors,
                   activeChannels_, ready, events_, executed, carried>>

-----------------------------------------------------------------------------
(* The kernel: an event arrives on a polled descriptor.                    *)
Arrive(ch) ==
    /\ ch \notin ready
    /\ ready' = ready \cup {ch}
    /\ UNCHANGED <<pc, quit_, calling_pending_functors_, pending_functors_, functors,
                   activeChannels_, wakeup, caller, events_, executed, carried>>

-----------------------------------------------------------------------------
LoopStep ==
    \/ TestQuit \/ Poll \/ WakeUpHandleRead \/ ReturnFromHandler
    \/ SwapFunctors \/ RunFunctor \/ ReturnFromFunctor \/ FunctorsDone
    \/ \E ch \in Channels : HandleEvent(ch)

Next ==
    \/ EnterLoop \/ PollTimeout \/ LoopStep \/ LoopQuit
    \/ \E t \in Tasks : LoopRunInLoop(t) \/ LoopQueueInLoop(t)
    \/ \E c \in Callers : Quit(c) \/ WakeUp(c) \/ \E t \in Tasks : QueueInLoop(c, t)
    \/ \E ch \in Channels : Arrive(ch)

Spec == Init /\ [][Next]_vars

(* The loop thread keeps running and the handlers and tasks return; a      *)
(* thread that has queued a task or asked to quit goes on to write to the  *)
(* eventfd.  Nobody is obliged to call anything, and the 10 s timeout of   *)
(* Poll is not counted on, nor that the kernel ever reports the wakeup     *)
(* descriptor among more ready ones than the vector holds.                 *)
FairSpec ==
    /\ Spec
    /\ WF_vars(LoopStep)
    /\ \A c \in Callers : WF_vars(WakeUp(c))

-----------------------------------------------------------------------------
WakeUpOnItsWay == wakeup \/ \E c \in Callers : caller[c] = "WakeUp"

(* The loop never goes to sleep on work: when its thread is in Poll and a  *)
(* task was queued since Loop() was entered, or quit_ was set, the eventfd *)
(* is readable or the thread that did so has yet to write to it.           *)
(* QueueInLoop needs both halves of its test                               *)
(* !IsInLoopThread() || calling_pending_functors_ for this, Quit its own   *)
(* WakeUp, and WakeUpHandleRead must not swallow the write of a task that  *)
(* the following swap does not take.                                       *)
NoLostWakeup ==
    pc = "poll" /\ (quit_ \/ Len(pending_functors_) > carried) => WakeUpOnItsWay

(* The vector for epoll_wait grows and shrinks with the load but never     *)
(* beyond twice the number of descriptors (or its initial size): Poll      *)
(* doubles it only when as many events came as its capacity, which a       *)
(* quiet poll in between leaves above the size.  It always has room for an *)
(* event and is never longer than its memory.                              *)
EventListBounded ==
    /\ kInitEventListSize <= events_.size /\ events_.size <= events_.capacity
    /\ \/ events_.capacity = kInitEventListSize
       \/ events_.capacity <= 2 * (Cardinality(Channels) + 1)

(* The queue promise: tasks run in the order they were queued and at most  *)
(* once each, although pending_functors_ is swapped out while threads push *)
(* to it and running functors queue more.                                  *)
Abstract == INSTANCE TaskQueue WITH queue <- functors \o pending_functors_, done <- executed

KeepsQueueOrder == Abstract!Spec

(* A task queued while the loop runs is run (or the loop exits) by virtue  *)
(* of the wakeups alone: it never has to wait for the poll timeout or for  *)
(* unrelated I/O.                                                          *)
QueuedTaskRuns ==
    \A t \in Tasks :
        (pc # "outside" /\ \E i \in carried + 1 .. Len(pending_functors_) : pending_functors_[i] = t)
            ~> (t \in Range(executed) \/ pc = "outside")

(* A Quit() that finds the loop running makes Loop() return.               *)
QuitEndsLoop == (pc # "outside" /\ quit_) ~> (pc = "outside")

(* A task left in the queue before Loop() is entered, for which no wakeup  *)
(* was written, still runs if a poll with nothing to report ends after its *)
(* 10 s.                                                                   *)
CarriedTaskRuns ==
    WF_vars(PollTimeout) =>
        \A t \in Tasks :
            (pc # "outside" /\ t \in Range(pending_functors_))
                ~> (t \in Range(executed) \/ pc = "outside")
=============================================================================
