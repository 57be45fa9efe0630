----------------------------- MODULE TimerQueue -----------------------------
(***************************************************************************)
(* mini_muduo::TimerQueue of one EventLoop: the Timer objects on the heap, *)
(* the two sets that index them, the timerfd, the wall clock, the functors *)
(* it queues in the loop, and the threads that call AddTimer (RunAt,       *)
(* RunAfter, RunEvery) and CancelTimer.                                    *)
(*                                                                         *)
(* Of the loop's iteration the model keeps the order that matters here:    *)
(* "poll", then the handlers of the active channels ("events"), among them *)
(* HandleRead and the timer callbacks it runs ("expired"), then the batch  *)
(* of queued functors ("functors").  User code of the loop thread runs in  *)
(* all of these but "poll"; before the first Loop() it behaves as it does  *)
(* in "functors" with an empty batch, which is the initial state.  The     *)
(* queue is the one module EventLoop shows to be FIFO.                     *)
(*                                                                         *)
(* One unit of time is the 100 us to which HowMuchTimeFromNow rounds up.   *)
(* timerfd counts on CLOCK_MONOTONIC and Timestamp::Now() is gettimeofday, *)
(* so ClockStep moves the latter alone.                                    *)
(***************************************************************************)
EXTENDS Integers, Sequences, FiniteSets

CONSTANTS
    Addresses,      \* where a Timer object can live
    Callers,        \* threads other than the loop thread
    Kinds,          \* the repeat/interval combinations users ask for
    ClockSteps,     \* adjustments of the wall clock
    MaxTime,        \* bound on the clock
    MaxTimers,      \* bound on g_num_created_
    MaxQueue,       \* bound on the cancellations waiting in the loop's queue
    NoTimer         \* a freed address

VARIABLES
    heap,                       \* the Timer at each address, or NoTimer
    g_num_created_,
    timers_,                    \* set of (when, timer)
    active_timers_,             \* set of (timer, sequence)
    cancelling_timers_,
    calling_expired_timers_,
    now,                        \* Timestamp::Now()
    countdown,                  \* time until the timerfd expires, 0 when disarmed
    readable,                   \* the timerfd has expired and was not read
    forward,                    \* history: the wall clock was set forward since the
                                \* timerfd was last set
    pc,                         \* where the loop thread is
    timerActive,                \* timer_fd_channel_ is in activeChannels_, not yet handled
    expired,                    \* HandleRead's expired
    torun,                      \* the entries of expired whose callback has not started
    readTime,                   \* HandleRead's now
    queue,                      \* functors of this class in the loop's queue
    batch,                      \* how many of them the current DoPendingFunctors took
    adding,                     \* the AddTimer a caller is in the middle of
    ids,                        \* TimerIds handed out to users
    cancelled                   \* history: genuine ids CancelTimerInLoop has run for

timerfd   == <<countdown, readable, forward>>
clockVars == <<now, timerfd>>
setVars   == <<timers_, active_timers_, cancelling_timers_, calling_expired_timers_>>
heapVars  == <<heap, g_num_created_>>
readVars  == <<expired, torun, readTime>>
loopVars  == <<pc, timerActive, batch>>
userVars  == <<adding, ids>>
vars == <<clockVars, setVars, heapVars, readVars, loopVars, userVars, queue, cancelled>>

Timer == [expiration : Int, repeat : BOOLEAN, interval : Nat, sequence : Nat]
Entry == [when : Int, timer : Addresses]
ActiveTimer == [timer : Addresses, sequence : Nat]
(* "genuine": the sequence number is the one of the timer AddTimer made.   *)
TimerId == [timer : Addresses, sequence : Nat, genuine : BOOLEAN]
(* A bound AddTimeInLoop or CancelTimerInLoop; inCallback tells the        *)
(* cancellations made from inside a timer callback.                        *)
Functor == [op : {"add", "cancel"}, id : TimerId, inCallback : BOOLEAN]
(* A caller between new Timer and the return of its TimerId.               *)
Adding == [id : TimerId, queued : BOOLEAN]

ASSUME TimerQueueAssumption ==
    /\ Kinds \subseteq [repeat : BOOLEAN, interval : Nat]
    /\ ClockSteps \subseteq Int
    /\ MaxTime \in Nat /\ MaxTimers \in Nat /\ MaxQueue \in Nat
    /\ NoTimer \notin Timer /\ NoTimer \notin Adding

TypeOK ==
    /\ heap \in [Addresses -> Timer \cup {NoTimer}]
    /\ g_num_created_ \in Nat
    /\ timers_ \subseteq Entry
    /\ active_timers_ \subseteq ActiveTimer
    /\ cancelling_timers_ \subseteq ActiveTimer
    /\ calling_expired_timers_ \in BOOLEAN
    /\ calling_expired_timers_ <=> pc = "expired"
    /\ now \in Int
    /\ countdown \in Nat
    /\ readable \in BOOLEAN
    /\ forward \in BOOLEAN
    /\ pc \in {"poll", "events", "expired", "functors"}
    /\ timerActive \in BOOLEAN
    /\ expired \subseteq Entry
    /\ torun \subseteq expired
    /\ readTime \in Int
    /\ queue \in Seq(Functor)
    /\ batch \in Nat
    /\ adding \in [Callers -> Adding \cup {NoTimer}]
    /\ ids \subseteq TimerId
    /\ cancelled \subseteq ActiveTimer

Init ==
    /\ heap = [p \in Addresses |-> NoTimer]
    /\ g_num_created_ = 0
    /\ timers_ = {}
    /\ active_timers_ = {}
    /\ cancelling_timers_ = {}
    /\ calling_expired_timers_ = FALSE
    /\ now = 0
    /\ countdown = 0
    /\ readable = FALSE
    /\ forward = FALSE
    /\ pc = "functors"
    /\ timerActive = FALSE
    /\ expired = {}
    /\ torun = {}
    /\ readTime = 0
    /\ queue = <<>>
    /\ batch = 0
    /\ adding = [c \in Callers |-> NoTimer]
    /\ ids = {}
    /\ cancelled = {}

Live(p) == heap[p] # NoTimer
EntryOf(p) == [when |-> heap[p].expiration, timer |-> p]
ActiveOf(p) == [timer |-> p, sequence |-> heap[p].sequence]

-----------------------------------------------------------------------------
(* The clock and the timerfd.                                              *)

HowMuchTimeFromNow(when) == IF when - now < 1 THEN 1 ELSE when - now

(* timerfd_settime also forgets an expiration that was not read yet.       *)
ResetTimerFd(when) ==
    /\ countdown' = HowMuchTimeFromNow(when)
    /\ readable' = FALSE
    /\ forward' = FALSE

StopTimerFd ==
    /\ countdown' = 0
    /\ readable' = FALSE
    /\ forward' = FALSE

(* ResetTimerFd(timers_.begin()->first) when the set is S.                 *)
ResetToEarliest(S) ==
    \E first \in S :
        /\ \A e \in S : first.when <= e.when
        /\ ResetTimerFd(first.when)

(* The wall clock stops at MaxTime while the timerfd goes on.              *)
Tick ==
    /\ now < MaxTime \/ countdown > 0
    /\ now' = IF now < MaxTime THEN now + 1 ELSE now
    /\ countdown' = IF countdown > 0 THEN countdown - 1 ELSE 0
    /\ readable' = (readable \/ countdown = 1)
    /\ UNCHANGED <<forward, setVars, heapVars, readVars, loopVars, userVars, queue, cancelled>>

ClockStep(d) ==
    /\ now + d \in 0..MaxTime
    /\ now' = now + d
    /\ forward' = (forward \/ d > 0)
    /\ UNCHANGED <<countdown, readable, setVars, heapVars, readVars, loopVars, userVars,
                   queue, cancelled>>

-----------------------------------------------------------------------------
(* Insertion.                                                              *)

\* Mutated form: only the first timer counts.
OnlyTimer(when) == timers_ = {}

EarliestChanged(when) == \A e \in timers_ : when < e.when

(* Both are for the Timer h that is (or is being put) at address p.        *)
insert(p, h) ==
    /\ timers_' = timers_ \cup {[when |-> h.expiration, timer |-> p]}
    /\ active_timers_' = active_timers_ \cup {[timer |-> p, sequence |-> h.sequence]}

AddTimeInLoop(p, h) ==
    /\ insert(p, h)
    /\ IF EarliestChanged(h.expiration)
       THEN ResetTimerFd(h.expiration)
       ELSE UNCHANGED timerfd

Insertable(p) == ~Live(p) /\ g_num_created_ < MaxTimers

\* Mutated form: the sequence numbers are not counted up.
UnnumberedTimerAt(p, when, kind) ==
    [expiration |-> when, repeat |-> kind.repeat, interval |-> kind.interval, sequence |-> 0]

NewTimerAt(p, when, kind) ==
    [expiration |-> when, repeat |-> kind.repeat, interval |-> kind.interval,
     sequence |-> g_num_created_]

-----------------------------------------------------------------------------
(* AddTimer and CancelTimer called by the loop thread's user code.         *)

InCallback == pc = "expired" /\ torun # expired

InUserCode == pc \in {"events", "functors"} \/ InCallback

LoopAddTimer(p, when, kind) ==
    /\ InUserCode
    /\ Insertable(p)
    /\ LET h == NewTimerAt(p, when, kind) IN
         /\ heap' = [heap EXCEPT ![p] = h]
         /\ AddTimeInLoop(p, h)
    /\ g_num_created_' = g_num_created_ + 1
    /\ ids' = ids \cup {[timer |-> p, sequence |-> g_num_created_, genuine |-> TRUE]}
    /\ UNCHANGED <<now, cancelling_timers_, calling_expired_timers_, readVars, loopVars,
                   adding, queue, cancelled>>

CancelsWaiting == Cardinality({i \in DOMAIN queue : queue[i].op = "cancel"})

QueueCancel(id) ==
    /\ CancelsWaiting < MaxQueue
    /\ queue' = Append(queue, [op |-> "cancel", id |-> id, inCallback |-> InCallback])

LoopCancelTimer(id) ==
    /\ InUserCode
    /\ QueueCancel(id)
    /\ UNCHANGED <<clockVars, setVars, heapVars, readVars, loopVars, userVars, cancelled>>

-----------------------------------------------------------------------------
(* The same calls by another thread.  AddTimer makes the Timer, hands it   *)
(* to the loop, and only then reads its sequence number to build the       *)
(* TimerId: by that time the loop may have run and deleted the timer, and  *)
(* the memory may hold another one or anything.                            *)

NewTimer(c, p, when, kind) ==
    /\ adding[c] = NoTimer
    /\ Insertable(p)
    /\ heap' = [heap EXCEPT ![p] = NewTimerAt(p, when, kind)]
    /\ g_num_created_' = g_num_created_ + 1
    /\ adding' = [adding EXCEPT ![c] =
            [id |-> [timer |-> p, sequence |-> g_num_created_, genuine |-> TRUE],
             queued |-> FALSE]]
    /\ UNCHANGED <<clockVars, setVars, readVars, loopVars, ids, queue, cancelled>>

QueueAdd(c) ==
    /\ adding[c] # NoTimer
    /\ ~adding[c].queued
    /\ queue' = Append(queue, [op |-> "add", id |-> adding[c].id, inCallback |-> FALSE])
    /\ adding' = [adding EXCEPT ![c].queued = TRUE]
    /\ UNCHANGED <<clockVars, setVars, heapVars, readVars, loopVars, ids, cancelled>>

(* What timer->sequence() may give: of freed memory, any old value.        *)
SequenceRead(p) == IF Live(p) THEN {heap[p].sequence} ELSE 0 .. g_num_created_ - 1

ReturnId(c) ==
    /\ adding[c] # NoTimer
    /\ adding[c].queued
    /\ \E s \in SequenceRead(adding[c].id.timer) :
         ids' = ids \cup {[timer |-> adding[c].id.timer, sequence |-> s,
                           genuine |-> s = adding[c].id.sequence]}
    /\ adding' = [adding EXCEPT ![c] = NoTimer]
    /\ UNCHANGED <<clockVars, setVars, heapVars, readVars, loopVars, queue, cancelled>>

CancelTimer(c, id) ==
    /\ adding[c] = NoTimer
    /\ QueueCancel(id)
    /\ UNCHANGED <<clockVars, setVars, heapVars, readVars, loopVars, userVars, cancelled>>

-----------------------------------------------------------------------------
(* The loop thread: Poll, HandleRead, Reset, DoPendingFunctors.            *)

\* Mutated form: the channel never enables reading.
NotEnabled == FALSE

(* The timerfd's channel has reading enabled from the constructor on.      *)
ChannelReady == readable

Poll ==
    /\ pc = "poll"
    /\ pc' = "events"
    /\ timerActive' = ChannelReady
    /\ UNCHANGED <<clockVars, setVars, heapVars, readVars, userVars, batch, queue, cancelled>>

GetExpired == {e \in timers_ : e.when <= now}

\* Mutated form: expired entries stay in active_timers_.
EraseNone(entries) == UNCHANGED active_timers_

EraseActive(entries) == active_timers_' = active_timers_ \ {ActiveOf(e.timer) : e \in entries}

HandleRead ==
    /\ pc = "events"
    /\ timerActive
    /\ pc' = "expired"
    /\ timerActive' = FALSE
    /\ readTime' = now
    /\ readable' = FALSE
    /\ expired' = GetExpired
    /\ torun' = GetExpired
    /\ timers_' = timers_ \ GetExpired
    /\ EraseActive(GetExpired)
    /\ calling_expired_timers_' = TRUE
    /\ UNCHANGED <<now, countdown, forward, cancelling_timers_, heapVars, userVars, batch, queue,
                   cancelled>>

(* Timers that are due at the same time run in the order of addresses,     *)
(* which may be any.                                                       *)
RunExpired(e) ==
    /\ pc = "expired"
    /\ e \in torun
    /\ \A f \in torun : e.when <= f.when
    /\ torun' = torun \ {e}
    /\ UNCHANGED <<clockVars, setVars, heapVars, expired, readTime, loopVars, userVars,
                   queue, cancelled>>

Repeating == {e \in expired : /\ heap[e.timer].repeat
                              /\ ActiveOf(e.timer) \notin cancelling_timers_}

Restarted(p) == [heap[p] EXCEPT !.expiration = readTime + heap[p].interval]

Reset ==
    /\ pc = "expired"
    /\ torun = {}
    /\ heap' = [p \in Addresses |->
            IF \E e \in Repeating : e.timer = p THEN Restarted(p)
            ELSE IF \E e \in expired : e.timer = p THEN NoTimer
            ELSE heap[p]]
    /\ timers_' = timers_ \cup
            {[when |-> Restarted(e.timer).expiration, timer |-> e.timer] : e \in Repeating}
    /\ active_timers_' = active_timers_ \cup {ActiveOf(e.timer) : e \in Repeating}
    /\ cancelling_timers_' = {}
    /\ IF timers_' # {} THEN ResetToEarliest(timers_') ELSE UNCHANGED timerfd
    /\ calling_expired_timers_' = FALSE
    /\ expired' = {}
    /\ pc' = "events"
    /\ UNCHANGED <<now, g_num_created_, torun, readTime, timerActive, batch, userVars,
                   queue, cancelled>>

\* Mutated form: one functor per iteration.
FirstOnly == IF queue = <<>> THEN 0 ELSE 1

Swapped == Len(queue)

StartFunctors ==
    /\ pc = "events"
    /\ ~timerActive
    /\ pc' = "functors"
    /\ batch' = Swapped
    /\ UNCHANGED <<clockVars, setVars, heapVars, readVars, timerActive, userVars, queue, cancelled>>

FunctorTaken ==
    /\ pc = "functors"
    /\ batch > 0
    /\ batch' = batch - 1
    /\ queue' = Tail(queue)
    /\ UNCHANGED <<pc, timerActive, readVars, userVars, now, g_num_created_>>

RunAddTimeInLoop ==
    /\ FunctorTaken
    /\ Head(queue).op = "add"
    /\ LET p == Head(queue).id.timer IN AddTimeInLoop(p, heap[p])
    /\ UNCHANGED <<cancelling_timers_, calling_expired_timers_, heap, cancelled>>

\* Mutated form: the Timer is forgotten.
NoDelete(p) == UNCHANGED heap

Delete(p) == heap' = [heap EXCEPT ![p] = NoTimer]

(* Entries that tie for the front of timers_ are ordered by address, so    *)
(* any of them may be timers_.begin().                                     *)
CancelActive(p) ==
    /\ timers_' = timers_ \ {EntryOf(p)}
    /\ active_timers_' = active_timers_ \ {ActiveOf(p)}
    /\ Delete(p)
    /\ \E begin \in timers_ :
         /\ \A e \in timers_ : begin.when <= e.when
         /\ IF begin.timer # p THEN UNCHANGED timerfd
            ELSE IF timers_' # {} THEN ResetToEarliest(timers_')
            ELSE StopTimerFd
    /\ UNCHANGED cancelling_timers_

CancelAbsent(a) ==
    /\ cancelling_timers_' = IF calling_expired_timers_ THEN cancelling_timers_ \cup {a}
                             ELSE cancelling_timers_
    /\ UNCHANGED <<timers_, active_timers_, heap, timerfd>>

RunCancelTimerInLoop ==
    /\ FunctorTaken
    /\ Head(queue).op = "cancel"
    /\ LET id == Head(queue).id
           a == [timer |-> id.timer, sequence |-> id.sequence]
       IN /\ IF a \in active_timers_ THEN CancelActive(id.timer) ELSE CancelAbsent(a)
          /\ cancelled' = IF id.genuine THEN cancelled \cup {a} ELSE cancelled
    /\ UNCHANGED calling_expired_timers_

FunctorsDone ==
    /\ pc = "functors"
    /\ batch = 0
    /\ pc' = "poll"
    /\ UNCHANGED <<clockVars, setVars, heapVars, readVars, timerActive, batch, userVars,
                   queue, cancelled>>

-----------------------------------------------------------------------------
LoopStep ==
    \/ Poll \/ HandleRead \/ Reset \/ StartFunctors
    \/ RunAddTimeInLoop \/ RunCancelTimerInLoop \/ FunctorsDone
    \/ \E e \in torun : RunExpired(e)

LoopCall ==
    \/ \E p \in Addresses, when \in 0..MaxTime, k \in Kinds : LoopAddTimer(p, when, k)
    \/ \E id \in ids : LoopCancelTimer(id)

CallerStep(c) == QueueAdd(c) \/ ReturnId(c)

CallerCall(c) ==
    \/ \E p \in Addresses, when \in 0..MaxTime, k \in Kinds : NewTimer(c, p, when, k)
    \/ \E id \in ids : CancelTimer(c, id)

Next ==
    \/ LoopStep \/ LoopCall \/ Tick
    \/ \E c \in Callers : CallerStep(c) \/ CallerCall(c)
    \/ \E d \in ClockSteps : ClockStep(d)

Spec == Init /\ [][Next]_vars

(* Time passes, the loop thread keeps iterating (a poll ends after at most *)
(* 10 s), callbacks return, and a caller inside AddTimer finishes it.      *)
FairSpec ==
    /\ Spec
    /\ WF_vars(Tick)
    /\ WF_vars(LoopStep)
    /\ \A c \in Callers : WF_vars(CallerStep(c))

-----------------------------------------------------------------------------
(* The two indexes agree ("mirrored, added and removed together", says the *)
(* comment on active_timers_): active_timers_ names exactly the timers of  *)
(* timers_ with their sequence numbers, every entry points to a Timer that *)
(* was not deleted, and it is filed under the time the Timer itself gives, *)
(* which is the key CancelTimerInLoop erases by.  With it the variables    *)
(* have their types.                                                       *)
Mirrored ==
    /\ TypeOK
    /\ active_timers_ = {ActiveOf(e.timer) : e \in timers_}
    /\ \A e \in timers_ : Live(e.timer) /\ e = EntryOf(e.timer)

Owners(p) ==
         {<<"timers_", e>> : e \in {x \in timers_ : x.timer = p}}
    \cup {<<"expired", e>> : e \in {x \in expired : x.timer = p}}
    \cup {<<"functor", i>> : i \in {j \in DOMAIN queue :
                                      queue[j].op = "add" /\ queue[j].id.timer = p}}
    \cup {<<"AddTimer", c>> : c \in {d \in Callers : adding[d] # NoTimer /\ ~adding[d].queued
                                                    /\ adding[d].id.timer = p}}

(* Every Timer has exactly one owner at any time: the AddTimer that made   *)
(* it, the queued functor, timers_, or the expired vector of HandleRead;   *)
(* a freed address has none.  So nothing is leaked, deleted twice or used  *)
(* after delete by the loop, and both assertions in insert() hold.         *)
SingleOwner ==
    \A p \in Addresses :
        IF Live(p) THEN \E o \in Owners(p) : Owners(p) = {o} ELSE Owners(p) = {}

(* Unless the wall clock has been set forward since, the timerfd is set to *)
(* fire when the earliest timer is due and not later (100 us later if it   *)
(* is overdue already): every insertion, cancellation and expiry sets it   *)
(* again when that is needed.                                              *)
NoOversleep ==
    pc # "expired" /\ ~forward =>
        \A e \in timers_ :
            readable \/ (countdown > 0 /\ (countdown = 1 \/ countdown <= e.when - now))

(* Once CancelTimerInLoop has run for an id that AddTimer returned, that   *)
(* timer is gone for good: not indexed, not about to run, not waiting to   *)
(* be inserted.  A later timer at the same address is not mistaken for it. *)
CancelledIsGone == \A p \in Addresses : Live(p) => ActiveOf(p) \notin cancelled

(* A CancelTimer made inside a timer callback takes effect in the same     *)
(* iteration: no cancellation made in a callback is still queued when the  *)
(* loop polls, or when HandleRead is about to collect expired timers.      *)
CallbackCancelIsPrompt ==
    pc = "poll" \/ timerActive => \A i \in DOMAIN queue : ~queue[i].inCallback

Waiting(s) == \E p \in Addresses :
    Live(p) /\ heap[p].sequence = s /\ heap[p].expiration <= MaxTime

(* Every timer whose time comes is collected by HandleRead to be run, or   *)
(* it was cancelled, if the wall clock is not set back for ever.           *)
TimerFires ==
    <>[][now' >= now]_now =>
        \A s \in 0 .. MaxTimers - 1 :
            Waiting(s) ~> (~Waiting(s) \/ \E e \in expired : heap[e.timer].sequence = s)
=============================================================================
