-------------------------- MODULE EventLoopProofs --------------------------
(***************************************************************************)
(* Proofs about module EventLoop, for any sets of tasks, threads and       *)
(* channels: its types, the absence of lost wakeups, the bound on the      *)
(* poller's event list, and that it implements TaskQueue.                  *)
(***************************************************************************)
EXTENDS EventLoop, SequenceTheorems, FiniteSetTheorems, TLAPS

(* The type invariant of the loop.                                         *)
THEOREM TypeCorrect == Spec => []TypeOK
<1>1. Init => TypeOK
  <2> SUFFICES ASSUME Init PROVE TypeOK
    OBVIOUS
  <2>1. quit_ \in BOOLEAN /\ wakeup \in BOOLEAN /\ calling_pending_functors_ \in BOOLEAN
    BY Zenon DEF Init
  <2>2. ~calling_pending_functors_
    BY Zenon DEF Init
  <2> QED
    BY <2>1, <2>2, ChannelAssumption DEF Init, TypeOK
<1>2. TypeOK /\ [Next]_vars => TypeOK'
  <2> SUFFICES ASSUME TypeOK, [Next]_vars PROVE TypeOK'
    OBVIOUS
  <2> USE DEF TypeOK
  <2>1. CASE EnterLoop
    BY Zenon, <2>1, LenProperties DEF EnterLoop
  <2>2. CASE PollTimeout
    BY Zenon, <2>2 DEF PollTimeout
  <2>3. CASE LoopQuit
    BY Zenon, <2>3 DEF LoopQuit
  <2>4. CASE TestQuit
    BY Zenon, <2>4 DEF TestQuit
  <2>5. CASE Poll
    BY SMTT(30), <2>5, ChannelAssumption DEF Poll, ReadyNow, Resized
  <2>6. CASE WakeUpHandleRead
    BY Zenon, <2>6 DEF WakeUpHandleRead
  <2>7. CASE ReturnFromHandler
    BY Zenon, <2>7 DEF ReturnFromHandler
  <2>8. CASE SwapFunctors
    BY <2>8 DEF SwapFunctors, SwappedOut
  <2>9. CASE RunFunctor
    BY <2>9 DEF RunFunctor
  <2>10. CASE ReturnFromFunctor
    BY Zenon, <2>10 DEF ReturnFromFunctor
  <2>11. CASE FunctorsDone
    BY Zenon, <2>11 DEF FunctorsDone
  <2>12. ASSUME NEW ch \in Channels, HandleEvent(ch) PROVE TypeOK'
    BY Zenon, <2>12 DEF HandleEvent
  <2>13. ASSUME NEW t \in Tasks, LoopRunInLoop(t) PROVE TypeOK'
    BY <2>13 DEF LoopRunInLoop
  <2>14. ASSUME NEW t \in Tasks, LoopQueueInLoop(t) PROVE TypeOK'
    BY <2>14 DEF LoopQueueInLoop, WakesItself
  <2>15. ASSUME NEW c \in Callers, Quit(c) PROVE TypeOK'
    BY Zenon, <2>15 DEF Quit
  <2>16. ASSUME NEW c \in Callers, WakeUp(c) PROVE TypeOK'
    BY Zenon, <2>16 DEF WakeUp
  <2>17. ASSUME NEW c \in Callers, NEW t \in Tasks, QueueInLoop(c, t) PROVE TypeOK'
    BY <2>17 DEF QueueInLoop
  <2>18. ASSUME NEW ch \in Channels, Arrive(ch) PROVE TypeOK'
    BY Zenon, <2>18 DEF Arrive
  <2>19. CASE UNCHANGED vars
    BY Zenon, <2>19 DEF vars
  <2> QED
    BY SMTT(30), <2>1, <2>2, <2>3, <2>4, <2>5, <2>6, <2>7, <2>8, <2>9, <2>10, <2>11, <2>12,
       <2>13, <2>14, <2>15, <2>16, <2>17, <2>18, <2>19 DEF Next, LoopStep
<1> QED
  BY <1>1, <1>2, PTL DEF Spec

-----------------------------------------------------------------------------
(* Why no wakeup is lost.  A task queued since Loop() was entered has its  *)
(* wakeup written or coming not only in Poll but from the swap onwards:    *)
(* between the handling of events and the next Poll nobody reads the       *)
(* eventfd, and whatever is queued in that stretch is queued by another    *)
(* thread or with calling_pending_functors_ set.                           *)
SleepInv ==
    /\ pc \in {"while", "poll", "functors", "functor"} /\ Len(pending_functors_) > carried
           => WakeUpOnItsWay
    /\ pc = "poll" /\ quit_ => WakeUpOnItsWay

(* The loop never blocks on queued work or on a Quit() without a wakeup    *)
(* being there or on its way: the tests in QueueInLoop, Quit and Loop      *)
(* suffice, for any number of threads and tasks.                           *)
THEOREM NoWakeupIsLost == Spec => []NoLostWakeup
<1>1. Init => SleepInv
  BY Zenon DEF Init, SleepInv
<1>2. TypeOK /\ SleepInv /\ [Next]_vars => SleepInv'
  <2> SUFFICES ASSUME TypeOK, SleepInv, [Next]_vars PROVE SleepInv'
    OBVIOUS
  <2> USE DEF SleepInv, WakeUpOnItsWay, TypeOK
  <2>1. CASE EnterLoop
    BY <2>1 DEF EnterLoop
  <2>2. CASE PollTimeout
    BY Zenon, <2>2 DEF PollTimeout
  <2>3. CASE LoopQuit
    BY Zenon, <2>3 DEF LoopQuit, InUserCode
  <2>4. CASE TestQuit
    BY Zenon, <2>4 DEF TestQuit
  <2>5. CASE Poll
    BY Zenon, <2>5 DEF Poll
  <2>6. CASE WakeUpHandleRead
    BY Zenon, <2>6 DEF WakeUpHandleRead
  <2>7. CASE ReturnFromHandler
    BY Zenon, <2>7 DEF ReturnFromHandler
  <2>8. CASE SwapFunctors
    BY <2>8 DEF SwapFunctors, SwappedOut
  <2>9. CASE RunFunctor
    BY Zenon, <2>9 DEF RunFunctor
  <2>10. CASE ReturnFromFunctor
    BY Zenon, <2>10 DEF ReturnFromFunctor
  <2>11. CASE FunctorsDone
    BY Zenon, <2>11 DEF FunctorsDone
  <2>12. ASSUME NEW ch \in Channels, HandleEvent(ch) PROVE SleepInv'
    BY Zenon, <2>12 DEF HandleEvent
  <2>13. ASSUME NEW t \in Tasks, LoopRunInLoop(t) PROVE SleepInv'
    BY Zenon, <2>13 DEF LoopRunInLoop
  <2>14. ASSUME NEW t \in Tasks, LoopQueueInLoop(t) PROVE SleepInv'
    BY Zenon, <2>14 DEF LoopQueueInLoop, WakesItself, InUserCode
  <2>15. ASSUME NEW c \in Callers, Quit(c) PROVE SleepInv'
    BY Zenon, <2>15 DEF Quit
  <2>16. ASSUME NEW c \in Callers, WakeUp(c) PROVE SleepInv'
    BY Zenon, <2>16 DEF WakeUp
  <2>17. ASSUME NEW c \in Callers, NEW t \in Tasks, QueueInLoop(c, t) PROVE SleepInv'
    BY Zenon, <2>17 DEF QueueInLoop
  <2>18. ASSUME NEW ch \in Channels, Arrive(ch) PROVE SleepInv'
    BY Zenon, <2>18 DEF Arrive
  <2>19. CASE UNCHANGED vars
    BY Zenon, <2>19 DEF vars
  <2> QED
    BY Zenon, <2>1, <2>2, <2>3, <2>4, <2>5, <2>6, <2>7, <2>8, <2>9, <2>10, <2>11, <2>12,
       <2>13, <2>14, <2>15, <2>16, <2>17, <2>18, <2>19 DEF Next, LoopStep
<1>3. SleepInv => NoLostWakeup
  BY Zenon DEF SleepInv, NoLostWakeup
<1> QED
  BY <1>1, <1>2, <1>3, TypeCorrect, PTL DEF Spec

-----------------------------------------------------------------------------
(* What Poll reports is part of a finite set, so epoll_wait never returns  *)
(* more than one event for each descriptor.                                *)
LEMMA ReportedBound ==
    ASSUME TypeOK, NEW chs \in SUBSET ReadyNow
    PROVE  Cardinality(chs) \in Nat /\ Cardinality(chs) <= Cardinality(Channels) + 1
<1> DEFINE all == Channels \cup {WakeupChannel}
<1>1. IsFiniteSet(all) /\ Cardinality(all) = Cardinality(Channels) + 1
  BY Zenon, ChannelAssumption, FS_AddElement
<1>2. chs \subseteq all
  BY Zenon DEF ReadyNow, TypeOK
<1>3. IsFiniteSet(chs) /\ Cardinality(chs) <= Cardinality(all)
  BY Zenon, <1>1, <1>2, FS_Subset
<1> QED
  BY Zenon, <1>1, <1>3, FS_CardinalityType

(* The list for epoll_wait stays between its initial size and twice the    *)
(* number of descriptors, for any number of them and any load: only a poll *)
(* that filled the whole capacity doubles it.                              *)
THEOREM EventListIsBounded == Spec => []EventListBounded
<1> USE DEF EventListBounded
<1>1. Init => EventListBounded
  BY ChannelAssumption DEF Init
<1>2. TypeOK /\ EventListBounded /\ [Next]_vars => EventListBounded'
  <2> SUFFICES ASSUME TypeOK, EventListBounded, [Next]_vars PROVE EventListBounded'
    OBVIOUS
  <2>1. CASE Poll
    <3>1. PICK chs \in SUBSET ReadyNow : events_' = Resized(Cardinality(chs))
      BY Zenon, <2>1 DEF Poll
    <3>2. /\ Cardinality(chs) \in Nat /\ Cardinality(Channels) \in Nat
          /\ Cardinality(chs) <= Cardinality(Channels) + 1
      BY Zenon, ReportedBound, ChannelAssumption, FS_CardinalityType
    <3>3. /\ kInitEventListSize \in Nat
          /\ events_ \in [size : Nat \ {0}, capacity : Nat \ {0}]
      BY Zenon, ChannelAssumption DEF TypeOK
    <3>4. CASE Full(Cardinality(chs))
      BY <3>1, <3>2, <3>3, <3>4 DEF Resized, Full
    <3>5. CASE ~Full(Cardinality(chs))
      BY <3>1, <3>2, <3>3, <3>5 DEF Resized
    <3> QED
      BY Zenon, <3>4, <3>5
  <2>2. CASE UNCHANGED events_
    BY Zenon, <2>2
  <2> QED
    BY Zenon, <2>1, <2>2 DEF Next, vars, LoopStep, EnterLoop, TestQuit, PollTimeout,
         WakeUpHandleRead, HandleEvent, ReturnFromHandler, SwapFunctors, RunFunctor,
         ReturnFromFunctor, FunctorsDone, LoopRunInLoop, LoopQueueInLoop, LoopQuit,
         QueueInLoop, Quit, WakeUp, Arrive
<1> QED
  BY <1>1, <1>2, TypeCorrect, PTL DEF Spec

-----------------------------------------------------------------------------
(* Two facts about sequences: appending to the right part of a             *)
(* concatenation, and taking the head of its left part.                    *)
LEMMA ConcatAppend ==
    ASSUME NEW S, NEW s1 \in Seq(S), NEW s2 \in Seq(S), NEW e \in S
    PROVE  s1 \o Append(s2, e) = Append(s1 \o s2, e)
<1>1. Append(s2, e) = s2 \o <<e>> /\ Append(s1 \o s2, e) = (s1 \o s2) \o <<e>>
  BY Zenon, AppendIsConcat, ConcatProperties
<1>2. <<e>> \in Seq(S)
  OBVIOUS
<1> QED
  BY <1>1, <1>2, ConcatAssociative

LEMMA ConcatHeadTail ==
    ASSUME NEW S, NEW s1 \in Seq(S), NEW s2 \in Seq(S), s1 # <<>>
    PROVE  /\ s1 \o s2 # <<>>
           /\ Head(s1 \o s2) = Head(s1)
           /\ Tail(s1 \o s2) = Tail(s1) \o s2
<1> DEFINE s == s1 \o s2
<1>1. /\ s \in Seq(S)
      /\ Len(s) = Len(s1) + Len(s2)
      /\ \A i \in 1 .. Len(s1) + Len(s2) : s[i] = IF i <= Len(s1) THEN s1[i] ELSE s2[i - Len(s1)]
  BY Zenon, ConcatProperties
<1>2. Len(s1) \in Nat \ {0} /\ Len(s2) \in Nat
  BY Zenon, EmptySeq, LenProperties
<1>3. s # <<>>
  BY <1>1, <1>2, EmptySeq
<1>4. Head(s) = Head(s1)
  BY SMTT(30), <1>1, <1>2
<1>5. Tail(s) = Tail(s1) \o s2
  <2>1. /\ Tail(s) \in Seq(S) /\ Len(Tail(s)) = Len(s) - 1
        /\ \A i \in 1 .. Len(Tail(s)) : Tail(s)[i] = s[i + 1]
    BY Zenon, <1>1, <1>3, HeadTailProperties
  <2>2. /\ Tail(s1) \in Seq(S) /\ Len(Tail(s1)) = Len(s1) - 1
        /\ \A i \in 1 .. Len(Tail(s1)) : Tail(s1)[i] = s1[i + 1]
    BY Zenon, HeadTailProperties
  <2>3. /\ Tail(s1) \o s2 \in Seq(S)
        /\ Len(Tail(s1) \o s2) = Len(Tail(s1)) + Len(s2)
        /\ \A i \in 1 .. Len(Tail(s1)) + Len(s2) :
              (Tail(s1) \o s2)[i] = IF i <= Len(Tail(s1)) THEN Tail(s1)[i]
                                    ELSE s2[i - Len(Tail(s1))]
    BY Zenon, <2>2, ConcatProperties
  <2> HIDE DEF s
  <2>4. Len(Tail(s)) = Len(Tail(s1) \o s2)
    BY <1>1, <1>2, <2>1, <2>2, <2>3
  <2>5. ASSUME NEW i \in 1 .. Len(Tail(s)) PROVE Tail(s)[i] = (Tail(s1) \o s2)[i]
    <3>1. i \in 1 .. Len(Tail(s1)) + Len(s2) /\ i + 1 \in 1 .. Len(s1) + Len(s2)
      BY <1>1, <1>2, <2>1, <2>2
    <3>2. CASE i + 1 <= Len(s1)
      BY <3>1, <3>2, <1>1, <1>2, <2>1, <2>2, <2>3
    <3>3. CASE ~(i + 1 <= Len(s1))
      <4>1. (i + 1) - Len(s1) = i - Len(Tail(s1))
        BY <1>2, <2>2
      <4> QED
        BY <3>1, <3>3, <4>1, <1>1, <1>2, <2>1, <2>2, <2>3
    <3> QED
      BY Zenon, <3>2, <3>3
  <2> QED
    BY Zenon, <2>1, <2>3, <2>4, <2>5, SeqEqual
<1> QED
  BY Zenon, <1>3, <1>4, <1>5

-----------------------------------------------------------------------------
(* Outside DoPendingFunctors its local vector does not exist.              *)
LocalVector == pc \notin {"functors", "functor"} => functors = <<>>

LEMMA LocalVectorInv == Spec => []LocalVector
<1>1. Init => LocalVector
  BY Zenon DEF Init, LocalVector
<1>2. LocalVector /\ [Next]_vars => LocalVector'
  BY Zenon DEF LocalVector, Next, vars, LoopStep, EnterLoop, TestQuit, Poll, PollTimeout,
         WakeUpHandleRead, HandleEvent, ReturnFromHandler, SwapFunctors, RunFunctor,
         ReturnFromFunctor, FunctorsDone, LoopRunInLoop, LoopQueueInLoop, LoopQuit,
         QueueInLoop, Quit, WakeUp, Arrive
<1> QED
  BY <1>1, <1>2, PTL DEF Spec

(* A task is new to the abstract queue exactly when it is new to the loop. *)
LEMMA FreshIsFresh ==
    ASSUME TypeOK, NEW t, Fresh(t)
    PROVE  Abstract!Fresh(t)
<1>1. Range(functors \o pending_functors_) = Range(functors) \cup Range(pending_functors_)
  BY RangeConcatenation DEF TypeOK
<1> QED
  BY Zenon, <1>1 DEF Fresh, Abstract!Fresh, Range, Abstract!Range

(* The loop implements TaskQueue: the swap is invisible, each functor run  *)
(* takes the oldest queued task, and every push goes to the end, so tasks  *)
(* run once each and in the order they were queued.                        *)
THEOREM ImplementsTaskQueue == Spec => KeepsQueueOrder
<1>1. Init => Abstract!Init
  BY Zenon, ConcatEmptySeq, EmptySeq DEF Init, Abstract!Init
<1>2. TypeOK /\ LocalVector /\ [Next]_vars => [Abstract!Next]_Abstract!vars
  <2> SUFFICES ASSUME TypeOK, LocalVector, [Next]_vars
               PROVE  Abstract!Next \/ UNCHANGED Abstract!vars
    BY Zenon DEF Abstract!vars
  <2> USE DEF Abstract!vars
  <2>1. CASE SwapFunctors
    <3>1. functors = <<>> /\ functors' = pending_functors_ /\ pending_functors_' = <<>>
      BY Zenon, <2>1 DEF SwapFunctors, SwappedOut, LocalVector
    <3>2. functors \o pending_functors_ = functors' \o pending_functors_'
      BY Zenon, <3>1, ConcatEmptySeq DEF TypeOK
    <3> QED
      BY Zenon, <2>1, <3>2 DEF SwapFunctors, SwappedOut
  <2>2. CASE RunFunctor
    <3>1. functors \in Seq(Tasks) /\ pending_functors_ \in Seq(Tasks)
      BY Zenon DEF TypeOK
    <3>2. /\ functors # <<>>
          /\ functors' = Tail(functors) /\ pending_functors_' = pending_functors_
          /\ executed' = Append(executed, Head(functors))
      BY Zenon, <2>2 DEF RunFunctor
    <3>3. Abstract!RunNext
      BY SMTT(30), <3>1, <3>2, ConcatHeadTail DEF Abstract!RunNext
    <3> QED
      BY Zenon, <3>3 DEF Abstract!Next
  <2>3. ASSUME NEW t \in Tasks, LoopRunInLoop(t) PROVE Abstract!Next
    <3>1. Abstract!RunOnTheSpot(t)
      BY Zenon, <2>3, FreshIsFresh DEF LoopRunInLoop, Abstract!RunOnTheSpot
    <3> QED
      BY Zenon, <3>1 DEF Abstract!Next
  <2>4. ASSUME NEW t \in Tasks, LoopQueueInLoop(t) PROVE Abstract!Next
    <3>1. Abstract!Queue(t)
      BY <2>4, FreshIsFresh, ConcatAppend DEF LoopQueueInLoop, Abstract!Queue, TypeOK
    <3> QED
      BY Zenon, <3>1 DEF Abstract!Next
  <2>5. ASSUME NEW c \in Callers, NEW t \in Tasks, QueueInLoop(c, t) PROVE Abstract!Next
    <3>1. Abstract!Queue(t)
      BY SMTT(30), <2>5, FreshIsFresh, ConcatAppend DEF QueueInLoop, Abstract!Queue, TypeOK
    <3> QED
      BY Zenon, <3>1 DEF Abstract!Next
  <2>6. CASE UNCHANGED <<functors, pending_functors_, executed>>
    BY Zenon, <2>6
  <2>7. CASE EnterLoop \/ PollTimeout \/ LoopQuit \/ TestQuit \/ Poll \/ WakeUpHandleRead
               \/ ReturnFromHandler \/ ReturnFromFunctor \/ FunctorsDone
    BY Zenon, <2>6, <2>7 DEF EnterLoop, PollTimeout, LoopQuit, TestQuit, Poll, WakeUpHandleRead,
                      ReturnFromHandler, ReturnFromFunctor, FunctorsDone
  <2>8. ASSUME NEW ch \in Channels, HandleEvent(ch) \/ Arrive(ch)
        PROVE  UNCHANGED Abstract!vars
    BY Zenon, <2>8 DEF HandleEvent, Arrive
  <2>9. ASSUME NEW c \in Callers, Quit(c) \/ WakeUp(c) PROVE UNCHANGED Abstract!vars
    BY Zenon, <2>9 DEF Quit, WakeUp
  <2>10. CASE UNCHANGED vars
    BY Zenon, <2>6, <2>10 DEF vars
  <2> QED
    BY Zenon, <2>1, <2>2, <2>3, <2>4, <2>5, <2>7, <2>8, <2>9, <2>10 DEF Next, LoopStep
<1> QED
  BY <1>1, <1>2, TypeCorrect, LocalVectorInv, PTL DEF Spec, KeepsQueueOrder, Abstract!Spec
=============================================================================
