-------------------------- MODULE TimerQueueProofs --------------------------
(***************************************************************************)
(* Proofs about module TimerQueue, for any number of addresses, threads    *)
(* and timers, any intervals and any steps of the wall clock.  The first   *)
(* half is about who owns each Timer: the invariant, and that every step   *)
(* keeps it.                                                               *)
(***************************************************************************)
EXTENDS TimerQueue, SequenceTheorems, TLAPS

(* The i-th functor is an AddTimeInLoop; c has made a Timer that is not    *)
(* queued yet.                                                             *)
IsAdd(i) == queue[i].op = "add"
Making(c) == adding[c] # NoTimer /\ ~adding[c].queued

InTimers(p) == \E e \in timers_ : e.timer = p
InExpired(p) == \E e \in expired : e.timer = p
InQueue(p) == \E i \in 1 .. Len(queue) : IsAdd(i) /\ queue[i].id.timer = p
InCaller(p) == \E c \in Callers : Making(c) /\ adding[c].id.timer = p

(* Who owns a Timer.  The entries of the two sets are filed under the time *)
(* of a Timer that is there, those in a functor or in the middle of an     *)
(* AddTimer have the sequence number they got, no Timer is in two places,  *)
(* and none is nowhere.                                                    *)
SetsInv ==
    /\ \A e \in timers_ : Live(e.timer) /\ e = EntryOf(e.timer)
    /\ \A e \in expired : Live(e.timer) /\ e = EntryOf(e.timer)
    /\ \A e \in timers_, f \in expired : e.timer # f.timer
    /\ pc # "expired" => expired = {}
    /\ \A e \in timers_ : ActiveOf(e.timer) \in active_timers_
    /\ \A a \in active_timers_ : InTimers(a.timer) /\ a = ActiveOf(a.timer)

QueueInv ==
    /\ batch <= Len(queue)
    /\ \A i \in 1 .. Len(queue) : IsAdd(i) =>
          /\ Live(queue[i].id.timer)
          /\ heap[queue[i].id.timer].sequence = queue[i].id.sequence
          /\ ~InTimers(queue[i].id.timer)
          /\ ~InExpired(queue[i].id.timer)
    /\ \A i, j \in 1 .. Len(queue) :
          IsAdd(i) /\ IsAdd(j) /\ queue[i].id.timer = queue[j].id.timer => i = j

CallerInv ==
    /\ \A c \in Callers : Making(c) =>
          /\ Live(adding[c].id.timer)
          /\ heap[adding[c].id.timer].sequence = adding[c].id.sequence
          /\ ~InTimers(adding[c].id.timer)
          /\ ~InExpired(adding[c].id.timer)
          /\ ~InQueue(adding[c].id.timer)
    /\ \A c, d \in Callers :
          Making(c) /\ Making(d) /\ adding[c].id.timer = adding[d].id.timer => c = d

Owned == \A p \in Addresses :
    Live(p) => InTimers(p) \/ InExpired(p) \/ InQueue(p) \/ InCaller(p)

OwnerInv == TypeOK /\ SetsInv /\ QueueInv /\ CallerInv /\ Owned

(* A step that leaves the Timers and those who own them alone.             *)
LEMMA OwnersUntouched ==
    ASSUME OwnerInv, TypeOK',
           UNCHANGED <<heap, timers_, active_timers_, expired, queue, adding>>,
           pc' # "expired" => pc # "expired",
           batch' <= Len(queue)
    PROVE  OwnerInv'
<1> USE DEF OwnerInv
<1>1. SetsInv'
  BY Zenon DEF SetsInv, Live, EntryOf, ActiveOf, InTimers
<1>2. QueueInv'
  BY Zenon DEF QueueInv, Live, IsAdd, InTimers, InExpired
<1>3. CallerInv'
  BY DEF CallerInv, Live, Making, IsAdd, InTimers, InExpired, InQueue
<1>4. Owned'
  BY Zenon DEF Owned, Live, Making, IsAdd, InTimers, InExpired, InQueue, InCaller
<1> QED
  BY Zenon, <1>1, <1>2, <1>3, <1>4

(* Before the first AddTimer there is no Timer.                            *)
LEMMA OwnerInit == Init => OwnerInv
<1> SUFFICES ASSUME Init PROVE OwnerInv
  OBVIOUS
<1>1. TypeOK
  <2>1. /\ calling_expired_timers_ \in BOOLEAN /\ readable \in BOOLEAN /\ forward \in BOOLEAN
        /\ timerActive \in BOOLEAN /\ ~calling_expired_timers_
    BY Zenon DEF Init
  <2> QED
    BY <2>1, EmptySeq DEF Init, TypeOK
<1>2. SetsInv
  BY Zenon DEF Init, SetsInv
<1>3. QueueInv
  BY DEF Init, QueueInv
<1>4. CallerInv
  BY Zenon DEF Init, CallerInv, Making
<1>5. Owned
  BY Zenon DEF Init, Owned, Live
<1> QED
  BY Zenon, <1>1, <1>2, <1>3, <1>4, <1>5 DEF OwnerInv

(* What ResetTimerFd, and AddTimeInLoop with it, leave in the timerfd.     *)
TimerFdOK == countdown \in Nat /\ readable \in BOOLEAN /\ forward \in BOOLEAN

LEMMA ResetTyped ==
    ASSUME TypeOK, NEW w \in Int, ResetTimerFd(w)
    PROVE  TimerFdOK'
<1>1. countdown' \in Nat
  BY DEF ResetTimerFd, HowMuchTimeFromNow, TypeOK
<1>2. readable' \in BOOLEAN /\ forward' \in BOOLEAN
  BY Zenon DEF ResetTimerFd
<1> QED
  BY Zenon, <1>1, <1>2 DEF TimerFdOK

(* AddTimeInLoop keeps the types of what it changes.                       *)
LEMMA AddTyped ==
    ASSUME TypeOK, NEW p \in Addresses, NEW h \in Timer, AddTimeInLoop(p, h)
    PROVE  /\ TimerFdOK'
           /\ timers_' \subseteq Entry
           /\ active_timers_' \subseteq ActiveTimer
<1>1. h.expiration \in Int /\ h.sequence \in Nat
  BY Zenon DEF Timer
<1>2. timers_' \subseteq Entry
  BY <1>1 DEF AddTimeInLoop, insert, TypeOK, Entry
<1>3. active_timers_' \subseteq ActiveTimer
  BY <1>1 DEF AddTimeInLoop, insert, TypeOK, ActiveTimer
<1>4. CASE EarliestChanged(h.expiration)
  BY Zenon, <1>1, <1>2, <1>3, <1>4, ResetTyped DEF AddTimeInLoop, insert
<1>5. CASE ~EarliestChanged(h.expiration)
  BY Zenon, <1>2, <1>3, <1>5 DEF AddTimeInLoop, insert, timerfd, TypeOK, TimerFdOK
<1> QED
  BY Zenon, <1>4, <1>5

(* AddTimeInLoop of a Timer that is in neither set.                        *)
LEMMA SetsAdd ==
    ASSUME TypeOK, SetsInv, NEW p \in Addresses, NEW h \in Timer, AddTimeInLoop(p, h),
           heap'[p] = h, \A q \in Addresses \ {p} : heap'[q] = heap[q],
           ~InTimers(p), ~InExpired(p), expired' = expired, pc' = pc
    PROVE  SetsInv'
<1> DEFINE new == [when |-> h.expiration, timer |-> p]
           newActive == [timer |-> p, sequence |-> h.sequence]
<1>1. timers_' = timers_ \cup {new} /\ active_timers_' = active_timers_ \cup {newActive}
  BY Zenon DEF AddTimeInLoop, insert
<1>2. h # NoTimer
  BY Zenon, TimerQueueAssumption
<1>3. /\ \A e \in timers_ \cup expired : e.timer \in Addresses \ {p}
      /\ \A a \in active_timers_ : a.timer \in Addresses \ {p}
  BY Zenon DEF TypeOK, SetsInv, InTimers, InExpired, Entry, ActiveTimer
<1>4. new.timer = p /\ new = EntryOf(p)' /\ newActive.timer = p /\ newActive = ActiveOf(p)'
  BY Zenon DEF EntryOf, ActiveOf
<1>5. \A q \in Addresses \ {p} : EntryOf(q)' = EntryOf(q) /\ ActiveOf(q)' = ActiveOf(q)
  BY Zenon DEF EntryOf, ActiveOf
<1> HIDE DEF new, newActive
<1>6. \A e \in timers_' : Live(e.timer)' /\ e = EntryOf(e.timer)'
  BY Zenon, <1>1, <1>2, <1>3, <1>4, <1>5 DEF SetsInv, Live
<1>7. \A e \in expired' : Live(e.timer)' /\ e = EntryOf(e.timer)'
  BY Zenon, <1>3, <1>5 DEF SetsInv, Live
<1>8. \A e \in timers_', f \in expired' : e.timer # f.timer
  BY Zenon, <1>1, <1>3, <1>4 DEF SetsInv
<1>9. \A e \in timers_' : ActiveOf(e.timer)' \in active_timers_'
  BY Zenon, <1>1, <1>3, <1>4, <1>5 DEF SetsInv
<1>10. \A a \in active_timers_' : InTimers(a.timer)' /\ a = ActiveOf(a.timer)'
  BY <1>1, <1>3, <1>4, <1>5 DEF SetsInv, InTimers
<1> QED
  BY Zenon, <1>6, <1>7, <1>8, <1>9, <1>10 DEF SetsInv

(* A new Timer is at a free address, which nobody owned.                   *)
LEMMA FreeIsNotOwned ==
    ASSUME OwnerInv, NEW p \in Addresses, ~Live(p)
    PROVE  ~InTimers(p) /\ ~InExpired(p) /\ ~InQueue(p) /\ ~InCaller(p)
BY DEF OwnerInv, SetsInv, QueueInv, CallerInv, InTimers, InExpired, InQueue, InCaller

(* AddTimer in the loop thread puts the new Timer into timers_ at once.    *)
LEMMA OwnerLoopAddTimer ==
    ASSUME OwnerInv, NEW p \in Addresses, NEW when \in 0 .. MaxTime, NEW k \in Kinds,
           LoopAddTimer(p, when, k)
    PROVE  OwnerInv'
<1> DEFINE h == NewTimerAt(p, when, k)
<1>1. h \in Timer /\ h.expiration = when /\ h.sequence = g_num_created_
  BY TimerQueueAssumption DEF NewTimerAt, Timer, OwnerInv, TypeOK
<1>2. /\ heap' = [heap EXCEPT ![p] = h]
      /\ timers_' = timers_ \cup {[when |-> h.expiration, timer |-> p]}
      /\ active_timers_' = active_timers_ \cup {[timer |-> p, sequence |-> h.sequence]}
      /\ UNCHANGED <<expired, queue, adding, batch, pc>>
  BY Zenon DEF LoopAddTimer, AddTimeInLoop, insert, readVars, loopVars
<1>3. ~InTimers(p) /\ ~InExpired(p) /\ ~InQueue(p) /\ ~InCaller(p)
  BY Zenon, FreeIsNotOwned DEF LoopAddTimer, Insertable
<1> HIDE DEF h
<1>4. h # NoTimer
  BY Zenon, <1>1, TimerQueueAssumption
<1>5. heap'[p] = h /\ \A q \in Addresses \ {p} : heap'[q] = heap[q]
  BY Zenon, <1>2 DEF OwnerInv, TypeOK
<1>6. TypeOK'
  <2>1. /\ TimerFdOK'
        /\ timers_' \subseteq Entry
        /\ active_timers_' \subseteq ActiveTimer
    BY Zenon, <1>1, AddTyped DEF LoopAddTimer, OwnerInv, h
  <2>2. heap' \in [Addresses -> Timer \cup {NoTimer}]
    BY Zenon, <1>1, <1>2 DEF OwnerInv, TypeOK
  <2>3. g_num_created_' \in Nat /\ ids' \subseteq TimerId
    <3> DEFINE id == [timer |-> p, sequence |-> g_num_created_, genuine |-> TRUE]
    <3>1. id \in TimerId /\ g_num_created_ \in Nat /\ ids \subseteq TimerId
      BY Zenon DEF OwnerInv, TypeOK, TimerId
    <3>2. g_num_created_' = g_num_created_ + 1 /\ ids' = ids \cup {id}
      BY Zenon DEF LoopAddTimer
    <3> HIDE DEF id
    <3> QED
      BY <3>1, <3>2
  <2>4. UNCHANGED <<now, cancelling_timers_, calling_expired_timers_, expired, torun, readTime,
                    pc, timerActive, batch, adding, queue, cancelled>>
    BY Zenon DEF LoopAddTimer, readVars, loopVars
  <2> QED
    BY Zenon, <2>1, <2>2, <2>3, <2>4 DEF OwnerInv, TypeOK, TimerFdOK
<1>7. SetsInv'
  BY Zenon, <1>1, <1>2, <1>3, <1>5, SetsAdd DEF OwnerInv, LoopAddTimer, h
<1>8. QueueInv'
  BY SMTT(30), <1>1, <1>2, <1>3, <1>4, <1>5
     DEF OwnerInv, TypeOK, QueueInv, Live, InTimers, InExpired, InQueue, IsAdd, Functor, TimerId
<1>9. CallerInv'
  BY SMTT(30), <1>1, <1>2, <1>3, <1>4, <1>5
     DEF OwnerInv, TypeOK, CallerInv, Live, InTimers, InExpired, InQueue, InCaller, IsAdd,
         Making, Adding, TimerId
<1>10. Owned'
  <2> SUFFICES ASSUME NEW q \in Addresses, Live(q)'
               PROVE  (InTimers(q) \/ InExpired(q) \/ InQueue(q) \/ InCaller(q))'
    BY Zenon DEF Owned
  <2>1. CASE q = p
    <3>1. [when |-> h.expiration, timer |-> p] \in timers_'
      BY Zenon, <1>2
    <3> QED
      BY Zenon, <2>1, <3>1 DEF InTimers
  <2>2. CASE q # p
    BY Zenon, <2>2, <1>2, <1>5 DEF OwnerInv, Owned, Live, InTimers, InExpired, InQueue, InCaller, IsAdd,
                            Making
  <2> QED
    BY Zenon, <2>1, <2>2
<1> QED
  BY Zenon, <1>6, <1>7, <1>8, <1>9, <1>10 DEF OwnerInv

(* AddTimer in another thread owns the Timer it makes, until it is queued. *)
LEMMA OwnerNewTimer ==
    ASSUME OwnerInv, NEW c \in Callers, NEW p \in Addresses, NEW when \in 0 .. MaxTime,
           NEW k \in Kinds, NewTimer(c, p, when, k)
    PROVE  OwnerInv'
<1> DEFINE h == NewTimerAt(p, when, k)
           id == [timer |-> p, sequence |-> g_num_created_, genuine |-> TRUE]
           call == [id |-> id, queued |-> FALSE]
<1>1. h \in Timer /\ h.sequence = g_num_created_
  BY TimerQueueAssumption DEF NewTimerAt, Timer, OwnerInv, TypeOK
<1>2. /\ heap' = [heap EXCEPT ![p] = h]
      /\ adding' = [adding EXCEPT ![c] = call]
      /\ g_num_created_' = g_num_created_ + 1
      /\ UNCHANGED <<clockVars, setVars, readVars, loopVars, ids, queue, cancelled>>
  BY Zenon DEF NewTimer
<1>3. ~InTimers(p) /\ ~InExpired(p) /\ ~InQueue(p) /\ ~InCaller(p)
  BY Zenon, FreeIsNotOwned DEF NewTimer, Insertable
<1>4. call \in Adding /\ ~call.queued /\ call.id.timer = p /\ call.id.sequence = g_num_created_
  BY Zenon DEF Adding, TimerId, OwnerInv, TypeOK
<1> HIDE DEF h, call
<1>5. h # NoTimer /\ call # NoTimer
  BY Zenon, <1>1, <1>4, TimerQueueAssumption
<1>6. heap'[p] = h /\ \A q \in Addresses \ {p} : heap'[q] = heap[q]
  BY Zenon, <1>2 DEF OwnerInv, TypeOK
<1>7. adding'[c] = call /\ \A d \in Callers \ {c} : adding'[d] = adding[d]
  BY Zenon, <1>2 DEF OwnerInv, TypeOK
<1>8. TypeOK'
  <2>1. heap' \in [Addresses -> Timer \cup {NoTimer}]
    BY Zenon, <1>1, <1>2 DEF OwnerInv, TypeOK
  <2>2. adding' \in [Callers -> Adding \cup {NoTimer}]
    BY Zenon, <1>2, <1>4 DEF OwnerInv, TypeOK
  <2> QED
    BY <2>1, <2>2, <1>2 DEF OwnerInv, TypeOK, clockVars, timerfd, setVars, readVars, loopVars
<1>0. UNCHANGED <<timers_, active_timers_, expired, queue, pc, batch>>
  BY Zenon, <1>2 DEF setVars, readVars, loopVars
<1> HIDE DEF id
<1>9. SetsInv'
  BY SMTT(30), <1>0, <1>3, <1>6
     DEF OwnerInv, TypeOK, SetsInv, Live, EntryOf, ActiveOf, InTimers, InExpired, Entry,
         ActiveTimer
<1>10. QueueInv'
  <2>1. ASSUME NEW i \in 1 .. Len(queue), IsAdd(i)
        PROVE  queue[i].id.timer \in Addresses \ {p}
    <3>1. queue[i] \in Functor
      BY DEF OwnerInv, TypeOK
    <3>2. queue[i].id.timer \in Addresses
      BY Zenon, <3>1 DEF Functor, TimerId
    <3> QED
      BY Zenon, <1>3, <2>1, <3>2 DEF InQueue
  <2>2. ASSUME NEW i \in 1 .. Len(queue), IsAdd(i)
        PROVE  heap'[queue[i].id.timer] = heap[queue[i].id.timer]
    BY Zenon, <1>6, <2>1, <2>2
  <2> QED
    BY Zenon, <1>0, <2>2 DEF OwnerInv, QueueInv, Live, InTimers, InExpired, IsAdd
<1>11. CallerInv'
  <2>1. \A d \in Callers : Making(d) => adding[d].id.timer \in Addresses
    BY Zenon DEF OwnerInv, TypeOK, Making, Adding, TimerId
  <2>2. ASSUME NEW d \in Callers \ {c}, Making(d)'
        PROVE  Making(d) /\ adding[d].id.timer \in Addresses \ {p}
    <3>1. Making(d)
      BY Zenon, <1>7, <2>2 DEF Making
    <3> QED
      BY Zenon, <1>3, <2>1, <3>1 DEF InCaller
  <2>3. ASSUME NEW d \in Callers, Making(d)'
        PROVE  /\ heap'[adding'[d].id.timer] # NoTimer
               /\ heap'[adding'[d].id.timer].sequence = adding'[d].id.sequence
               /\ ~InTimers(adding'[d].id.timer)
               /\ ~InExpired(adding'[d].id.timer)
               /\ ~InQueue(adding'[d].id.timer)
    <3>1. CASE d = c
      <4>1. adding'[d].id.timer = p /\ adding'[d].id.sequence = g_num_created_
        BY Zenon, <1>4, <1>7, <3>1
      <4> QED
        BY Zenon, <1>1, <1>3, <1>5, <1>6, <4>1
    <3>2. CASE d # c
      <4>1. adding'[d] = adding[d] /\ Making(d) /\ adding[d].id.timer \in Addresses \ {p}
        BY Zenon, <1>7, <2>2, <2>3, <3>2
      <4>2. heap'[adding[d].id.timer] = heap[adding[d].id.timer]
        BY Zenon, <1>6, <4>1
      <4> QED
        BY Zenon, <4>1, <4>2 DEF OwnerInv, CallerInv, Live
    <3> QED
      BY Zenon, <3>1, <3>2
  <2>4. ASSUME NEW d \in Callers, NEW e \in Callers, Making(d)', Making(e)',
               adding'[d].id.timer = adding'[e].id.timer
        PROVE  d = e
    BY Zenon, <1>4, <1>7, <2>2, <2>4 DEF OwnerInv, CallerInv
  <2> QED
    BY Zenon, <1>0, <2>3, <2>4 DEF CallerInv, Live, InTimers, InExpired, InQueue, IsAdd
<1>12. Owned'
  <2>1. InCaller(p)'
    BY Zenon, <1>4, <1>5, <1>7 DEF InCaller, Making
  <2>2. \A q : InCaller(q) => InCaller(q)'
    BY Zenon, <1>7 DEF InCaller, Making, NewTimer
  <2> QED
    BY Zenon, <2>1, <2>2, <1>0, <1>6 DEF OwnerInv, Owned, Live, InTimers, InExpired, InQueue, IsAdd
<1> QED
  BY Zenon, <1>8, <1>9, <1>10, <1>11, <1>12 DEF OwnerInv

-----------------------------------------------------------------------------
(* What the queue is after QueueInLoop.                                    *)
LEMMA Appended ==
    ASSUME queue \in Seq(Functor), NEW f \in Functor, queue' = Append(queue, f)
    PROVE  /\ queue' \in Seq(Functor)
           /\ Len(queue') = Len(queue) + 1
           /\ Len(queue) \in Nat
           /\ queue'[Len(queue) + 1] = f
           /\ \A i \in 1 .. Len(queue) : queue'[i] = queue[i]
BY AppendProperties, LenProperties

(* QueueInLoop hands the new Timer over to the functor.                    *)
LEMMA OwnerQueueAdd ==
    ASSUME OwnerInv, NEW c \in Callers, QueueAdd(c)
    PROVE  OwnerInv'
<1> DEFINE f == [op |-> "add", id |-> adding[c].id, inCallback |-> FALSE]
           n == Len(queue) + 1
<1>1. /\ Making(c)
      /\ queue' = Append(queue, f)
      /\ adding' = [adding EXCEPT ![c].queued = TRUE]
      /\ UNCHANGED <<clockVars, setVars, heapVars, readVars, loopVars, ids, cancelled>>
  BY Zenon DEF QueueAdd, Making
<1>2. adding[c] \in Adding
  BY Zenon, <1>1 DEF OwnerInv, TypeOK, Making
<1>3. f \in Functor /\ f.op = "add" /\ f.id = adding[c].id
  BY Zenon, <1>2 DEF Functor, Adding
<1> HIDE DEF f
<1>4. /\ queue' \in Seq(Functor) /\ Len(queue') = n /\ n \in Nat /\ n > Len(queue)
      /\ queue'[n] = f
      /\ \A i \in 1 .. Len(queue) : queue'[i] = queue[i]
  BY SMTT(30), <1>1, <1>3, Appended DEF OwnerInv, TypeOK
<1>5. \A i \in 1 .. Len(queue') : i = n \/ i \in 1 .. Len(queue)
  BY <1>4 DEF OwnerInv, TypeOK
<1>6. /\ adding'[c].queued /\ adding'[c] \in Adding
      /\ \A d \in Callers \ {c} : adding'[d] = adding[d]
      /\ adding' \in [Callers -> Adding \cup {NoTimer}]
  BY Zenon, <1>1, <1>2 DEF OwnerInv, TypeOK, Adding
<1>7. TypeOK'
  BY Zenon, <1>1, <1>4, <1>6 DEF OwnerInv, TypeOK, clockVars, timerfd, setVars, heapVars, readVars,
                          loopVars
<1>0. UNCHANGED <<heap, timers_, active_timers_, expired, pc, batch>>
  BY Zenon, <1>1 DEF setVars, heapVars, readVars, loopVars
<1>8. SetsInv'
  BY Zenon, <1>0 DEF OwnerInv, SetsInv, Live, EntryOf, ActiveOf, InTimers
<1>9. QueueInv'
  BY SMTT(30), <1>0, <1>1, <1>3, <1>4, <1>5
     DEF OwnerInv, TypeOK, QueueInv, CallerInv, Live, InTimers, InExpired, InQueue, IsAdd
<1>10. CallerInv'
  <2>1. \A d \in Callers : Making(d)' => d # c /\ Making(d) /\ adding'[d] = adding[d]
    BY Zenon, <1>6 DEF Making
  <2>2. \A d \in Callers : Making(d) /\ d # c => adding[d].id.timer # f.id.timer
    BY Zenon, <1>1, <1>3 DEF OwnerInv, CallerInv
  <2>3. \A q : InQueue(q)' => InQueue(q) \/ q = f.id.timer
    BY Zenon, <1>4, <1>5 DEF InQueue, IsAdd
  <2> QED
    BY <1>0, <2>1, <2>2, <2>3 DEF OwnerInv, CallerInv, Live, InTimers, InExpired
<1>11. Owned'
  <2>1. \A q : InQueue(q) \/ q = f.id.timer => InQueue(q)'
    BY <1>3, <1>4 DEF InQueue, IsAdd
  <2>2. \A q : InCaller(q) => InCaller(q)' \/ q = f.id.timer
    BY Zenon, <1>3, <1>6 DEF InCaller, Making
  <2> QED
    BY Zenon, <1>0, <2>1, <2>2 DEF OwnerInv, Owned, Live, InTimers, InExpired
<1> QED
  BY Zenon, <1>7, <1>8, <1>9, <1>10, <1>11 DEF OwnerInv

(* An AddTimer that returns owned nothing any more.                        *)
LEMMA OwnerReturnId ==
    ASSUME OwnerInv, NEW c \in Callers, ReturnId(c)
    PROVE  OwnerInv'
<1>1. PICK s \in SequenceRead(adding[c].id.timer) :
        ids' = ids \cup {[timer |-> adding[c].id.timer, sequence |-> s,
                          genuine |-> s = adding[c].id.sequence]}
  BY Zenon DEF ReturnId
<1>2. /\ adding[c] # NoTimer /\ adding[c].queued
      /\ adding' = [adding EXCEPT ![c] = NoTimer]
      /\ UNCHANGED <<clockVars, setVars, heapVars, readVars, loopVars, queue, cancelled>>
  BY Zenon DEF ReturnId
<1>3. adding[c] \in Adding
  BY Zenon, <1>2 DEF OwnerInv, TypeOK
<1>4. s \in Nat
  <2> DEFINE p == adding[c].id.timer
  <2>1. p \in Addresses
    BY Zenon, <1>3 DEF Adding, TimerId
  <2>2. CASE Live(p)
    BY Zenon, <2>1, <2>2, <1>1 DEF SequenceRead, Live, OwnerInv, TypeOK, Timer
  <2>3. CASE ~Live(p)
    BY <2>3, <1>1 DEF SequenceRead, OwnerInv, TypeOK
  <2> QED
    BY Zenon, <2>2, <2>3
<1>5. TypeOK'
  <2> DEFINE id == [timer |-> adding[c].id.timer, sequence |-> s,
                    genuine |-> s = adding[c].id.sequence]
  <2>1. id \in TimerId
    BY Zenon, <1>3, <1>4 DEF Adding, TimerId
  <2>2. ids' = ids \cup {id}
    BY Zenon, <1>1
  <2> HIDE DEF id
  <2>3. ids' \subseteq TimerId
    BY Zenon, <2>1, <2>2 DEF OwnerInv, TypeOK
  <2>4. adding' \in [Callers -> Adding \cup {NoTimer}]
    BY Zenon, <1>2 DEF OwnerInv, TypeOK
  <2> QED
    BY Zenon, <1>2, <2>3, <2>4 DEF OwnerInv, TypeOK, clockVars, timerfd, setVars, heapVars, readVars,
                            loopVars
<1>6. /\ \A d \in Callers : Making(d)' <=> Making(d)
      /\ \A d \in Callers : Making(d) => adding'[d] = adding[d]
  BY Zenon, <1>2 DEF OwnerInv, TypeOK, Making
<1>0. UNCHANGED <<heap, timers_, active_timers_, expired, pc, batch, queue>>
  BY Zenon, <1>2 DEF setVars, heapVars, readVars, loopVars
<1>7. SetsInv'
  BY Zenon, <1>0 DEF OwnerInv, SetsInv, Live, EntryOf, ActiveOf, InTimers
<1>8. QueueInv'
  BY Zenon, <1>0 DEF OwnerInv, QueueInv, Live, IsAdd, InTimers, InExpired
<1>9. CallerInv'
  BY SMTT(30), <1>0, <1>6 DEF OwnerInv, CallerInv, Live, IsAdd, InTimers, InExpired, InQueue
<1>10. Owned'
  BY <1>0, <1>6 DEF OwnerInv, Owned, Live, IsAdd, InTimers, InExpired, InQueue, InCaller
<1> QED
  BY Zenon, <1>5, <1>7, <1>8, <1>9, <1>10 DEF OwnerInv

(* A queued cancellation owns nothing.                                     *)
LEMMA OwnerQueueCancel ==
    ASSUME OwnerInv, NEW id \in ids, QueueCancel(id),
           UNCHANGED <<clockVars, setVars, heapVars, readVars, loopVars, userVars, cancelled>>
    PROVE  OwnerInv'
<1> DEFINE f == [op |-> "cancel", id |-> id, inCallback |-> InCallback]
<1>1. f \in Functor
  BY Zenon DEF Functor, OwnerInv, TypeOK, InCallback
<1>2. queue' = Append(queue, f) /\ f.op = "cancel"
  BY Zenon DEF QueueCancel
<1> HIDE DEF f
<1>3. /\ queue' \in Seq(Functor) /\ Len(queue') = Len(queue) + 1 /\ Len(queue) \in Nat
      /\ queue'[Len(queue) + 1] = f
      /\ \A i \in 1 .. Len(queue) : queue'[i] = queue[i]
  BY Zenon, <1>1, <1>2, Appended DEF OwnerInv, TypeOK
<1>4. \A i \in 1 .. Len(queue') : IsAdd(i)' => i \in 1 .. Len(queue) /\ IsAdd(i)
  BY SMTT(30), <1>2, <1>3 DEF IsAdd
<1>5. TypeOK'
  BY Zenon, <1>3 DEF OwnerInv, TypeOK, clockVars, timerfd, setVars, heapVars, readVars, loopVars,
              userVars
<1>0. UNCHANGED <<heap, timers_, active_timers_, expired, pc, batch, adding>>
  BY Zenon DEF setVars, heapVars, readVars, loopVars, userVars
<1>6. \A q : InQueue(q)' <=> InQueue(q)
  BY SMTT(30), <1>3, <1>4 DEF InQueue, IsAdd
<1>7. SetsInv'
  BY Zenon, <1>0 DEF OwnerInv, SetsInv, Live, EntryOf, ActiveOf, InTimers
<1>8. QueueInv'
  <2>1. batch' <= Len(queue')
    BY SMTT(30), <1>0, <1>3 DEF OwnerInv, TypeOK, QueueInv
  <2> QED
    BY SMTT(30), <1>0, <2>1, <1>3, <1>4 DEF OwnerInv, QueueInv, Live, InTimers, InExpired
<1>9. CallerInv'
  BY Zenon, <1>0, <1>6 DEF OwnerInv, CallerInv, Live, Making, InTimers, InExpired
<1>10. Owned'
  BY Zenon, <1>0, <1>6 DEF OwnerInv, Owned, Live, Making, InTimers, InExpired, InCaller
<1> QED
  BY Zenon, <1>5, <1>7, <1>8, <1>9, <1>10 DEF OwnerInv

-----------------------------------------------------------------------------
(* HandleRead and Reset.                                                   *)

(* HandleRead moves entries from timers_ to expired.                       *)
LEMMA OwnerHandleRead ==
    ASSUME OwnerInv, HandleRead
    PROVE  OwnerInv'
<1> DEFINE X == GetExpired
<1>1. /\ timers_' = timers_ \ X /\ expired' = X /\ torun' = X
      /\ active_timers_' = active_timers_ \ {ActiveOf(e.timer) : e \in X}
      /\ UNCHANGED <<heap, queue, adding, batch>>
  BY Zenon DEF HandleRead, EraseActive, heapVars, userVars
<1>2. X \subseteq timers_ /\ expired = {}
  BY Zenon DEF GetExpired, HandleRead, OwnerInv, SetsInv
<1> HIDE DEF X
<1>3. TypeOK'
  <2>1. timers_' \subseteq Entry /\ expired' \subseteq Entry /\ torun' \subseteq expired'
        /\ active_timers_' \subseteq ActiveTimer
    BY Zenon, <1>1, <1>2 DEF OwnerInv, TypeOK
  <2>2. /\ pc' = "expired" /\ calling_expired_timers_' = TRUE /\ timerActive' = FALSE
        /\ readable' = FALSE /\ readTime' = now
        /\ UNCHANGED <<now, countdown, forward, cancelling_timers_, heap, g_num_created_,
                       adding, ids, batch, queue, cancelled>>
    BY Zenon DEF HandleRead, heapVars, userVars
  <2>3. /\ calling_expired_timers_' \in BOOLEAN /\ timerActive' \in BOOLEAN
        /\ readable' \in BOOLEAN /\ calling_expired_timers_'
    BY Zenon, <2>2
  <2> QED
    BY Zenon, <2>1, <2>2, <2>3 DEF OwnerInv, TypeOK
<1>4. \A e, f \in timers_ : e.timer = f.timer => e = f
  BY Zenon DEF OwnerInv, SetsInv
<1>5. SetsInv'
  <2>1. \A e \in timers_' \cup expired' : Live(e.timer)' /\ e = EntryOf(e.timer)'
    BY Zenon, <1>1, <1>2 DEF OwnerInv, SetsInv, Live, EntryOf
  <2>2. \A e \in timers_', f \in expired' : e.timer # f.timer
    BY Zenon, <1>1, <1>2, <1>4
  <2>3. \A e \in timers_' : ActiveOf(e.timer)' \in active_timers_'
    <3> SUFFICES ASSUME NEW e \in timers_' PROVE ActiveOf(e.timer) \in active_timers_'
      BY Zenon, <1>1 DEF ActiveOf
    <3>1. ASSUME NEW f \in X PROVE ActiveOf(e.timer) # ActiveOf(f.timer)
      BY Zenon, <1>1, <1>2, <1>4 DEF ActiveOf
    <3> QED
      BY Zenon, <3>1, <1>1 DEF OwnerInv, SetsInv
  <2>4. \A a \in active_timers_' : InTimers(a.timer)' /\ a = ActiveOf(a.timer)'
    <3> SUFFICES ASSUME NEW a \in active_timers_'
                 PROVE  (\E e \in timers_' : e.timer = a.timer) /\ a = ActiveOf(a.timer)
      BY Zenon, <1>1 DEF InTimers, ActiveOf
    <3>1. PICK e \in timers_ : e.timer = a.timer
      BY Zenon, <1>1 DEF OwnerInv, SetsInv, InTimers
    <3>2. a = ActiveOf(a.timer)
      BY Zenon, <1>1 DEF OwnerInv, SetsInv
    <3>3. e \notin X
      BY Zenon, <3>1, <3>2, <1>1
    <3> QED
      BY Zenon, <3>1, <3>2, <3>3, <1>1
  <2>5. pc' = "expired"
    BY Zenon DEF HandleRead
  <2> QED
    BY Zenon, <2>1, <2>2, <2>3, <2>4, <2>5 DEF SetsInv
<1>6. \A q : InTimers(q)' \/ InExpired(q)' <=> InTimers(q)
  BY Zenon, <1>1, <1>2 DEF InTimers, InExpired
<1>7. QueueInv'
  BY Zenon, <1>1, <1>6 DEF OwnerInv, QueueInv, Live, IsAdd
<1>8. CallerInv'
  BY Zenon, <1>1, <1>6 DEF OwnerInv, CallerInv, Live, IsAdd, Making, InQueue
<1>9. Owned'
  <2>1. \A q : ~InExpired(q)
    BY Zenon, <1>2 DEF InExpired
  <2> QED
    BY Zenon, <1>1, <1>6, <2>1 DEF OwnerInv, Owned, Live, IsAdd, Making, InQueue, InCaller
<1> QED
  BY Zenon, <1>3, <1>5, <1>7, <1>8, <1>9 DEF OwnerInv

(* Reset gives each expired Timer back to timers_ or frees it.             *)
LEMMA OwnerReset ==
    ASSUME OwnerInv, Reset
    PROVE  OwnerInv'
<1> DEFINE back(p) == \E e \in Repeating : e.timer = p
           entry(p) == [when |-> Restarted(p).expiration, timer |-> p]
           R == {entry(e.timer) : e \in Repeating}
           A == {ActiveOf(e.timer) : e \in Repeating}
<1>1. /\ heap' = [p \in Addresses |-> IF back(p) THEN Restarted(p)
                                      ELSE IF InExpired(p) THEN NoTimer ELSE heap[p]]
      /\ timers_' = timers_ \cup R
      /\ active_timers_' = active_timers_ \cup A
      /\ expired' = {} /\ pc' = "events"
      /\ UNCHANGED <<queue, adding, batch>>
  BY Zenon DEF Reset, InExpired, userVars
<1>2. \A p \in Addresses : back(p) => InExpired(p) /\ Live(p)
  BY Zenon DEF Repeating, InExpired, OwnerInv, SetsInv
<1>3. \A e \in Repeating : e \in expired /\ e.timer \in Addresses /\ back(e.timer)
  BY Zenon DEF Repeating, OwnerInv, TypeOK, Entry
<1>4. ASSUME NEW p \in Addresses, back(p)
      PROVE  /\ Restarted(p) \in Timer /\ Restarted(p).sequence = heap[p].sequence
             /\ heap'[p] = Restarted(p) /\ heap'[p] # NoTimer
  <2>1. heap[p] \in Timer
    BY Zenon, <1>2, <1>4 DEF OwnerInv, TypeOK, Live
  <2>2. Restarted(p) \in Timer /\ Restarted(p).sequence = heap[p].sequence
    BY SMTT(30), <2>1 DEF Restarted, Timer, OwnerInv, TypeOK
  <2>3. heap'[p] = Restarted(p)
    BY Zenon, <1>1, <1>4
  <2> QED
    BY Zenon, <2>2, <2>3, TimerQueueAssumption
<1>5. ASSUME NEW p \in Addresses, ~InExpired(p)
      PROVE  heap'[p] = heap[p]
  BY Zenon, <1>1, <1>2, <1>5
<1>6. ASSUME NEW p \in Addresses, InExpired(p), ~back(p)
      PROVE  heap'[p] = NoTimer
  BY Zenon, <1>1, <1>6
<1>7. /\ \A e \in R : back(e.timer) /\ e.timer \in Addresses /\ e = entry(e.timer)
      /\ \A p \in Addresses : back(p) => entry(p) \in R
      /\ \A p \in Addresses : entry(p).timer = p /\ entry(p).when = Restarted(p).expiration
  <2>1. \A p \in Addresses : entry(p).timer = p /\ entry(p).when = Restarted(p).expiration
    OBVIOUS
  <2> HIDE DEF entry
  <2> QED
    BY Zenon, <1>3, <2>1
<1>8. /\ \A a \in A : back(a.timer) /\ a.timer \in Addresses /\ a = ActiveOf(a.timer)
      /\ \A p \in Addresses : back(p) => ActiveOf(p) \in A
  BY SMTT(30), <1>3 DEF ActiveOf
<1>9. \A e \in timers_ : e.timer \in Addresses /\ ~InExpired(e.timer)
  BY Zenon DEF OwnerInv, TypeOK, Entry, SetsInv, InExpired
<1> HIDE DEF back, R, A
<1>10. SetsInv'
  <2>1. \A e \in timers_' : Live(e.timer)' /\ e = EntryOf(e.timer)'
    BY SMTT(30), <1>1, <1>4, <1>5, <1>7, <1>9 DEF OwnerInv, SetsInv, Live, EntryOf
  <2>2. \A e \in timers_' : ActiveOf(e.timer)' \in active_timers_'
    BY Zenon, <1>1, <1>4, <1>5, <1>7, <1>8, <1>9 DEF OwnerInv, SetsInv, ActiveOf
  <2>3. \A a \in active_timers_' : InTimers(a.timer)' /\ a = ActiveOf(a.timer)'
    <3> SUFFICES ASSUME NEW a \in active_timers_'
                 PROVE  (\E e \in timers_' : e.timer = a.timer) /\ a = ActiveOf(a.timer)'
      BY Zenon DEF InTimers
    <3>1. CASE a \in active_timers_
      <4>1. PICK e \in timers_ : e.timer = a.timer
        BY Zenon, <3>1 DEF OwnerInv, SetsInv, InTimers
      <4>2. a = ActiveOf(a.timer)
        BY Zenon, <3>1 DEF OwnerInv, SetsInv
      <4>3. heap'[a.timer] = heap[a.timer]
        BY Zenon, <4>1, <1>5, <1>9
      <4> QED
        BY Zenon, <4>1, <4>2, <4>3, <1>1 DEF ActiveOf
    <3>2. CASE a \in A
      <4>1. back(a.timer) /\ a.timer \in Addresses /\ a = ActiveOf(a.timer)
        BY Zenon, <3>2, <1>8
      <4>2. entry(a.timer) \in timers_' /\ entry(a.timer).timer = a.timer
        BY Zenon, <4>1, <1>1, <1>7
      <4> QED
        BY Zenon, <4>1, <4>2, <1>4 DEF ActiveOf
    <3> QED
      BY Zenon, <3>1, <3>2, <1>1
  <2> QED
    BY Zenon, <2>1, <2>2, <2>3, <1>1 DEF SetsInv
<1>11. TypeOK'
  <2>1. R \subseteq Entry
    BY <1>4, <1>7 DEF Entry, Timer
  <2>2. A \subseteq ActiveTimer
    BY <1>2, <1>8 DEF ActiveTimer, ActiveOf, Live, OwnerInv, TypeOK, Timer
  <2>3. timers_' \subseteq Entry /\ active_timers_' \subseteq ActiveTimer
    BY Zenon, <2>1, <2>2, <1>1 DEF OwnerInv, TypeOK
  <2>4. TimerFdOK'
    <3>1. CASE timers_' # {}
      <4>1. PICK first \in timers_' : ResetTimerFd(first.when)
        BY Zenon, <3>1 DEF Reset, ResetToEarliest
      <4>2. first.when \in Int
        BY Zenon, <2>3 DEF Entry
      <4> QED
        BY Zenon, <4>1, <4>2, ResetTyped DEF OwnerInv
    <3>2. CASE timers_' = {}
      BY Zenon, <3>2 DEF Reset, timerfd, TimerFdOK, OwnerInv, TypeOK
    <3> QED
      BY Zenon, <3>1, <3>2
  <2>5. heap' \in [Addresses -> Timer \cup {NoTimer}]
    <3>1. \A p \in Addresses : heap'[p] \in Timer \cup {NoTimer}
      BY Zenon, <1>4, <1>5, <1>6 DEF OwnerInv, TypeOK
    <3> QED
      BY Zenon, <3>1, <1>1
  <2>6. calling_expired_timers_' \in BOOLEAN /\ ~calling_expired_timers_'
    BY Zenon DEF Reset
  <2>7. /\ torun' = {} /\ expired' = {} /\ cancelling_timers_' = {} /\ pc' = "events"
        /\ UNCHANGED <<now, g_num_created_, readTime, timerActive, batch, adding, ids, queue,
                       cancelled>>
    BY ZenonT(30) DEF Reset, userVars
  <2> QED
    BY Zenon, <2>3, <2>4, <2>5, <2>6, <2>7 DEF OwnerInv, TypeOK, TimerFdOK
<1>12. \A q \in Addresses : InTimers(q)' <=> InTimers(q) \/ back(q)
  <2> HIDE DEF entry
  <2> QED
    BY Zenon, <1>1, <1>7 DEF InTimers
<1>13. \A q : ~InExpired(q)'
  BY Zenon, <1>1 DEF InExpired
<1>14. QueueInv'
  <2>1. \A i \in 1 .. Len(queue) : queue[i] \in Functor
    BY Zenon, ElementOfSeq DEF OwnerInv, TypeOK
  <2>2. \A i \in 1 .. Len(queue) : queue[i].id.timer \in Addresses
    BY Zenon, <2>1 DEF Functor, TimerId
  <2> QED
    BY ZenonT(30), <2>2, <1>1, <1>2, <1>5, <1>12, <1>13 DEF OwnerInv, QueueInv, Live, IsAdd
<1>15. CallerInv'
  <2>1. \A c \in Callers : Making(c) => adding[c].id.timer \in Addresses
    BY Zenon DEF OwnerInv, TypeOK, Making, Adding, TimerId
  <2> QED
    BY <2>1, <1>1, <1>2, <1>5, <1>12, <1>13
       DEF OwnerInv, CallerInv, Live, IsAdd, Making, InQueue
<1>16. Owned'
  <2> SUFFICES ASSUME NEW q \in Addresses, Live(q)'
               PROVE  (InTimers(q) \/ InExpired(q) \/ InQueue(q) \/ InCaller(q))'
    BY Zenon DEF Owned
  <2>1. CASE InExpired(q)
    BY Zenon, <2>1, <1>6, <1>12 DEF Live
  <2>2. CASE ~InExpired(q)
    BY Zenon, <2>2, <1>1, <1>5, <1>12 DEF OwnerInv, Owned, Live, IsAdd, Making, InQueue, InCaller
  <2> QED
    BY Zenon, <2>1, <2>2
<1> QED
  BY Zenon, <1>10, <1>11, <1>14, <1>15, <1>16 DEF OwnerInv

-----------------------------------------------------------------------------
(* The queued functors.                                                    *)

(* Taking the functor at the head moves the others up.                     *)
LEMMA Taken ==
    ASSUME OwnerInv, FunctorTaken
    PROVE  /\ Head(queue) = queue[1] /\ queue[1] \in Functor /\ 1 \in 1 .. Len(queue)
           /\ queue' \in Seq(Functor)
           /\ Len(queue') = Len(queue) - 1 /\ Len(queue) \in Nat
           /\ \A i \in 1 .. Len(queue') : i + 1 \in 2 .. Len(queue) /\ queue'[i] = queue[i + 1]
           /\ batch' \in Nat /\ batch' <= Len(queue')
           /\ \A q : InQueue(q) => InQueue(q)' \/ (IsAdd(1) /\ q = queue[1].id.timer)
           /\ \A q : InQueue(q)' => \E i \in 2 .. Len(queue) : IsAdd(i) /\ queue[i].id.timer = q
<1>1. queue \in Seq(Functor) /\ batch \in Nat /\ batch <= Len(queue) /\ Len(queue) \in Nat
  BY Zenon, LenProperties DEF OwnerInv, TypeOK, QueueInv
<1>2. batch > 0 /\ batch' = batch - 1 /\ queue' = Tail(queue)
  BY Zenon DEF FunctorTaken
<1>3. queue # <<>> /\ 1 \in 1 .. Len(queue)
  BY <1>1, <1>2
<1>4. /\ Head(queue) = queue[1]
      /\ queue' \in Seq(Functor)
      /\ Len(queue') = Len(queue) - 1
      /\ \A i \in 1 .. Len(queue') : queue'[i] = queue[i + 1]
  BY <1>1, <1>2, <1>3, HeadTailProperties
<1>5. queue[1] \in Functor
  BY Zenon, <1>1, <1>3, ElementOfSeq
<1>6. \A i \in 1 .. Len(queue') : i + 1 \in 2 .. Len(queue)
  BY <1>1, <1>4
<1>7. ASSUME NEW q, InQueue(q)
      PROVE  InQueue(q)' \/ (IsAdd(1) /\ q = queue[1].id.timer)
  <2>1. PICK i \in 1 .. Len(queue) : IsAdd(i) /\ queue[i].id.timer = q
    BY Zenon, <1>7 DEF InQueue
  <2>2. CASE i # 1
    <3>1. i - 1 \in 1 .. Len(queue') /\ (i - 1) + 1 = i
      BY <2>2, <1>1, <1>4
    <3>2. queue'[i - 1] = queue[i]
      BY Zenon, <3>1, <1>4
    <3> QED
      BY Zenon, <2>1, <3>1, <3>2 DEF InQueue, IsAdd
  <2> QED
    BY Zenon, <2>1, <2>2
<1>8. ASSUME NEW q, InQueue(q)'
      PROVE  \E i \in 2 .. Len(queue) : IsAdd(i) /\ queue[i].id.timer = q
  BY Zenon, <1>4, <1>6, <1>8 DEF InQueue, IsAdd
<1> QED
  BY <1>1, <1>2, <1>3, <1>4, <1>5, <1>6, <1>7, <1>8

(* AddTimeInLoop moves the Timer of a functor to timers_.                  *)
LEMMA OwnerRunAdd ==
    ASSUME OwnerInv, RunAddTimeInLoop
    PROVE  OwnerInv'
<1> DEFINE p == queue[1].id.timer
           h == heap[p]
<1>1. /\ FunctorTaken /\ Head(queue).op = "add"
      /\ AddTimeInLoop(Head(queue).id.timer, heap[Head(queue).id.timer])
      /\ UNCHANGED <<cancelling_timers_, calling_expired_timers_, heap, cancelled>>
  BY Zenon DEF RunAddTimeInLoop
<1>2. IsAdd(1) /\ p \in Addresses /\ AddTimeInLoop(p, h)
  BY Zenon, <1>1, Taken DEF IsAdd, Functor, TimerId
<1>3. /\ UNCHANGED <<heap, expired, torun, readTime, adding, ids, pc, timerActive, now,
                     g_num_created_, cancelling_timers_, calling_expired_timers_, cancelled>>
  BY Zenon, <1>1 DEF FunctorTaken, readVars, userVars
<1>4. Live(p) /\ ~InTimers(p) /\ ~InExpired(p)
  BY Zenon, <1>1, <1>2, Taken DEF OwnerInv, QueueInv
<1>5. h \in Timer
  BY Zenon, <1>2, <1>4 DEF Live, OwnerInv, TypeOK
<1>6. SetsInv'
  BY Zenon, <1>2, <1>3, <1>4, <1>5, SetsAdd DEF OwnerInv
<1>7. TypeOK'
  <2>1. TimerFdOK' /\ timers_' \subseteq Entry /\ active_timers_' \subseteq ActiveTimer
    BY Zenon, <1>2, <1>5, AddTyped DEF OwnerInv
  <2>2. batch' \in Nat /\ queue' \in Seq(Functor)
    BY Zenon, <1>1, Taken
  <2> QED
    BY Zenon, <1>3, <2>1, <2>2 DEF OwnerInv, TypeOK, TimerFdOK
<1>8. \A q : (InTimers(q)' <=> InTimers(q) \/ q = p) /\ (InExpired(q)' <=> InExpired(q))
  <2> DEFINE new == [when |-> h.expiration, timer |-> p]
  <2>1. timers_' = timers_ \cup {new} /\ new.timer = p
    BY Zenon, <1>2 DEF AddTimeInLoop, insert
  <2> HIDE DEF new
  <2> QED
    BY Zenon, <2>1, <1>3 DEF InTimers, InExpired
<1> HIDE DEF p
<1>9. \A i \in 2 .. Len(queue) : IsAdd(i) => queue[i].id.timer # p
  BY <1>1, <1>2, Taken DEF OwnerInv, QueueInv, p
<1>10. QueueInv'
  <2>1. \A i \in 1 .. Len(queue') : /\ i + 1 \in 1 .. Len(queue) /\ i + 1 \in 2 .. Len(queue)
                                    /\ queue'[i] = queue[i + 1]
                                    /\ IsAdd(i)' <=> IsAdd(i + 1)
    BY <1>1, Taken DEF IsAdd
  <2>2. (\A i \in 1 .. Len(queue) : IsAdd(i) =>
          /\ Live(queue[i].id.timer)
          /\ heap[queue[i].id.timer].sequence = queue[i].id.sequence
          /\ ~InTimers(queue[i].id.timer)
          /\ ~InExpired(queue[i].id.timer))'
    BY <1>3, <1>8, <1>9, <2>1 DEF OwnerInv, QueueInv, Live
  <2>3. \A i, j \in 1 .. Len(queue') :
          IsAdd(i)' /\ IsAdd(j)' /\ queue'[i].id.timer = queue'[j].id.timer => i = j
    <3> SUFFICES ASSUME NEW i \in 1 .. Len(queue'), NEW j \in 1 .. Len(queue'),
                        IsAdd(i)', IsAdd(j)', queue'[i].id.timer = queue'[j].id.timer
                 PROVE  i = j
      OBVIOUS
    <3>1. i + 1 = j + 1
      BY SMTT(30), <2>1 DEF OwnerInv, QueueInv
    <3> QED
      BY <3>1
  <2>4. batch' <= Len(queue')
    BY Zenon, <1>1, Taken
  <2> QED
    BY Zenon, <2>2, <2>3, <2>4 DEF QueueInv
<1>11. CallerInv'
  <2>1. \A q : InQueue(q)' => InQueue(q)
    <3>1. \A i \in 2 .. Len(queue) : i \in 1 .. Len(queue)
      OBVIOUS
    <3> QED
      BY Zenon, <3>1, <1>1, Taken DEF InQueue
  <2>2. InQueue(p)
    BY Zenon, <1>1, <1>2, Taken DEF InQueue, p
  <2> QED
    BY <1>3, <1>8, <2>1, <2>2 DEF OwnerInv, CallerInv, Live, Making
<1>12. Owned'
  <2>1. \A q : InQueue(q) => InQueue(q)' \/ q = p
    BY Zenon, <1>1, Taken DEF p
  <2> QED
    BY Zenon, <1>3, <1>8, <2>1 DEF OwnerInv, Owned, Live, Making, InCaller
<1> QED
  BY Zenon, <1>6, <1>7, <1>10, <1>11, <1>12 DEF OwnerInv

(* CancelTimerInLoop frees a Timer and removes it from timers_, or changes *)
(* no owner.                                                               *)
LEMMA OwnerRunCancel ==
    ASSUME OwnerInv, RunCancelTimerInLoop
    PROVE  OwnerInv'
<1> DEFINE id == queue[1].id
           p == id.timer
           a == [timer |-> p, sequence |-> id.sequence]
<1>1. /\ FunctorTaken /\ Head(queue).op = "cancel" /\ Head(queue) = queue[1]
      /\ UNCHANGED calling_expired_timers_
      /\ IF a \in active_timers_ THEN CancelActive(p) ELSE CancelAbsent(a)
      /\ cancelled' = IF id.genuine THEN cancelled \cup {a} ELSE cancelled
  BY Zenon, Taken DEF RunCancelTimerInLoop
<1>2. ~IsAdd(1) /\ p \in Addresses /\ a \in ActiveTimer /\ a.timer = p
  BY Zenon, <1>1, Taken DEF IsAdd, Functor, TimerId, ActiveTimer
<1>3. UNCHANGED <<expired, torun, readTime, adding, ids, pc, timerActive, now, g_num_created_>>
  BY Zenon, <1>1 DEF FunctorTaken, readVars, userVars
<1> HIDE DEF a, p
<1>4. /\ cancelled' \subseteq ActiveTimer
      /\ batch' \in Nat /\ queue' \in Seq(Functor) /\ batch' <= Len(queue')
  BY Zenon, <1>1, <1>2, Taken DEF OwnerInv, TypeOK
<1>5. \A i \in 1 .. Len(queue') : /\ i + 1 \in 1 .. Len(queue)
                                  /\ queue'[i] = queue[i + 1]
                                  /\ IsAdd(i)' <=> IsAdd(i + 1)
  <2>1. \A i \in 2 .. Len(queue) : i \in 1 .. Len(queue)
    OBVIOUS
  <2> QED
    BY Zenon, <1>1, <2>1, Taken DEF IsAdd
<1>6. \A q : InQueue(q)' <=> InQueue(q)
  <2>1. \A q : InQueue(q) => InQueue(q)'
    BY Zenon, <1>1, <1>2, Taken
  <2> QED
    BY ZenonT(30), <2>1, <1>5 DEF InQueue
<1>7. (\A i, j \in 1 .. Len(queue) :
         IsAdd(i) /\ IsAdd(j) /\ queue[i].id.timer = queue[j].id.timer => i = j)'
  <2> SUFFICES ASSUME NEW i \in 1 .. Len(queue'), NEW j \in 1 .. Len(queue'),
                      IsAdd(i)', IsAdd(j)', queue'[i].id.timer = queue'[j].id.timer
               PROVE  i = j
    OBVIOUS
  <2>1. i + 1 = j + 1
    BY <1>5 DEF OwnerInv, QueueInv
  <2> QED
    BY <2>1
<1>8. CASE a \in active_timers_
  <2>1. /\ timers_' = timers_ \ {EntryOf(p)}
        /\ active_timers_' = active_timers_ \ {ActiveOf(p)}
        /\ heap' = [heap EXCEPT ![p] = NoTimer]
        /\ UNCHANGED cancelling_timers_
    BY Zenon, <1>1, <1>8 DEF CancelActive, Delete
  <2>2. /\ heap'[p] = NoTimer /\ \A q \in Addresses \ {p} : heap'[q] = heap[q]
        /\ heap' \in [Addresses -> Timer \cup {NoTimer}]
    BY Zenon, <1>2, <2>1 DEF OwnerInv, TypeOK
  <2>3. /\ InTimers(p) /\ a = ActiveOf(p)
        /\ \A e \in timers_ : e.timer \in Addresses /\ (e.timer = p <=> e = EntryOf(p))
    <3>1. \A e \in timers_ : e.timer \in Addresses /\ e = EntryOf(e.timer)
      BY Zenon DEF OwnerInv, SetsInv, TypeOK, Entry
    <3>2. EntryOf(p).timer = p
      BY Zenon DEF EntryOf
    <3> QED
      BY Zenon, <3>1, <3>2, <1>2, <1>8 DEF OwnerInv, SetsInv
  <2>4. \A q : InTimers(q)' <=> InTimers(q) /\ q # p
    BY Zenon, <2>1, <2>3 DEF InTimers
  <2>5. ~InExpired(p) /\ ~InQueue(p) /\ ~InCaller(p)
    BY <2>3 DEF OwnerInv, SetsInv, QueueInv, CallerInv, InTimers, InExpired, InQueue, InCaller
  <2>6. SetsInv'
    <3>1. \A e \in timers_' : Live(e.timer)' /\ e = EntryOf(e.timer)'
      BY Zenon, <2>1, <2>2, <2>3 DEF OwnerInv, SetsInv, Live, EntryOf
    <3>2. \A e \in expired' : Live(e.timer)' /\ e = EntryOf(e.timer)'
      BY Zenon, <1>3, <2>2, <2>5 DEF OwnerInv, SetsInv, TypeOK, Entry, Live, EntryOf, InExpired
    <3>3. \A e \in timers_' : ActiveOf(e.timer)' \in active_timers_'
      <4> SUFFICES ASSUME NEW e \in timers_' PROVE ActiveOf(e.timer)' \in active_timers_'
        OBVIOUS
      <4>1. e \in timers_ /\ e.timer \in Addresses \ {p}
        BY Zenon, <2>1, <2>3
      <4>2. ActiveOf(e.timer)' = ActiveOf(e.timer) /\ ActiveOf(e.timer) # ActiveOf(p)
        BY Zenon, <4>1, <2>2 DEF ActiveOf
      <4> QED
        BY Zenon, <4>1, <4>2, <2>1 DEF OwnerInv, SetsInv
    <3>4. \A b \in active_timers_' : InTimers(b.timer)' /\ b = ActiveOf(b.timer)'
      <4> SUFFICES ASSUME NEW b \in active_timers_'
                   PROVE  InTimers(b.timer)' /\ b = ActiveOf(b.timer)'
        OBVIOUS
      <4>1. InTimers(b.timer) /\ b = ActiveOf(b.timer) /\ b.timer # p
        BY Zenon, <2>1 DEF OwnerInv, SetsInv
      <4>2. b.timer \in Addresses
        BY Zenon, <2>1 DEF OwnerInv, TypeOK, ActiveTimer
      <4> QED
        BY Zenon, <4>1, <4>2, <2>2, <2>4 DEF ActiveOf
    <3>5. \A e \in timers_', f \in expired' : e.timer # f.timer
      BY Zenon, <1>3, <2>1 DEF OwnerInv, SetsInv
    <3> QED
      BY Zenon, <3>1, <3>2, <3>3, <3>4, <3>5, <1>3 DEF OwnerInv, SetsInv
  <2>7. TypeOK'
    <3>1. timers_' \subseteq Entry /\ active_timers_' \subseteq ActiveTimer
      BY Zenon, <2>1 DEF OwnerInv, TypeOK
    <3>2. TimerFdOK'
      <4>1. CASE UNCHANGED timerfd
        BY Zenon, <4>1 DEF timerfd, TimerFdOK, OwnerInv, TypeOK
      <4>2. CASE ResetToEarliest(timers_')
        <5>1. PICK first \in timers_' : ResetTimerFd(first.when)
          BY Zenon, <4>2 DEF ResetToEarliest
        <5>2. first.when \in Int
          BY Zenon, <3>1 DEF Entry
        <5> QED
          BY Zenon, <5>1, <5>2, ResetTyped DEF OwnerInv
      <4>3. CASE StopTimerFd
        <5>1. readable' \in BOOLEAN /\ forward' \in BOOLEAN
          BY <4>3, Zenon DEF StopTimerFd
        <5> QED
          BY Zenon, <4>3, <5>1 DEF StopTimerFd, TimerFdOK
      <4> QED
        BY Zenon, <1>1, <1>8, <4>1, <4>2, <4>3 DEF CancelActive
    <3> QED
      BY Zenon, <1>1, <1>3, <1>4, <2>1, <2>2, <3>1, <3>2 DEF OwnerInv, TypeOK, TimerFdOK
  <2>8. QueueInv'
    <3>1. \A i \in 1 .. Len(queue) : IsAdd(i) => queue[i].id.timer \in Addresses \ {p}
      <4>1. \A i \in 1 .. Len(queue) : queue[i] \in Functor
        BY Zenon, ElementOfSeq DEF OwnerInv, TypeOK
      <4> QED
        BY Zenon, <4>1, <2>5 DEF InQueue, Functor, TimerId
    <3> QED
      BY <3>1, <1>3, <1>4, <1>5, <1>7, <2>2, <2>4 DEF OwnerInv, QueueInv, Live, InExpired
  <2>9. CallerInv'
    <3>1. \A c \in Callers : Making(c) => adding[c].id.timer \in Addresses \ {p}
      BY Zenon, <2>5 DEF OwnerInv, TypeOK, InCaller, Making, Adding, TimerId
    <3> QED
      BY <3>1, <1>3, <1>6, <2>2, <2>4 DEF OwnerInv, CallerInv, Live, Making, InExpired
  <2>10. Owned'
    BY Zenon, <1>3, <1>6, <2>2, <2>4 DEF OwnerInv, Owned, Live, Making, InExpired, InCaller
  <2> QED
    BY <2>6, <2>7, <2>8, <2>9, <2>10 DEF OwnerInv
<1>9. CASE a \notin active_timers_
  <2>1. /\ UNCHANGED <<timers_, active_timers_, heap, timerfd>>
        /\ cancelling_timers_' = IF calling_expired_timers_ THEN cancelling_timers_ \cup {a}
                                 ELSE cancelling_timers_
    BY Zenon, <1>1, <1>9 DEF CancelAbsent
  <2>2. cancelling_timers_' \subseteq ActiveTimer
    BY Zenon, <2>1, <1>2 DEF OwnerInv, TypeOK
  <2>3. TypeOK'
    BY Zenon, <1>1, <1>3, <1>4, <2>1, <2>2 DEF OwnerInv, TypeOK, timerfd
  <2>4. SetsInv'
    BY Zenon, <1>3, <2>1 DEF OwnerInv, SetsInv, Live, EntryOf, ActiveOf, InTimers
  <2>5. QueueInv'
    BY SMTT(30), <1>3, <1>4, <1>5, <1>7, <2>1 DEF OwnerInv, QueueInv, Live, InTimers, InExpired
  <2>6. CallerInv'
    BY Zenon, <1>3, <1>6, <2>1 DEF OwnerInv, CallerInv, Live, Making, InTimers, InExpired
  <2>7. Owned'
    BY Zenon, <1>3, <1>6, <2>1 DEF OwnerInv, Owned, Live, Making, InTimers, InExpired, InCaller
  <2> QED
    BY Zenon, <2>3, <2>4, <2>5, <2>6, <2>7 DEF OwnerInv
<1> QED
  BY Zenon, <1>8, <1>9

-----------------------------------------------------------------------------
(* The other steps move no Timer.                                          *)
LEMMA OwnerClock ==
    ASSUME OwnerInv, Tick \/ \E d \in ClockSteps : ClockStep(d)
    PROVE  OwnerInv'
<1>1. UNCHANGED <<setVars, heapVars, readVars, loopVars, userVars, queue, cancelled>>
  BY Zenon DEF Tick, ClockStep
<1>2. now' \in Int /\ countdown' \in Nat
  BY TimerQueueAssumption DEF Tick, ClockStep, OwnerInv, TypeOK
<1>3. readable' \in BOOLEAN /\ forward' \in BOOLEAN
  <2>1. CASE Tick
    BY Zenon, <2>1 DEF Tick, OwnerInv, TypeOK
  <2>2. ASSUME NEW d \in ClockSteps, ClockStep(d)
        PROVE  readable' \in BOOLEAN /\ forward' \in BOOLEAN
    BY Zenon, <2>2 DEF ClockStep, OwnerInv, TypeOK
  <2> QED
    BY Zenon, <2>1, <2>2
<1>4. TypeOK'
  BY Zenon, <1>1, <1>2, <1>3 DEF OwnerInv, TypeOK, setVars, heapVars, readVars, loopVars, userVars
<1> QED
  BY Zenon, <1>1, <1>4, OwnersUntouched
     DEF OwnerInv, QueueInv, setVars, heapVars, readVars, loopVars, userVars

(* Nor do the steps of the loop thread that only move it on.               *)
LEMMA OwnerLoopMoves ==
    ASSUME OwnerInv,
           Poll \/ StartFunctors \/ FunctorsDone \/ \E e \in torun : RunExpired(e)
    PROVE  OwnerInv'
<1>1. /\ UNCHANGED <<clockVars, setVars, heapVars, userVars, queue, cancelled, expired, readTime>>
      /\ torun' \subseteq torun
  BY Zenon DEF Poll, StartFunctors, FunctorsDone, RunExpired, readVars
<1>2. Len(queue) \in Nat /\ batch \in Nat /\ batch <= Len(queue)
  BY Zenon, LenProperties DEF OwnerInv, TypeOK, QueueInv
<1>3. batch' \in Nat /\ batch' <= Len(queue)
  BY <1>2 DEF Poll, StartFunctors, FunctorsDone, RunExpired, Swapped, loopVars
<1>4. pc' \in {"poll", "events", "expired", "functors"} /\ (pc' = "expired" <=> pc = "expired")
  BY Zenon DEF Poll, StartFunctors, FunctorsDone, RunExpired, loopVars, OwnerInv, TypeOK
<1>5. timerActive' \in BOOLEAN
  BY Zenon DEF Poll, StartFunctors, FunctorsDone, RunExpired, loopVars, ChannelReady, OwnerInv, TypeOK
<1>6. TypeOK'
  BY Zenon, <1>1, <1>3, <1>4, <1>5
     DEF OwnerInv, TypeOK, clockVars, timerfd, setVars, heapVars, userVars
<1> QED
  BY Zenon, <1>1, <1>3, <1>4, <1>6, OwnersUntouched DEF setVars, heapVars, userVars

(* Every step keeps the ownership.                                         *)
LEMMA OwnerNext == OwnerInv /\ [Next]_vars => OwnerInv'
<1> SUFFICES ASSUME OwnerInv, [Next]_vars PROVE OwnerInv'
  OBVIOUS
<1>1. ASSUME NEW id \in ids, LoopCancelTimer(id) PROVE OwnerInv'
  BY Zenon, <1>1, OwnerQueueCancel DEF LoopCancelTimer
<1>2. ASSUME NEW c \in Callers, NEW id \in ids, CancelTimer(c, id) PROVE OwnerInv'
  BY Zenon, <1>2, OwnerQueueCancel DEF CancelTimer
<1>3. CASE UNCHANGED vars
  <2>1. TypeOK'
    BY Zenon, <1>3 DEF vars, OwnerInv, TypeOK, clockVars, timerfd, setVars, heapVars, readVars,
                loopVars, userVars
  <2> QED
    BY Zenon, <1>3, <2>1, OwnersUntouched
       DEF vars, OwnerInv, QueueInv, setVars, heapVars, readVars, loopVars, userVars
<1>4. CASE LoopStep
  BY Zenon, <1>4, OwnerHandleRead, OwnerReset, OwnerRunAdd, OwnerRunCancel, OwnerLoopMoves DEF LoopStep
<1>5. CASE LoopCall
  BY Zenon, <1>5, <1>1, OwnerLoopAddTimer DEF LoopCall
<1>6. ASSUME NEW c \in Callers, CallerStep(c) \/ CallerCall(c) PROVE OwnerInv'
  BY Zenon, <1>6, <1>2, OwnerQueueAdd, OwnerReturnId, OwnerNewTimer DEF CallerStep, CallerCall
<1> QED
  BY Zenon, <1>3, <1>4, <1>5, <1>6, OwnerClock DEF Next

(* So it holds in every state.                                             *)
LEMMA OwnerAlways == Spec => []OwnerInv
BY OwnerInit, OwnerNext, PTL DEF Spec

-----------------------------------------------------------------------------
(* The indexes of the TimerQueue agree, whatever the callers, the loop's   *)
(* user code and the clock do: insert, GetExpired, Reset and               *)
(* CancelTimerInLoop keep timers_ and active_timers_ in step, and every    *)
(* entry points to a Timer that was not deleted.                           *)
THEOREM IndexesAgree == Spec => []Mirrored
<1>1. OwnerInv => Mirrored
  <2> SUFFICES ASSUME OwnerInv PROVE Mirrored
    OBVIOUS
  <2>1. active_timers_ = {ActiveOf(e.timer) : e \in timers_}
    BY DEF OwnerInv, SetsInv, InTimers
  <2> QED
    BY Zenon, <2>1 DEF OwnerInv, SetsInv, Mirrored
<1> QED
  BY <1>1, OwnerAlways, PTL

(* Each Timer has exactly one owner and a freed address none: no Timer is  *)
(* leaked, deleted twice or used by the loop after its delete.             *)
THEOREM OwnedOnce == Spec => []SingleOwner
<1>1. OwnerInv => SingleOwner
  <2> SUFFICES ASSUME OwnerInv, NEW p \in Addresses
               PROVE  IF Live(p) THEN \E o \in Owners(p) : Owners(p) = {o} ELSE Owners(p) = {}
    BY Zenon DEF SingleOwner
  <2> DEFINE T == {x \in timers_ : x.timer = p}
             X == {x \in expired : x.timer = p}
             Q == {j \in DOMAIN queue : queue[j].op = "add" /\ queue[j].id.timer = p}
             C == {d \in Callers : adding[d] # NoTimer /\ ~adding[d].queued
                                  /\ adding[d].id.timer = p}
  <2>1. Owners(p) = {<<"timers_", e>> : e \in T} \cup {<<"expired", e>> : e \in X}
                      \cup {<<"functor", i>> : i \in Q} \cup {<<"AddTimer", c>> : c \in C}
    BY Zenon DEF Owners
  <2>2. /\ T = {} <=> ~InTimers(p)
        /\ X = {} <=> ~InExpired(p)
        /\ C = {} <=> ~InCaller(p)
    BY Zenon DEF InTimers, InExpired, InCaller, Making
  <2>3. Q = {} <=> ~InQueue(p)
    BY SMTT(30) DEF InQueue, IsAdd, OwnerInv, TypeOK
  <2>4. /\ \A e, f \in T : e = f
        /\ \A e, f \in X : e = f
        /\ \A c, d \in C : c = d
    BY SMTT(30) DEF OwnerInv, SetsInv, CallerInv, Making
  <2>5. \A i, j \in Q : i = j
    BY DEF OwnerInv, QueueInv, TypeOK, IsAdd
  <2> HIDE DEF T, X, Q, C
  <2>6. CASE InTimers(p)
    <3>1. X = {} /\ Q = {} /\ C = {} /\ Live(p)
      BY <2>2, <2>3, <2>6 DEF OwnerInv, SetsInv, QueueInv, CallerInv, InTimers, InExpired,
                              InQueue, InCaller
    <3>2. PICK e : T = {e}
      BY <2>2, <2>4, <2>6
    <3>3. Owners(p) = {<<"timers_", e>>}
      BY <2>1, <3>1, <3>2, Zenon
    <3> QED
      BY Zenon, <3>1, <3>3
  <2>7. CASE InExpired(p)
    <3>1. T = {} /\ Q = {} /\ C = {} /\ Live(p)
      BY <2>2, <2>3, <2>7 DEF OwnerInv, SetsInv, QueueInv, CallerInv, InTimers, InExpired,
                              InQueue, InCaller
    <3>2. PICK e : X = {e}
      BY <2>2, <2>4, <2>7
    <3>3. Owners(p) = {<<"expired", e>>}
      BY <2>1, <3>1, <3>2, Zenon
    <3> QED
      BY Zenon, <3>1, <3>3
  <2>8. CASE InQueue(p)
    <3>1. T = {} /\ X = {} /\ C = {} /\ Live(p)
      BY <2>2, <2>3, <2>8 DEF OwnerInv, QueueInv, CallerInv, InQueue, InCaller
    <3>2. PICK i : Q = {i}
      BY <2>3, <2>5, <2>8
    <3>3. Owners(p) = {<<"functor", i>>}
      BY <2>1, <3>1, <3>2, Zenon
    <3> QED
      BY Zenon, <3>1, <3>3
  <2>9. CASE InCaller(p)
    <3>1. T = {} /\ X = {} /\ Q = {} /\ Live(p)
      BY Zenon, <2>2, <2>3, <2>9 DEF OwnerInv, CallerInv, InCaller
    <3>2. PICK c : C = {c}
      BY <2>2, <2>4, <2>9
    <3>3. Owners(p) = {<<"AddTimer", c>>}
      BY <2>1, <3>1, <3>2, Zenon
    <3> QED
      BY Zenon, <3>1, <3>3
  <2>10. CASE ~(InTimers(p) \/ InExpired(p) \/ InQueue(p) \/ InCaller(p))
    BY Zenon, <2>1, <2>2, <2>3, <2>10 DEF OwnerInv, Owned
  <2> QED
    BY Zenon, <2>6, <2>7, <2>8, <2>9, <2>10
<1> QED
  BY <1>1, OwnerAlways, PTL

-----------------------------------------------------------------------------
(* What ResetTimerFd(when) gives every entry that is not earlier.          *)
LEMMA ResetCovers ==
    ASSUME TypeOK, NEW w \in Int, ResetTimerFd(w), now' = now,
           NEW S \in SUBSET Entry, \A e \in S : w <= e.when
    PROVE  \A e \in S : countdown' > 0 /\ (countdown' = 1 \/ countdown' <= e.when - now')
<1> SUFFICES ASSUME NEW e \in S
             PROVE  countdown' > 0 /\ (countdown' = 1 \/ countdown' <= e.when - now')
  OBVIOUS
<1>1. e.when \in Int /\ w <= e.when /\ now \in Int
  BY Zenon DEF Entry, TypeOK
<1>2. countdown' = IF w - now < 1 THEN 1 ELSE w - now
  BY Zenon DEF ResetTimerFd, HowMuchTimeFromNow
<1> QED
  BY <1>1, <1>2

(* An insertion sets the timerfd when the new timer is due first;          *)
(* otherwise it is covered by the one that is.                             *)
LEMMA AddCovers ==
    ASSUME TypeOK, NoOversleep, NEW p \in Addresses, NEW h \in Timer, AddTimeInLoop(p, h),
           now' = now, pc' = pc
    PROVE  NoOversleep'
<1> DEFINE new == [when |-> h.expiration, timer |-> p]
<1>1. /\ timers_' = timers_ \cup {new} /\ new \in Entry /\ new.when = h.expiration
      /\ h.expiration \in Int
  BY Zenon DEF AddTimeInLoop, insert, Timer, Entry
<1> HIDE DEF new
<1>2. CASE EarliestChanged(h.expiration)
  <2>1. ResetTimerFd(h.expiration)
    BY Zenon, <1>2 DEF AddTimeInLoop, insert
  <2>2. timers_' \subseteq Entry /\ \A e \in timers_' : h.expiration <= e.when
    BY <1>1, <1>2 DEF EarliestChanged, TypeOK, Entry
  <2> QED
    BY Zenon, <1>1, <2>1, <2>2, ResetCovers DEF NoOversleep
<1>3. CASE ~EarliestChanged(h.expiration)
  <2>1. PICK f \in timers_ : ~(h.expiration < f.when)
    BY Zenon, <1>3 DEF EarliestChanged
  <2>2. f.when \in Int /\ f.when <= h.expiration /\ now \in Int /\ countdown \in Nat
    BY <1>1, <2>1 DEF TypeOK, Entry
  <2>3. UNCHANGED <<countdown, readable, forward>>
    BY Zenon, <1>3 DEF AddTimeInLoop, insert, timerfd
  <2> QED
    BY <1>1, <2>1, <2>2, <2>3 DEF NoOversleep
<1> QED
  BY Zenon, <1>2, <1>3

(* The timerfd is never set later than the earliest timer is due, unless   *)
(* the wall clock was set forward after it was set: the tests that decide  *)
(* whether to call ResetTimerFd in AddTimeInLoop and CancelTimerInLoop     *)
(* suffice for any number of timers.                                       *)
THEOREM NeverOversleeps == Spec => []NoOversleep
<1>1. Init => NoOversleep
  BY Zenon DEF Init, NoOversleep
<1>2. OwnerInv /\ NoOversleep /\ [Next]_vars => NoOversleep'
  <2> SUFFICES ASSUME OwnerInv, NoOversleep, [Next]_vars PROVE NoOversleep'
    OBVIOUS
  <2>0. TypeOK /\ timers_ \subseteq Entry /\ \A e \in timers_ : e.when \in Int
    BY Zenon DEF OwnerInv, TypeOK, Entry
  <2>1. CASE Tick
    <3>1. /\ now' = (IF now < MaxTime THEN now + 1 ELSE now)
          /\ countdown' = (IF countdown > 0 THEN countdown - 1 ELSE 0)
          /\ readable \/ countdown = 1 => readable'
          /\ UNCHANGED <<timers_, forward, pc>>
      BY Zenon, <2>1 DEF Tick, setVars, loopVars
    <3>2. now \in Int /\ countdown \in Nat /\ MaxTime \in Nat
      BY Zenon, <2>0, TimerQueueAssumption DEF TypeOK
    <3> QED
      BY <2>0, <3>1, <3>2 DEF NoOversleep
  <2>2. ASSUME NEW d \in ClockSteps, ClockStep(d) PROVE NoOversleep'
    <3>1. /\ now' = now + d
          /\ ~forward' => ~forward /\ ~(d > 0)
          /\ UNCHANGED <<timers_, countdown, readable, pc>>
      BY Zenon, <2>2 DEF ClockStep, setVars, loopVars
    <3>2. now \in Int /\ countdown \in Nat /\ d \in Int
      BY Zenon, <2>0, TimerQueueAssumption DEF TypeOK
    <3> QED
      BY <2>0, <3>1, <3>2 DEF NoOversleep
  <2>3. ASSUME NEW p \in Addresses, NEW when \in 0 .. MaxTime, NEW k \in Kinds,
               LoopAddTimer(p, when, k)
        PROVE  NoOversleep'
    <3>1. NewTimerAt(p, when, k) \in Timer
      BY TimerQueueAssumption DEF NewTimerAt, Timer, OwnerInv, TypeOK
    <3> QED
      BY Zenon, <2>0, <2>3, <3>1, AddCovers DEF LoopAddTimer, loopVars
  <2>4. CASE RunAddTimeInLoop
    <3> DEFINE p == queue[1].id.timer
    <3>1. FunctorTaken /\ Head(queue) = queue[1] /\ queue[1].op = "add" /\ queue[1] \in Functor
          /\ 1 \in 1 .. Len(queue)
      BY Zenon, <2>4, Taken DEF RunAddTimeInLoop
    <3>2. AddTimeInLoop(p, heap[p]) /\ p \in Addresses /\ now' = now /\ pc' = pc
      BY Zenon, <2>4, <3>1 DEF RunAddTimeInLoop, FunctorTaken, Functor, TimerId
    <3>3. heap[p] \in Timer
      BY Zenon, <3>1, <3>2 DEF OwnerInv, QueueInv, TypeOK, IsAdd, Live
    <3> QED
      BY Zenon, <2>0, <3>2, <3>3, AddCovers
  <2>5. CASE RunCancelTimerInLoop
    <3> DEFINE id == Head(queue).id
               a == [timer |-> id.timer, sequence |-> id.sequence]
    <3>1. /\ now' = now /\ pc' = pc
          /\ IF a \in active_timers_ THEN CancelActive(id.timer) ELSE CancelAbsent(a)
      BY Zenon, <2>5 DEF RunCancelTimerInLoop, FunctorTaken
    <3> HIDE DEF a, id
    <3>2. timers_' \subseteq timers_
      BY Zenon, <3>1 DEF CancelActive, CancelAbsent
    <3>3. CASE UNCHANGED timerfd
      BY Zenon, <3>1, <3>2, <3>3 DEF NoOversleep, timerfd
    <3>4. CASE ResetToEarliest(timers_')
      <4>1. PICK first \in timers_' :
              (\A e \in timers_' : first.when <= e.when) /\ ResetTimerFd(first.when)
        BY Zenon, <3>4 DEF ResetToEarliest
      <4>2. first.when \in Int /\ timers_' \subseteq Entry
        BY Zenon, <2>0, <3>2
      <4> QED
        BY Zenon, <2>0, <3>1, <4>1, <4>2, ResetCovers DEF NoOversleep
    <3>5. CASE timers_' = {}
      BY Zenon, <3>5 DEF NoOversleep
    <3> QED
      BY Zenon, <3>1, <3>3, <3>4, <3>5 DEF CancelActive, CancelAbsent
  <2>6. CASE Reset
    <3>1. CASE timers_' # {}
      <4>1. PICK first \in timers_' :
              (\A e \in timers_' : first.when <= e.when) /\ ResetTimerFd(first.when)
        BY Zenon, <2>6, <3>1 DEF Reset, ResetToEarliest
      <4>2. timers_' \subseteq Entry
        BY Zenon, <2>6, OwnerReset DEF OwnerInv, TypeOK
      <4>3. first.when \in Int /\ now' = now
        BY Zenon, <2>6, <4>2 DEF Reset, Entry
      <4> QED
        BY Zenon, <2>0, <4>1, <4>2, <4>3, ResetCovers DEF NoOversleep
    <3>2. CASE timers_' = {}
      BY <3>2 DEF NoOversleep
    <3> QED
      BY Zenon, <3>1, <3>2
  <2>7. CASE HandleRead
    BY Zenon, <2>7 DEF HandleRead, NoOversleep
  <2>8. CASE UNCHANGED <<clockVars, timers_>> /\ (pc # "expired" \/ pc' = pc)
    BY Zenon, <2>8 DEF NoOversleep, clockVars, timerfd
  <2> QED
    BY Zenon, <2>1, <2>2, <2>3, <2>4, <2>5, <2>6, <2>7, <2>8
       DEF Next, LoopStep, LoopCall, CallerStep, CallerCall, Poll, StartFunctors, FunctorsDone,
           RunExpired, LoopCancelTimer, NewTimer, QueueAdd, ReturnId, CancelTimer, vars,
           setVars, loopVars
<1> QED
  BY <1>1, <1>2, OwnerAlways, PTL DEF Spec

-----------------------------------------------------------------------------
(* A cancellation made in a timer callback is queued behind HandleRead and *)
(* in front of the swap: until the batch that holds it has run, the loop   *)
(* is in HandleRead, on the way to the swap, or in that batch.             *)
PromptInv ==
    /\ timerActive => pc = "events"
    /\ \A i \in 1 .. Len(queue) : queue[i].inCallback =>
          \/ pc = "expired"
          \/ pc = "events" /\ ~timerActive
          \/ pc = "functors" /\ i <= batch

(* A functor is queued behind all others, and one that a callback queues   *)
(* while the loop is in HandleRead.                                        *)
LEMMA PromptAppend ==
    ASSUME OwnerInv, PromptInv, NEW f \in Functor, queue' = Append(queue, f),
           f.inCallback => pc = "expired", UNCHANGED <<pc, timerActive, batch>>
    PROVE  PromptInv'
<1>1. /\ Len(queue') = Len(queue) + 1 /\ Len(queue) \in Nat /\ queue'[Len(queue) + 1] = f
      /\ \A i \in 1 .. Len(queue) : queue'[i] = queue[i]
  BY Zenon, Appended DEF OwnerInv, TypeOK
<1>2. \A i \in 1 .. Len(queue') : i \in 1 .. Len(queue) \/ i = Len(queue) + 1
  BY <1>1
<1> QED
  BY Zenon, <1>1, <1>2 DEF PromptInv

(* No cancellation made in a callback is still queued at the next poll, or *)
(* when HandleRead is about to collect expired timers: it takes effect in  *)
(* the same iteration.                                                     *)
THEOREM CallbackCancelsPromptly == Spec => []CallbackCancelIsPrompt
<1>1. Init => PromptInv
  BY SMTT(30) DEF Init, PromptInv
<1>2. OwnerInv /\ PromptInv /\ [Next]_vars => PromptInv'
  <2> SUFFICES ASSUME OwnerInv, PromptInv, [Next]_vars PROVE PromptInv'
    OBVIOUS
  <2>1. ASSUME FunctorTaken PROVE PromptInv'
    <3>1. /\ \A i \in 1 .. Len(queue') : i + 1 \in 2 .. Len(queue) /\ queue'[i] = queue[i + 1]
          /\ Len(queue) \in Nat /\ Len(queue') = Len(queue) - 1
      BY Zenon, <2>1, Taken
    <3>2. batch \in Nat /\ batch' = batch - 1 /\ pc = "functors" /\ UNCHANGED <<pc, timerActive>>
      BY Zenon, <2>1 DEF FunctorTaken, OwnerInv, TypeOK
    <3>3. \A i \in 1 .. Len(queue') : queue'[i].inCallback => i <= batch'
      BY SMTT(30), <3>1, <3>2 DEF PromptInv
    <3> QED
      BY Zenon, <3>2, <3>3 DEF PromptInv
  <2>2. ASSUME NEW id \in ids, QueueCancel(id), UNCHANGED loopVars PROVE PromptInv'
    <3> DEFINE f == [op |-> "cancel", id |-> id, inCallback |-> InCallback]
    <3>1. f \in Functor /\ (f.inCallback => pc = "expired")
      BY Zenon DEF Functor, OwnerInv, TypeOK, InCallback
    <3>2. queue' = Append(queue, f)
      BY Zenon, <2>2 DEF QueueCancel
    <3> HIDE DEF f
    <3> QED
      BY Zenon, <2>2, <3>1, <3>2, PromptAppend DEF loopVars
  <2>3. ASSUME NEW c \in Callers, QueueAdd(c) PROVE PromptInv'
    <3> DEFINE f == [op |-> "add", id |-> adding[c].id, inCallback |-> FALSE]
    <3>1. adding[c] \in Adding
      BY Zenon, <2>3 DEF QueueAdd, OwnerInv, TypeOK
    <3>2. f \in Functor /\ ~f.inCallback
      BY Zenon, <3>1 DEF Functor, Adding
    <3>3. queue' = Append(queue, f) /\ UNCHANGED loopVars
      BY Zenon, <2>3 DEF QueueAdd
    <3> HIDE DEF f
    <3> QED
      BY Zenon, <3>2, <3>3, PromptAppend DEF loopVars
  <2>4. CASE Poll
    BY Zenon, <2>4 DEF Poll, PromptInv
  <2>5. CASE HandleRead
    BY Zenon, <2>5 DEF HandleRead, PromptInv
  <2>6. CASE Reset
    BY Zenon, <2>6 DEF Reset, PromptInv
  <2>7. CASE StartFunctors
    BY <2>7 DEF StartFunctors, Swapped, PromptInv
  <2>8. CASE FunctorsDone
    <3>1. \A i \in 1 .. Len(queue) : ~(i <= batch)
      BY <2>8 DEF FunctorsDone
    <3> QED
      BY Zenon, <2>8, <3>1 DEF FunctorsDone, PromptInv
  <2>9. CASE UNCHANGED <<queue, loopVars>>
    BY Zenon, <2>9 DEF PromptInv, loopVars
  <2> QED
    BY ZenonT(30), <2>1, <2>2, <2>3, <2>4, <2>5, <2>6, <2>7, <2>8, <2>9
       DEF Next, LoopStep, LoopCall, CallerStep, CallerCall, RunAddTimeInLoop,
           RunCancelTimerInLoop, RunExpired, Tick, ClockStep, LoopAddTimer, LoopCancelTimer,
           NewTimer, ReturnId, CancelTimer, vars
<1>3. OwnerInv /\ PromptInv => CallbackCancelIsPrompt
  BY DEF OwnerInv, TypeOK, PromptInv, CallbackCancelIsPrompt
<1> QED
  BY <1>1, <1>2, <1>3, OwnerAlways, PTL DEF Spec

-----------------------------------------------------------------------------
(* What makes a cancellation final.  Sequence numbers only grow, so a      *)
(* later timer has another one.  An id that AddTimer returned, or is about *)
(* to return, is settled: its Timer, if it is still there, was handed to   *)
(* the loop.  The queue is FIFO, so its AddTimeInLoop is in front of any   *)
(* CancelTimerInLoop for it.                                               *)
Settled(id) ==
    Live(id.timer) /\ heap[id.timer].sequence = id.sequence => ~InCaller(id.timer)

IsCancel(i) == queue[i].op = "cancel" /\ queue[i].id.genuine

NumbersInv ==
    /\ \A p \in Addresses : Live(p) => heap[p].sequence < g_num_created_
    /\ \A a \in cancelled : a.sequence < g_num_created_

IdsInv ==
    /\ \A id \in ids : id.genuine => id.sequence < g_num_created_ /\ Settled(id)
    /\ \A c \in Callers : adding[c] # NoTimer =>
          /\ adding[c].id.sequence < g_num_created_
          /\ adding[c].queued => Settled(adding[c].id)

FifoInv ==
    /\ \A i \in 1 .. Len(queue) : IsCancel(i) =>
          queue[i].id.sequence < g_num_created_ /\ Settled(queue[i].id)
    /\ \A i, j \in 1 .. Len(queue) :
          IsCancel(i) /\ IsAdd(j) /\ i < j /\ queue[i].id.timer = queue[j].id.timer
             => queue[i].id.sequence # queue[j].id.sequence

FinalInv == NumbersInv /\ IdsInv /\ FifoInv /\ CancelledIsGone

(* What a step may do to a Timer that is there afterwards: it was there    *)
(* with the same number, or it is new and has the next one.                *)
LEMMA HeapStep ==
    ASSUME OwnerInv, [Next]_vars
    PROVE  /\ g_num_created_ \in Nat /\ g_num_created_' \in Nat
           /\ g_num_created_ <= g_num_created_'
           /\ \A q \in Addresses : Live(q)' =>
                 \/ /\ Live(q) /\ heap'[q].sequence = heap[q].sequence
                    /\ InCaller(q)' => InCaller(q)
                 \/ /\ heap'[q].sequence = g_num_created_
                    /\ g_num_created_ < g_num_created_'
<1> DEFINE Kept(q) == /\ Live(q) /\ heap'[q].sequence = heap[q].sequence
                      /\ InCaller(q)' => InCaller(q)
           Goal == /\ g_num_created_ \in Nat /\ g_num_created_' \in Nat
                   /\ g_num_created_ <= g_num_created_'
                   /\ \A q \in Addresses : Live(q)' =>
                         \/ Kept(q)
                         \/ /\ heap'[q].sequence = g_num_created_
                            /\ g_num_created_ < g_num_created_'
<1>1. g_num_created_ \in Nat /\ heap \in [Addresses -> Timer \cup {NoTimer}]
      /\ adding \in [Callers -> Adding \cup {NoTimer}]
  BY Zenon DEF OwnerInv, TypeOK
<1>2. ASSUME NEW p \in Addresses, NEW h, heap' = [heap EXCEPT ![p] = h],
             h.sequence = g_num_created_, g_num_created_' = g_num_created_ + 1,
             \A q \in Addresses \ {p} : InCaller(q)' => InCaller(q)
      PROVE  Goal
  BY <1>1, <1>2 DEF Live
<1>3. ASSUME UNCHANGED g_num_created_,
             \A q \in Addresses : Live(q)' => Live(q) /\ heap'[q].sequence = heap[q].sequence,
             \A q \in Addresses : InCaller(q)' => InCaller(q)
      PROVE  Goal
  BY <1>1, <1>3
<1>4. ASSUME NEW p \in Addresses, NEW when \in 0 .. MaxTime, NEW k \in Kinds,
             LoopAddTimer(p, when, k)
      PROVE  Goal
  <2>1. NewTimerAt(p, when, k).sequence = g_num_created_
    BY Zenon DEF NewTimerAt
  <2> QED
    BY Zenon, <1>2, <1>4, <2>1 DEF LoopAddTimer, InCaller, Making
<1>5. ASSUME NEW c \in Callers, NEW p \in Addresses, NEW when \in 0 .. MaxTime, NEW k \in Kinds,
             NewTimer(c, p, when, k)
      PROVE  Goal
  <2> DEFINE call == [id |-> [timer |-> p, sequence |-> g_num_created_, genuine |-> TRUE],
                      queued |-> FALSE]
  <2>1. NewTimerAt(p, when, k).sequence = g_num_created_ /\ call.id.timer = p
    BY Zenon DEF NewTimerAt
  <2>2. adding' = [adding EXCEPT ![c] = call]
    BY Zenon, <1>5 DEF NewTimer
  <2> HIDE DEF call
  <2>3. \A q \in Addresses \ {p} : InCaller(q)' => InCaller(q)
    BY Zenon, <1>1, <2>1, <2>2 DEF InCaller, Making
  <2> QED
    BY Zenon, <1>2, <1>5, <2>1, <2>3 DEF NewTimer
<1>6. ASSUME NEW c \in Callers, QueueAdd(c) \/ ReturnId(c) PROVE Goal
  <2>1. \A d \in Callers : Making(d)' => Making(d) /\ adding'[d] = adding[d]
    <3>1. CASE QueueAdd(c)
      <4>1. adding[c] \in Adding
        BY Zenon, <1>1, <3>1 DEF QueueAdd
      <4>2. adding'[c].queued /\ \A d \in Callers \ {c} : adding'[d] = adding[d]
        BY Zenon, <1>1, <3>1, <4>1 DEF QueueAdd, Adding
      <4> QED
        BY Zenon, <4>2 DEF Making
    <3>2. CASE ReturnId(c)
      BY Zenon, <1>1, <3>2 DEF ReturnId, Making
    <3> QED
      BY Zenon, <1>6, <3>1, <3>2
  <2>2. UNCHANGED heapVars
    BY Zenon, <1>6 DEF QueueAdd, ReturnId
  <2> QED
    BY Zenon, <1>3, <2>1, <2>2 DEF heapVars, InCaller, Live
<1>7. CASE Reset
  <2> SUFFICES ASSUME NEW q \in Addresses, Live(q)'
               PROVE  Live(q) /\ heap'[q].sequence = heap[q].sequence
    BY Zenon, <1>3, <1>7 DEF Reset, userVars, InCaller, Making
  <2>1. CASE \E e \in Repeating : e.timer = q
    <3>1. heap'[q] = Restarted(q)
      BY Zenon, <1>7, <2>1 DEF Reset
    <3>2. Live(q)
      BY Zenon, <2>1 DEF Repeating, OwnerInv, SetsInv
    <3>3. heap[q] \in Timer
      BY Zenon, <1>1, <3>2 DEF Live
    <3> QED
      BY Zenon, <3>1, <3>2, <3>3 DEF Restarted, Timer
  <2>2. CASE ~(\E e \in Repeating : e.timer = q)
    BY Zenon, <1>7, <2>2 DEF Reset, Live
  <2> QED
    BY Zenon, <2>1, <2>2
<1>8. CASE RunCancelTimerInLoop
  <2>1. UNCHANGED <<adding, g_num_created_>>
    BY Zenon, <1>8 DEF RunCancelTimerInLoop, FunctorTaken, userVars
  <2>2. heap' = heap \/ \E p : heap' = [heap EXCEPT ![p] = NoTimer]
    BY Zenon, <1>8 DEF RunCancelTimerInLoop, CancelActive, CancelAbsent, Delete
  <2>3. \A q \in Addresses : Live(q)' => heap'[q] = heap[q]
    BY Zenon, <1>1, <2>2 DEF Live
  <2> QED
    BY Zenon, <1>3, <2>1, <2>3 DEF Live, InCaller, Making
<1>9. CASE UNCHANGED <<heapVars, adding>>
  BY Zenon, <1>3, <1>9 DEF heapVars, Live, InCaller, Making
<1>10. Goal
  BY Zenon, <1>4, <1>5, <1>6, <1>7, <1>8, <1>9
     DEF Next, LoopStep, LoopCall, CallerStep, CallerCall, Poll, HandleRead, StartFunctors,
         RunAddTimeInLoop, FunctorTaken, FunctorsDone, RunExpired, LoopCancelTimer, CancelTimer,
         Tick, ClockStep, vars, heapVars, userVars
<1> QED
  BY Zenon, <1>10

(* What is settled stays settled.                                          *)
LEMMA StaysSettled ==
    ASSUME OwnerInv, [Next]_vars, NEW id, id.timer \in Addresses, id.sequence \in Nat,
           id.sequence < g_num_created_, Settled(id)
    PROVE  id.sequence < g_num_created_' /\ Settled(id)'
BY HeapStep DEF Settled

(* The ids that users hold and the calls that will return one.             *)
LEMMA IdsNext ==
    ASSUME OwnerInv, FinalInv, [Next]_vars
    PROVE  IdsInv'
<1>1. /\ g_num_created_ \in Nat /\ ids \subseteq TimerId
      /\ heap \in [Addresses -> Timer \cup {NoTimer}]
      /\ adding \in [Callers -> Adding \cup {NoTimer}]
  BY Zenon DEF OwnerInv, TypeOK
<1>2. ASSUME NEW id \in ids, id.genuine PROVE id.sequence < g_num_created_' /\ Settled(id)'
  BY Zenon, <1>1, <1>2, StaysSettled DEF FinalInv, IdsInv, TimerId
<1>3. ASSUME NEW c \in Callers, adding[c] # NoTimer
      PROVE  /\ adding[c] \in Adding
             /\ adding[c].id.timer \in Addresses /\ adding[c].id.sequence \in Nat
             /\ adding[c].id.sequence < g_num_created_
             /\ adding[c].id.sequence < g_num_created_'
  <2>1. adding[c] \in Adding
    BY Zenon, <1>1, <1>3
  <2>2. adding[c].id.timer \in Addresses /\ adding[c].id.sequence \in Nat
    BY Zenon, <2>1 DEF Adding, TimerId
  <2> QED
    BY <1>3, <2>1, <2>2, HeapStep DEF FinalInv, IdsInv
<1>4. ASSUME NEW c \in Callers, NEW x, x = adding[c].id, adding[c] # NoTimer, adding[c].queued
      PROVE  Settled(x) /\ Settled(x)'
  BY Zenon, <1>3, <1>4, StaysSettled DEF FinalInv, IdsInv
<1>5. (\A id \in ids : id.genuine => id.sequence < g_num_created_ /\ Settled(id))'
  <2> SUFFICES ASSUME NEW id \in ids', id.genuine
               PROVE  id.sequence < g_num_created_' /\ Settled(id)'
    OBVIOUS
  <2>1. CASE id \in ids
    BY Zenon, <1>2, <2>1
  <2>2. ASSUME NEW p \in Addresses, NEW when \in 0 .. MaxTime, NEW k \in Kinds,
               LoopAddTimer(p, when, k), id \notin ids
        PROVE  id.sequence < g_num_created_' /\ Settled(id)'
    <3>1. id = [timer |-> p, sequence |-> g_num_created_, genuine |-> TRUE]
      BY Zenon, <2>2 DEF LoopAddTimer
    <3>2. ~InCaller(p)
      BY Zenon, <2>2, FreeIsNotOwned DEF LoopAddTimer, Insertable
    <3>3. ~InCaller(p)'
      BY Zenon, <2>2, <3>2 DEF LoopAddTimer, InCaller, Making
    <3> QED
      BY <1>1, <2>2, <3>1, <3>3 DEF LoopAddTimer, Settled
  <2>3. ASSUME NEW c \in Callers, ReturnId(c), id \notin ids
        PROVE  id.sequence < g_num_created_' /\ Settled(id)'
    <3>1. id.timer = adding[c].id.timer /\ id.sequence = adding[c].id.sequence
      <4>1. PICK s : id = [timer |-> adding[c].id.timer, sequence |-> s,
                           genuine |-> s = adding[c].id.sequence]
        BY <2>3 DEF ReturnId
      <4>2. id.genuine = (s = adding[c].id.sequence)
        BY <4>1, Zenon
      <4> QED
        BY Zenon, <4>1, <4>2
    <3>2. adding[c] # NoTimer /\ adding[c].queued
      BY Zenon, <2>3 DEF ReturnId
    <3>3. PICK x : x = adding[c].id
      OBVIOUS
    <3>4. Settled(x)'
      BY Zenon, <1>4, <3>2, <3>3
    <3> QED
      BY Zenon, <1>3, <3>1, <3>2, <3>3, <3>4 DEF Settled
  <2>4. CASE UNCHANGED ids
    BY Zenon, <1>2, <2>4
  <2> QED
    BY Zenon, <2>1, <2>2, <2>3, <2>4
       DEF Next, LoopStep, LoopCall, CallerStep, CallerCall, Poll, HandleRead, Reset,
           StartFunctors, RunAddTimeInLoop, RunCancelTimerInLoop, FunctorTaken, FunctorsDone,
           RunExpired, LoopCancelTimer, CancelTimer, NewTimer, QueueAdd, Tick, ClockStep, vars,
           userVars
<1>6. ASSUME NEW c \in Callers, adding'[c] # NoTimer
      PROVE  /\ adding'[c].id.sequence < g_num_created_'
             /\ \A x : x = adding'[c].id /\ adding'[c].queued => Settled(x)'
  <2>1. ASSUME NEW d \in Callers, NEW p \in Addresses, NEW when \in 0 .. MaxTime, NEW k \in Kinds,
               NewTimer(d, p, when, k), adding'[c] # adding[c]
        PROVE  adding'[c].id.sequence < g_num_created_' /\ ~adding'[c].queued
    <3> DEFINE call == [id |-> [timer |-> p, sequence |-> g_num_created_, genuine |-> TRUE],
                        queued |-> FALSE]
    <3>1. call.id.sequence = g_num_created_ /\ ~call.queued
      OBVIOUS
    <3>2. adding' = [adding EXCEPT ![d] = call] /\ g_num_created_' = g_num_created_ + 1
      BY Zenon, <2>1 DEF NewTimer
    <3> HIDE DEF call
    <3> QED
      BY <1>1, <2>1, <3>1, <3>2
  <2>2. ASSUME NEW d \in Callers, QueueAdd(d), adding'[c] # adding[c]
        PROVE  /\ adding'[c].id.sequence < g_num_created_'
               /\ \A x : x = adding'[c].id => Settled(x)'
    <3>1. Making(d) /\ adding' = [adding EXCEPT ![d].queued = TRUE]
      BY Zenon, <2>2 DEF QueueAdd, Making
    <3>2. c = d
      BY Zenon, <1>1, <2>2, <3>1
    <3>3. adding[c] # NoTimer /\ adding[c] \in Adding
      BY Zenon, <1>3, <3>1, <3>2 DEF Making
    <3>4. /\ adding'[c].id = adding[c].id /\ adding'[c].queued
          /\ \A b \in Callers \ {c} : adding'[b] = adding[b]
      BY Zenon, <1>1, <3>1, <3>2, <3>3 DEF Adding
    <3>5. ~InCaller(adding[c].id.timer)'
      <4> SUFFICES ASSUME NEW b \in Callers, Making(b)', adding'[b].id.timer = adding[c].id.timer
                   PROVE  FALSE
        BY Zenon, <3>4 DEF InCaller
      <4>1. b # c /\ adding'[b] = adding[b] /\ Making(b)
        BY Zenon, <3>4 DEF Making
      <4> QED
        BY Zenon, <3>1, <3>2, <4>1 DEF OwnerInv, CallerInv
    <3> QED
      BY Zenon, <1>3, <3>3, <3>4, <3>5 DEF Settled
  <2>3. ASSUME NEW d \in Callers, ReturnId(d) PROVE adding'[c] = adding[c]
    BY Zenon, <1>1, <1>6, <2>3 DEF ReturnId
  <2>4. CASE adding'[c] = adding[c]
    BY Zenon, <1>3, <1>4, <1>6, <2>4
  <2> QED
    BY ZenonT(30), <2>1, <2>2, <2>3, <2>4
       DEF Next, LoopStep, LoopCall, CallerStep, CallerCall, Poll, HandleRead, Reset,
           StartFunctors, RunAddTimeInLoop, RunCancelTimerInLoop, FunctorTaken, FunctorsDone,
           RunExpired, LoopAddTimer, LoopCancelTimer, CancelTimer, Tick, ClockStep, vars, userVars
<1> QED
  BY Zenon, <1>5, <1>6 DEF IdsInv

(* The cancellations in the queue.                                         *)
LEMMA FifoNext ==
    ASSUME OwnerInv, FinalInv, [Next]_vars
    PROVE  FifoInv'
<1>1. queue \in Seq(Functor) /\ Len(queue) \in Nat /\ ids \subseteq TimerId
  BY Zenon, LenProperties DEF OwnerInv, TypeOK
<1>2. ASSUME NEW i \in 1 .. Len(queue), IsCancel(i), NEW x, x = queue[i].id
      PROVE  x.sequence < g_num_created_' /\ Settled(x) /\ Settled(x)'
  <2>1. x.timer \in Addresses /\ x.sequence \in Nat
    <3>1. queue[i] \in Functor
      BY Zenon, <1>1, ElementOfSeq
    <3> QED
      BY Zenon, <1>2, <3>1 DEF Functor, TimerId
  <2> QED
    BY Zenon, <1>2, <2>1, StaysSettled DEF FinalInv, FifoInv
<1> DEFINE Ahead(i) == \A x : x = queue'[i].id => x.sequence < g_num_created_' /\ Settled(x)'
           Apart(i, j) == queue'[i].id.timer = queue'[j].id.timer
                             => queue'[i].id.sequence # queue'[j].id.sequence
<1>3. ASSUME \A i \in 1 .. Len(queue') : IsCancel(i)' => Ahead(i),
             \A i, j \in 1 .. Len(queue') : IsCancel(i)' /\ IsAdd(j)' /\ i < j => Apart(i, j)
      PROVE  FifoInv'
  <2>1. ASSUME NEW i \in 1 .. Len(queue'), Ahead(i)
        PROVE  (queue[i].id.sequence < g_num_created_ /\ Settled(queue[i].id))'
    <3>1. PICK x : x = queue'[i].id
      OBVIOUS
    <3>2. x.sequence < g_num_created_' /\ Settled(x)'
      BY Zenon, <2>1, <3>1
    <3> QED
      BY Zenon, <3>1, <3>2 DEF Settled, Live, InCaller, Making
  <2> HIDE DEF Ahead
  <2>2. (\A i \in 1 .. Len(queue) : IsCancel(i) =>
           queue[i].id.sequence < g_num_created_ /\ Settled(queue[i].id))'
    BY Zenon, <1>3, <2>1
  <2>3. (\A i, j \in 1 .. Len(queue) :
           IsCancel(i) /\ IsAdd(j) /\ i < j /\ queue[i].id.timer = queue[j].id.timer
              => queue[i].id.sequence # queue[j].id.sequence)'
    BY Zenon, <1>3
  <2> QED
    BY Zenon, <2>2, <2>3 DEF FifoInv
<1>4. \A i, j \in 1 .. Len(queue) :
        IsCancel(i) /\ IsAdd(j) /\ i < j /\ queue[i].id.timer = queue[j].id.timer
           => queue[i].id.sequence # queue[j].id.sequence
  BY Zenon DEF FinalInv, FifoInv
<1> DEFINE Goal == /\ \A i \in 1 .. Len(queue') : IsCancel(i)' => Ahead(i)
                   /\ \A i, j \in 1 .. Len(queue') :
                         IsCancel(i)' /\ IsAdd(j)' /\ i < j => Apart(i, j)
<1>5. ASSUME UNCHANGED queue PROVE Goal
  BY Zenon, <1>2, <1>4, <1>5 DEF IsCancel, IsAdd
<1>6. ASSUME FunctorTaken PROVE Goal
  <2>1. \A i \in 1 .. Len(queue') : /\ i + 1 \in 1 .. Len(queue)
                                    /\ queue'[i] = queue[i + 1]
                                    /\ IsAdd(i)' <=> IsAdd(i + 1)
                                    /\ IsCancel(i)' <=> IsCancel(i + 1)
    <3>1. \A i \in 2 .. Len(queue) : i \in 1 .. Len(queue)
      OBVIOUS
    <3> QED
      BY Zenon, <1>6, <3>1, Taken DEF IsAdd, IsCancel
  <2>2. \A i, j \in 1 .. Len(queue') : i < j => i + 1 < j + 1
    OBVIOUS
  <2>3. \A i \in 1 .. Len(queue') : IsCancel(i)' => Ahead(i)
    BY Zenon, <1>2, <2>1
  <2>4. \A i, j \in 1 .. Len(queue') : IsCancel(i)' /\ IsAdd(j)' /\ i < j => Apart(i, j)
    <3> SUFFICES ASSUME NEW i \in 1 .. Len(queue'), NEW j \in 1 .. Len(queue'),
                        IsCancel(i)', IsAdd(j)', i < j
                 PROVE  Apart(i, j)
      OBVIOUS
    <3>1. i + 1 \in 1 .. Len(queue) /\ j + 1 \in 1 .. Len(queue) /\ i + 1 < j + 1
      BY Zenon, <2>1, <2>2
    <3> QED
      BY SMTT(30), <1>4, <2>1, <3>1
  <2> QED
    BY Zenon, <2>3, <2>4
<1>7. ASSUME NEW f \in Functor, queue' = Append(queue, f),
             f.op = "cancel" /\ f.id.genuine =>
                \A x : x = f.id => x.sequence < g_num_created_' /\ Settled(x)',
             f.op = "add" => \A i \in 1 .. Len(queue) :
                IsCancel(i) /\ queue[i].id.timer = f.id.timer
                   => queue[i].id.sequence # f.id.sequence
      PROVE  Goal
  <2>0. PICK n : n = Len(queue) + 1
    OBVIOUS
  <2>1. Len(queue') = n /\ queue'[n] = f /\ \A i \in 1 .. Len(queue) : queue'[i] = queue[i]
    BY Zenon, <1>1, <1>7, <2>0, Appended
  <2>2. \A i \in 1 .. Len(queue') : i \in 1 .. Len(queue) \/ i = n
    BY <1>1, <2>0, <2>1
  <2>3. /\ \A i \in 1 .. Len(queue) : (IsCancel(i)' <=> IsCancel(i)) /\ (IsAdd(i)' <=> IsAdd(i))
        /\ IsCancel(n)' <=> f.op = "cancel" /\ f.id.genuine
        /\ IsAdd(n)' <=> f.op = "add"
    <3>1. \A i \in 1 .. Len(queue) : (IsCancel(i)' <=> IsCancel(i)) /\ (IsAdd(i)' <=> IsAdd(i))
      BY Zenon, <2>1 DEF IsCancel, IsAdd
    <3>2. (IsCancel(n)' <=> f.op = "cancel" /\ f.id.genuine) /\ (IsAdd(n)' <=> f.op = "add")
      BY <2>1, Zenon DEF IsCancel, IsAdd
    <3> QED
      BY Zenon, <3>1, <3>2
  <2>4. \A j \in 1 .. Len(queue') : ~(n < j)
    BY <1>1, <2>0, <2>1
  <2>5. ASSUME NEW i \in 1 .. Len(queue'), IsCancel(i)' PROVE Ahead(i)
    <3>1. CASE i = n
      BY Zenon, <1>7, <2>1, <2>3, <2>5, <3>1
    <3>2. CASE i \in 1 .. Len(queue)
      BY Zenon, <1>2, <2>1, <2>3, <2>5, <3>2
    <3> QED
      BY Zenon, <2>2, <3>1, <3>2
  <2>6. \A i, j \in 1 .. Len(queue') : IsCancel(i)' /\ IsAdd(j)' /\ i < j => Apart(i, j)
    BY SMTT(30), <1>4, <1>7, <2>1, <2>2, <2>3, <2>4
  <2> QED
    BY Zenon, <2>5, <2>6
<1> HIDE DEF Goal
<1>8. ASSUME NEW id \in ids, QueueCancel(id), UNCHANGED g_num_created_
      PROVE  Goal
  <2> DEFINE f == [op |-> "cancel", id |-> id, inCallback |-> InCallback]
  <2>1. f \in Functor /\ f.op = "cancel" /\ f.id = id
    BY Zenon, <1>1 DEF Functor, InCallback, OwnerInv, TypeOK
  <2>2. queue' = Append(queue, f)
    BY Zenon, <1>8 DEF QueueCancel
  <2>3. id.genuine => id.sequence < g_num_created_' /\ Settled(id)'
    BY Zenon, <1>1, StaysSettled DEF FinalInv, IdsInv, TimerId
  <2> HIDE DEF f
  <2> QED
    BY Zenon, <1>7, <2>1, <2>2, <2>3
<1>9. ASSUME NEW c \in Callers, QueueAdd(c)
      PROVE  Goal
  <2> DEFINE f == [op |-> "add", id |-> adding[c].id, inCallback |-> FALSE]
  <2>1. Making(c) /\ queue' = Append(queue, f)
    BY Zenon, <1>9 DEF QueueAdd, Making
  <2>2. adding[c] \in Adding
    BY Zenon, <2>1 DEF Making, OwnerInv, TypeOK
  <2>3. f \in Functor /\ f.op = "add" /\ f.id = adding[c].id
    BY Zenon, <2>2 DEF Functor, Adding
  <2> HIDE DEF f
  <2>4. /\ InCaller(f.id.timer) /\ Live(f.id.timer)
        /\ heap[f.id.timer].sequence = f.id.sequence
    BY Zenon, <2>1, <2>3 DEF OwnerInv, CallerInv, InCaller
  <2>5. ASSUME NEW i \in 1 .. Len(queue), IsCancel(i), queue[i].id.timer = f.id.timer
        PROVE  queue[i].id.sequence # f.id.sequence
    BY Zenon, <2>4, <2>5 DEF FinalInv, FifoInv, Settled
  <2> QED
    BY Zenon, <1>7, <2>1, <2>3, <2>5
<1>10. Goal
  BY ZenonT(30), <1>5, <1>6, <1>8, <1>9
     DEF Next, LoopStep, LoopCall, CallerStep, CallerCall, Poll, HandleRead, Reset,
         StartFunctors, RunAddTimeInLoop, RunCancelTimerInLoop, FunctorsDone, RunExpired,
         LoopAddTimer, LoopCancelTimer, CancelTimer, NewTimer, ReturnId, Tick, ClockStep, vars,
         heapVars, userVars
<1> QED
  BY Zenon, <1>3, <1>10 DEF Goal

(* Cancelling is final, also when the address is used again: once          *)
(* CancelTimerInLoop has run for an id that AddTimer returned, that timer  *)
(* is neither indexed nor about to run nor waiting to be inserted, for any *)
(* number of timers and callers.                                           *)
THEOREM CancellingIsFinal == Spec => []CancelledIsGone
<1>1. Init => FinalInv
  <2> SUFFICES ASSUME Init PROVE FinalInv
    OBVIOUS
  <2>1. NumbersInv /\ CancelledIsGone
    BY Zenon DEF Init, NumbersInv, CancelledIsGone, Live
  <2>2. IdsInv
    BY Zenon DEF Init, IdsInv
  <2>3. FifoInv
    BY DEF Init, FifoInv
  <2> QED
    BY Zenon, <2>1, <2>2, <2>3 DEF FinalInv
<1>2. OwnerInv /\ FinalInv /\ [Next]_vars => FinalInv'
  <2> SUFFICES ASSUME OwnerInv, FinalInv, [Next]_vars PROVE FinalInv'
    OBVIOUS
  <2>1. /\ heap \in [Addresses -> Timer \cup {NoTimer}] /\ cancelled \subseteq ActiveTimer
        /\ \A a \in ActiveTimer : a.sequence \in Nat
    BY Zenon DEF OwnerInv, TypeOK, ActiveTimer
  <2>2. \A p \in Addresses : Live(p) => heap[p].sequence \in Nat
    BY Zenon, <2>1 DEF Live, Timer
  <2>3. ASSUME RunCancelTimerInLoop
        PROVE  \A a \in cancelled' \ cancelled :
                 /\ a.sequence \in Nat /\ a.sequence < g_num_created_
                 /\ \A p \in Addresses : Live(p)' => ActiveOf(p)' # a
    <3> DEFINE id == queue[1].id
               b == [timer |-> id.timer, sequence |-> id.sequence]
    <3>1. /\ FunctorTaken /\ Head(queue) = queue[1] /\ queue[1] \in Functor
          /\ 1 \in 1 .. Len(queue) /\ queue[1].op = "cancel"
          /\ IF b \in active_timers_ THEN CancelActive(id.timer) ELSE CancelAbsent(b)
          /\ cancelled' = IF id.genuine THEN cancelled \cup {b} ELSE cancelled
      BY Zenon, <2>3, Taken DEF RunCancelTimerInLoop
    <3> SUFFICES ASSUME id.genuine
                 PROVE  /\ b.sequence \in Nat /\ b.sequence < g_num_created_
                        /\ \A p \in Addresses : Live(p)' => ActiveOf(p)' # b
      BY Zenon, <3>1
    <3>2. id.timer \in Addresses /\ id.sequence \in Nat
      BY Zenon, <3>1 DEF Functor, TimerId
    <3>3. IsCancel(1) /\ id.sequence < g_num_created_ /\ Settled(id)
      BY Zenon, <3>1 DEF IsCancel, FinalInv, FifoInv
    <3>4. ASSUME NEW p \in Addresses, Live(p)', ActiveOf(p)' = b PROVE FALSE
      <4>1. p = id.timer /\ heap'[p].sequence = id.sequence
        BY Zenon, <3>4 DEF ActiveOf
      <4>2. CASE b \in active_timers_
        BY Zenon, <2>1, <3>1, <3>4, <4>1, <4>2 DEF CancelActive, Delete, Live
      <4>3. CASE b \notin active_timers_
        <5>1. heap' = heap
          BY Zenon, <3>1, <4>3 DEF CancelAbsent
        <5>2. Live(p) /\ ActiveOf(p) = b /\ heap[p].sequence = id.sequence
          BY Zenon, <3>4, <4>1, <5>1 DEF Live, ActiveOf
        <5>3. ~InTimers(p)
          BY SMTT(30), <4>3, <5>2 DEF OwnerInv, SetsInv, InTimers
        <5>4. ~InExpired(p)
          BY Zenon, <3>1 DEF OwnerInv, SetsInv, FunctorTaken, InExpired
        <5>5. ~InCaller(p)
          BY Zenon, <3>3, <4>1, <5>2 DEF Settled
        <5>6. ~InQueue(p)
          <6> SUFFICES ASSUME NEW j \in 1 .. Len(queue), IsAdd(j), queue[j].id.timer = p
                       PROVE  FALSE
            BY Zenon DEF InQueue
          <6>1. queue[j].id.sequence = id.sequence
            BY Zenon, <5>2 DEF OwnerInv, QueueInv
          <6>2. j # 1
            BY Zenon, <3>1 DEF IsAdd
          <6>3. 1 < j
            BY SMTT(30), <6>2
          <6> QED
            BY Zenon, <3>1, <3>3, <4>1, <6>1, <6>3 DEF FinalInv, FifoInv
        <5> QED
          BY Zenon, <5>2, <5>3, <5>4, <5>5, <5>6 DEF OwnerInv, Owned
      <4> QED
        BY Zenon, <4>2, <4>3
    <3> QED
      BY Zenon, <3>2, <3>3, <3>4
  <2>4. \A a \in cancelled' : a \in cancelled \/ RunCancelTimerInLoop
    BY Zenon DEF Next, LoopStep, LoopCall, CallerStep, CallerCall, Poll, HandleRead, Reset,
           StartFunctors, RunAddTimeInLoop, FunctorsDone, RunExpired, LoopAddTimer,
           LoopCancelTimer, CancelTimer, NewTimer, QueueAdd, ReturnId, Tick, ClockStep, vars
  <2>5. \A a \in cancelled' : /\ a.sequence \in Nat /\ a.sequence < g_num_created_
                             /\ \A p \in Addresses : Live(p)' => ActiveOf(p)' # a
    <3> SUFFICES ASSUME NEW a \in cancelled
                 PROVE  /\ a.sequence \in Nat /\ a.sequence < g_num_created_
                        /\ \A p \in Addresses : Live(p)' => ActiveOf(p)' # a
      BY Zenon, <2>3, <2>4
    <3>1. a.sequence \in Nat /\ a.sequence < g_num_created_ /\ g_num_created_ \in Nat
      BY Zenon, <2>1, HeapStep DEF FinalInv, NumbersInv
    <3>2. ASSUME NEW p \in Addresses, Live(p)', ActiveOf(p)' = a PROVE FALSE
      <4>1. a.timer = p /\ a.sequence = heap'[p].sequence
        BY Zenon, <3>2 DEF ActiveOf
      <4>2. Live(p) /\ heap'[p].sequence = heap[p].sequence
        BY <3>1, <3>2, <4>1, HeapStep
      <4>3. ActiveOf(p) = a
        BY Zenon, <3>2, <4>2 DEF ActiveOf
      <4> QED
        BY Zenon, <4>2, <4>3 DEF FinalInv, CancelledIsGone
    <3> QED
      BY Zenon, <3>1, <3>2
  <2>6. NumbersInv'
    <3>1. ASSUME NEW p \in Addresses, Live(p)' PROVE heap'[p].sequence < g_num_created_'
      BY <2>2, <3>1, HeapStep DEF FinalInv, NumbersInv
    <3>2. \A a \in cancelled' : a.sequence < g_num_created_'
      BY <2>5, HeapStep
    <3> QED
      BY Zenon, <3>1, <3>2 DEF NumbersInv
  <2>7. CancelledIsGone'
    BY Zenon, <2>5 DEF CancelledIsGone
  <2> QED
    BY Zenon, <2>6, <2>7, IdsNext, FifoNext DEF FinalInv
<1>3. FinalInv => CancelledIsGone
  BY Zenon DEF FinalInv
<1> QED
  BY <1>1, <1>2, <1>3, OwnerAlways, PTL DEF Spec
=============================================================================
