------------------------- MODULE TimingWheelProofs -------------------------
(***************************************************************************)
(* What TimingWheel promises, for any number of connections, any timeout   *)
(* and any number of addresses for Entries.                                *)
(***************************************************************************)
EXTENDS TimingWheel, TLAPS

InWheel(e) == \E b \in Buckets : e \in wheel_[b]

(* How many ticks ago b was the current bucket.                            *)
Age(b) == IF b <= current_bucket_ THEN current_bucket_ - b
          ELSE current_bucket_ + WheelSize - b

(* The contexts of existing connections lead to their Entries, and to all  *)
(* of them.                                                                *)
EntryInv == \A c \in Conns : state[c] # "gone" =>
    /\ context_[c] # NoEntry => InWheel(context_[c]) /\ conn_[context_[c]] = c
    /\ \A e \in Entries : InWheel(e) /\ conn_[e] = c => context_[c] = e

(* The youngest bucket that holds a connection's Entry is as old as the    *)
(* connection is idle; an open connection without an Entry was never fed.  *)
IdleInv == \A c \in Conns :
    /\ state[c] # "gone" /\ context_[c] # NoEntry =>
          /\ \E b \in Buckets : context_[c] \in wheel_[b] /\ Age(b) = idle[c]
          /\ \A b \in Buckets : context_[c] \in wheel_[b] => idle[c] <= Age(b)
    /\ state[c] = "open" /\ context_[c] = NoEntry => idle[c] = Never

WheelInv == TypeOK /\ EntryInv /\ IdleInv

-----------------------------------------------------------------------------
LEMMA AliveInWheel == ASSUME NEW w PROVE \A e : e \in Alive(w) <=> \E b \in Buckets : e \in w[b]
BY Zenon DEF Alive

LEMMA Successor ==
    ASSUME NEW n \in Nat \ {0}, NEW x \in 0 .. n - 1
    PROVE  (x + 1) % n = IF x + 1 = n THEN 0 ELSE x + 1
OBVIOUS

(* Moving on by one bucket makes every bucket older by one tick, except    *)
(* the oldest, which becomes the current one.                              *)
LEMMA Ages ==
    ASSUME TypeOK, current_bucket_' = NextBucket, NEW n \in Buckets, n = NextBucket
    PROVE  \A b \in Buckets :
              /\ Age(b) \in 0 .. WheelSize - 1
              /\ Age(b) = WheelSize - 1 <=> b = n
              /\ b # n => Age(b)' = Age(b) + 1
<1>1. NextBucket = IF current_bucket_ + 1 = WheelSize THEN 0 ELSE current_bucket_ + 1
  BY Zenon, Successor, WheelAssumption DEF TypeOK, Buckets, NextBucket
<1> QED
  BY <1>1, WheelAssumption DEF TypeOK, Buckets, Age

(* ~Entry of Entries that were in the wheel: exactly the connections whose *)
(* context leads to one of them lose it and are shut down.                 *)
LEMMA Destroyed ==
    ASSUME WheelInv, NEW dead \in SUBSET Entries, \A e \in dead : InWheel(e),
           DestroyEntries(dead)
    PROVE  /\ context_' \in [Conns -> Entries \cup {NoEntry}]
           /\ state' \in [Conns -> {"open", "shutdown", "gone"}]
           /\ \A c \in Conns :
                IF state[c] # "gone" /\ context_[c] \in dead
                THEN context_'[c] = NoEntry /\ state'[c] = "shutdown"
                ELSE context_'[c] = context_[c] /\ state'[c] = state[c]
<1> DEFINE hit == { c \in Conns : state[c] # "gone" /\ \E e \in dead : conn_[e] = c }
<1>1. /\ context_' = [c \in Conns |-> IF c \in hit THEN NoEntry ELSE context_[c]]
      /\ state' = [c \in Conns |-> IF c \in hit THEN "shutdown" ELSE state[c]]
  BY Zenon DEF DestroyEntries
<1>2. \A c \in Conns : c \in hit <=> state[c] # "gone" /\ context_[c] \in dead
  BY WheelAssumption DEF WheelInv, EntryInv
<1> HIDE DEF hit
<1> QED
  BY Zenon, <1>1, <1>2 DEF WheelInv, TypeOK

-----------------------------------------------------------------------------
LEMMA WheelInit == Init => WheelInv
<1> SUFFICES ASSUME Init PROVE WheelInv
  OBVIOUS
<1>1. TypeOK
  <2>1. enabled \in BOOLEAN
    BY Zenon DEF Init
  <2> QED
    BY <2>1, WheelAssumption DEF Init, TypeOK, Buckets, Never
<1>2. EntryInv
  BY Zenon DEF Init, EntryInv, InWheel
<1>3. IdleInv
  BY Zenon DEF Init, IdleInv
<1> QED
  BY Zenon, <1>1, <1>2, <1>3 DEF WheelInv

(* Feed puts the Entry into the bucket of age 0, and nobody else's Entry   *)
(* is touched.                                                             *)
LEMMA WheelFeed == ASSUME WheelInv, NEW c \in Conns, Feed(c) PROVE WheelInv'
<1>1. PICK e \in EntryFor(c) :
        /\ conn_' = [conn_ EXCEPT ![e] = c]
        /\ context_' = [context_ EXCEPT ![c] = e]
        /\ wheel_' = [wheel_ EXCEPT ![current_bucket_] = @ \cup {e}]
  BY Zenon DEF Feed
<1>2. /\ state[c] # "gone" /\ idle' = [idle EXCEPT ![c] = 0]
      /\ UNCHANGED <<enabled, current_bucket_, state>>
  BY Zenon DEF Feed
<1>3. \/ InWheel(e) /\ context_[c] = e
      \/ e \in Entries /\ ~InWheel(e) /\ ~InWheel(context_[c])
  BY Zenon, <1>1, AliveInWheel DEF EntryFor, InWheel
<1>4. e \in Entries /\ e # NoEntry
  BY Zenon, <1>3, WheelAssumption DEF InWheel, WheelInv, TypeOK
<1>5. TypeOK'
  BY <1>1, <1>2, <1>4, WheelAssumption DEF WheelInv, TypeOK, Never
<1>6. /\ context_'[c] = e /\ conn_'[e] = c /\ idle'[c] = 0
      /\ \A d \in Conns \ {c} : context_'[d] = context_[d] /\ idle'[d] = idle[d]
      /\ \A f \in Entries \ {e} : conn_'[f] = conn_[f]
      /\ \A f : f # e => \A b \in Buckets : f \in wheel_'[b] <=> f \in wheel_[b]
      /\ e \in wheel_'[current_bucket_]
  BY Zenon, <1>1, <1>2, <1>4 DEF WheelInv, TypeOK
<1>7. \A d \in Conns \ {c} : state[d] # "gone" => context_[d] # e
  BY <1>2, <1>3, <1>4 DEF WheelInv, EntryInv
<1>8. ASSUME NEW f \in Entries, f # e
      PROVE  InWheel(f)' <=> InWheel(f)
  BY Zenon, <1>6, <1>8 DEF InWheel
<1>9. ASSUME NEW d \in Conns, state'[d] # "gone"
      PROVE  /\ context_'[d] # NoEntry =>
                  (\E b \in Buckets : context_'[d] \in wheel_'[b]) /\ conn_'[context_'[d]] = d
             /\ \A f \in Entries : InWheel(f)' /\ conn_'[f] = d => context_'[d] = f
  <2>1. CASE d = c
    <3>1. ASSUME NEW f \in Entries, f # e, InWheel(f), conn_[f] = c
          PROVE  FALSE
      <4>1. context_[c] = f
        BY Zenon, <1>2, <3>1 DEF WheelInv, EntryInv
      <4> QED
        BY Zenon, <1>3, <3>1, <4>1
    <3>2. \A f \in Entries : InWheel(f)' /\ conn_'[f] = c => f = e
      BY <1>6, <1>8, <3>1
    <3>3. current_bucket_ \in Buckets
      BY Zenon DEF WheelInv, TypeOK
    <3> QED
      BY Zenon, <1>6, <2>1, <3>2, <3>3
  <2>2. CASE d # c
    <3>1. state[d] # "gone" /\ context_'[d] = context_[d] /\ context_[d] # e
      BY Zenon, <1>2, <1>6, <1>7, <1>9, <2>2
    <3>2. context_[d] # NoEntry =>
             (\E b \in Buckets : context_[d] \in wheel_'[b]) /\ conn_'[context_[d]] = d
      BY <1>6, <3>1 DEF WheelInv, EntryInv, InWheel, TypeOK
    <3>3. \A f \in Entries : InWheel(f)' /\ conn_'[f] = d => context_[d] = f
      BY <1>6, <1>8, <3>1, <2>2 DEF WheelInv, EntryInv
    <3> QED
      BY Zenon, <3>1, <3>2, <3>3
  <2> QED
    BY Zenon, <2>1, <2>2
<1>10. EntryInv'
  BY Zenon, <1>9 DEF EntryInv, InWheel
<1>11. IdleInv'
  <2>1. \A b \in Buckets : Age(b)' = Age(b) /\ Age(b) \in Nat
    BY <1>2, WheelAssumption DEF Age, WheelInv, TypeOK, Buckets
  <2>2. Age(current_bucket_) = 0 /\ current_bucket_ \in Buckets
    BY WheelAssumption DEF Age, WheelInv, TypeOK, Buckets
  <2>3. ASSUME NEW d \in Conns, state'[d] # "gone", context_'[d] # NoEntry
        PROVE  /\ \E b \in Buckets : context_'[d] \in wheel_'[b] /\ Age(b) = idle'[d]
               /\ \A b \in Buckets : context_'[d] \in wheel_'[b] => idle'[d] <= Age(b)
    <3>1. CASE d = c
      BY <1>6, <2>1, <2>2, <3>1
    <3>2. CASE d # c
      BY <1>2, <1>6, <1>7, <2>3, <3>2 DEF WheelInv, IdleInv
    <3> QED
      BY Zenon, <3>1, <3>2
  <2>4. ASSUME NEW d \in Conns, state'[d] = "open", context_'[d] = NoEntry
        PROVE  idle'[d] = Never
    BY Zenon, <1>2, <1>4, <1>6, <2>4 DEF WheelInv, IdleInv
  <2> QED
    BY Zenon, <2>1, <2>3, <2>4 DEF IdleInv, Never
<1> QED
  BY Zenon, <1>5, <1>10, <1>11 DEF WheelInv

(* OnTimer keeps the invariant and shuts down exactly those connections    *)
(* whose time is up.                                                       *)
LEMMA WheelOnTimer ==
    ASSUME WheelInv, OnTimer
    PROVE  /\ WheelInv'
           /\ \A c \in Conns : state[c] = "open" =>
                 (state'[c] = "shutdown" <=> idle'[c] = WheelSize)
<1>0. NextBucket \in Buckets
  BY Successor, WheelAssumption DEF WheelInv, TypeOK, NextBucket, Buckets
<1>1. PICK n \in Buckets : n = NextBucket
  BY Zenon, <1>0
<1>2. PICK dead : dead = Alive(wheel_) \ Alive(wheel_')
  BY Zenon
<1>3. /\ current_bucket_' = n
      /\ wheel_' = [wheel_ EXCEPT ![n] = {}]
      /\ DestroyEntries(dead)
      /\ idle' = Aged
      /\ UNCHANGED <<enabled, conn_>>
  BY Zenon, <1>1, <1>2 DEF OnTimer, BucketToClear
<1>4. /\ wheel_' \in [Buckets -> SUBSET Entries]
      /\ \A b \in Buckets : wheel_'[b] = IF b = n THEN {} ELSE wheel_[b]
  BY Zenon, <1>3 DEF WheelInv, TypeOK
<1>5. /\ \A e : e \in dead <=> InWheel(e) /\ \A b \in Buckets : e \in wheel_[b] => b = n
      /\ dead \in SUBSET Entries
  <2>1. \A e : e \in dead <=> (\E b \in Buckets : e \in wheel_[b])
                              /\ ~\E b \in Buckets : e \in wheel_'[b]
    BY Zenon, <1>2, AliveInWheel
  <2> QED
    BY Zenon, <1>4, <2>1 DEF InWheel, WheelInv, TypeOK
<1>6. /\ context_' \in [Conns -> Entries \cup {NoEntry}]
      /\ state' \in [Conns -> {"open", "shutdown", "gone"}]
      /\ \A c \in Conns :
            IF state[c] # "gone" /\ context_[c] \in dead
            THEN context_'[c] = NoEntry /\ state'[c] = "shutdown"
            ELSE context_'[c] = context_[c] /\ state'[c] = state[c]
  BY Zenon, <1>3, <1>5, Destroyed
<1>7. \A b \in Buckets : /\ Age(b) \in 0 .. WheelSize - 1
                         /\ Age(b) = WheelSize - 1 <=> b = n
                         /\ b # n => Age(b)' = Age(b) + 1
  BY Zenon, <1>1, <1>3, Ages DEF WheelInv
<1>8. \A c \in Conns : idle'[c] = IF idle[c] < WheelSize THEN idle[c] + 1 ELSE idle[c]
  BY Zenon, <1>3 DEF Aged
<1>9. TypeOK'
  <2>1. idle' \in [Conns -> 0 .. Never]
    BY <1>3, WheelAssumption DEF Aged, Never, WheelInv, TypeOK
  <2> QED
    BY Zenon, <1>1, <1>3, <1>4, <1>6, <2>1 DEF WheelInv, TypeOK
<1>10. ASSUME NEW c \in Conns, state[c] # "gone", context_[c] # NoEntry
       PROVE  /\ idle[c] \in 0 .. WheelSize - 1
              /\ context_[c] \in dead <=> idle[c] = WheelSize - 1
  <2>1. PICK b \in Buckets : context_[c] \in wheel_[b] /\ Age(b) = idle[c]
    BY Zenon, <1>10 DEF WheelInv, IdleInv
  <2>2. \A d \in Buckets : context_[c] \in wheel_[d] => idle[c] <= Age(d)
    BY Zenon, <1>10 DEF WheelInv, IdleInv
  <2>3. idle[c] = WheelSize - 1 => \A d \in Buckets : context_[c] \in wheel_[d] => d = n
    BY <1>7, <2>1, <2>2, WheelAssumption
  <2> QED
    BY Zenon, <1>5, <1>7, <2>1, <2>3 DEF InWheel
<1>11. EntryInv'
  <2>1. \A e : InWheel(e)' <=> InWheel(e) /\ e \notin dead
    BY Zenon, <1>4, <1>5, <1>9 DEF InWheel, TypeOK
  <2>2. ASSUME NEW c \in Conns, state'[c] # "gone"
        PROVE  /\ context_'[c] # NoEntry => \E b \in Buckets : context_'[c] \in wheel_'[b]
               /\ context_'[c] # NoEntry => conn_'[context_'[c]] = c
               /\ \A e \in Entries : InWheel(e)' /\ conn_'[e] = c => context_'[c] = e
    <3>1. state[c] # "gone"
      BY Zenon, <1>6, <2>2
    <3>2. context_'[c] # NoEntry => context_'[c] = context_[c] /\ context_[c] \notin dead
      BY Zenon, <1>6, <3>1
    <3>3. context_'[c] # NoEntry => \E b \in Buckets : context_'[c] \in wheel_'[b]
      BY <1>4, <1>5, <3>1, <3>2 DEF WheelInv, EntryInv, InWheel
    <3>4. context_'[c] # NoEntry => conn_'[context_'[c]] = c
      BY Zenon, <1>3, <3>1, <3>2 DEF WheelInv, EntryInv
    <3>5. \A e \in Entries : InWheel(e)' /\ conn_'[e] = c => context_'[c] = e
      BY <1>3, <1>6, <2>1, <3>1 DEF WheelInv, EntryInv
    <3> QED
      BY Zenon, <3>3, <3>4, <3>5
  <2> QED
    BY Zenon, <2>2 DEF EntryInv, InWheel
<1>12. IdleInv'
  <2>1. ASSUME NEW c \in Conns, state'[c] # "gone", context_'[c] # NoEntry
        PROVE  /\ \E b \in Buckets : context_'[c] \in wheel_'[b] /\ Age(b)' = idle'[c]
               /\ \A b \in Buckets : context_'[c] \in wheel_'[b] => idle'[c] <= Age(b)'
    <3>1. /\ state[c] # "gone" /\ context_'[c] = context_[c] /\ context_[c] # NoEntry
          /\ context_[c] \notin dead
      BY Zenon, <1>6, <2>1
    <3>2. idle[c] \in 0 .. WheelSize - 2 /\ idle'[c] = idle[c] + 1
      BY <1>8, <1>10, <3>1, WheelAssumption
    <3>3. PICK b \in Buckets : context_[c] \in wheel_[b] /\ Age(b) = idle[c]
      BY Zenon, <3>1 DEF WheelInv, IdleInv
    <3>4. b # n
      BY <1>7, <3>2, <3>3, WheelAssumption
    <3>5. context_'[c] \in wheel_'[b] /\ Age(b)' = idle'[c]
      BY Zenon, <1>4, <1>7, <3>1, <3>2, <3>3, <3>4
    <3>6. ASSUME NEW d \in Buckets, context_'[c] \in wheel_'[d]
          PROVE  idle'[c] <= Age(d)'
      <4>1. d # n /\ context_[c] \in wheel_[d]
        BY Zenon, <1>4, <3>1, <3>6
      <4>2. idle[c] <= Age(d)
        BY Zenon, <3>1, <4>1 DEF WheelInv, IdleInv
      <4> QED
        BY <1>7, <3>2, <4>1, <4>2, WheelAssumption
    <3> QED
      BY Zenon, <3>5, <3>6
  <2>2. ASSUME NEW c \in Conns, state'[c] = "open", context_'[c] = NoEntry
        PROVE  idle'[c] = Never
    BY <1>6, <1>8, <2>2, WheelAssumption DEF WheelInv, IdleInv, Never
  <2> QED
    BY Zenon, <2>1, <2>2 DEF IdleInv, Never
<1>13. ASSUME NEW c \in Conns, state[c] = "open"
       PROVE  state'[c] = "shutdown" <=> idle'[c] = WheelSize
  <2>1. CASE context_[c] = NoEntry
    <3>1. idle'[c] = WheelSize + 1
      BY <1>8, <1>13, <2>1, WheelAssumption DEF WheelInv, IdleInv, Never
    <3>2. context_[c] \notin dead
      BY Zenon, <1>5, <2>1, WheelAssumption
    <3> QED
      BY <1>6, <1>13, <3>1, <3>2, WheelAssumption
  <2>2. CASE context_[c] # NoEntry
    <3>1. idle[c] \in 0 .. WheelSize - 1 /\ idle'[c] = idle[c] + 1
      BY <1>8, <1>10, <1>13, <2>2, WheelAssumption
    <3>2. context_[c] \in dead <=> idle'[c] = WheelSize
      BY <1>10, <1>13, <2>2, <3>1, WheelAssumption
    <3> QED
      BY Zenon, <1>6, <1>13, <3>2
  <2> QED
    BY Zenon, <2>1, <2>2
<1> QED
  BY Zenon, <1>9, <1>11, <1>12, <1>13 DEF WheelInv

(* Replacing the wheel destroys every Entry.                               *)
LEMMA WheelEnable == ASSUME WheelInv, EnableIdleTimeout PROVE WheelInv'
<1>1. PICK dead : dead = Alive(wheel_)
  OBVIOUS
<1>2. /\ wheel_' = [b \in Buckets |-> {}] /\ DestroyEntries(dead) /\ UNCHANGED <<conn_, idle>>
      /\ enabled' = TRUE /\ current_bucket_' = 0
  BY Zenon, <1>1 DEF EnableIdleTimeout
<1>3. dead \in SUBSET Entries /\ \A e : e \in dead <=> InWheel(e)
  BY Zenon, <1>1, AliveInWheel DEF InWheel, WheelInv, TypeOK
<1>4. /\ context_' \in [Conns -> Entries \cup {NoEntry}]
      /\ state' \in [Conns -> {"open", "shutdown", "gone"}]
      /\ \A c \in Conns :
            IF state[c] # "gone" /\ context_[c] \in dead
            THEN context_'[c] = NoEntry /\ state'[c] = "shutdown"
            ELSE context_'[c] = context_[c] /\ state'[c] = state[c]
  BY Zenon, <1>2, <1>3, Destroyed
<1>5. TypeOK'
  <2>1. enabled' \in BOOLEAN
    BY Zenon, <1>2
  <2> QED
    BY <1>2, <1>4, <2>1, WheelAssumption DEF WheelInv, TypeOK, Buckets
<1>6. \A c \in Conns : state'[c] # "gone" => context_'[c] = NoEntry
  BY Zenon, <1>3, <1>4 DEF WheelInv, EntryInv
<1>7. EntryInv'
  BY Zenon, <1>2, <1>6 DEF EntryInv, InWheel
<1>8. IdleInv'
  BY Zenon, <1>2, <1>4, <1>6 DEF WheelInv, IdleInv, Never
<1> QED
  BY Zenon, <1>5, <1>7, <1>8 DEF WheelInv

LEMMA WheelFreed == ASSUME WheelInv, NEW c \in Conns, Freed(c) PROVE WheelInv'
<1>1. TypeOK'
  BY Zenon DEF Freed, WheelInv, TypeOK
<1>2. \A d \in Conns : state'[d] # "gone" => state'[d] = state[d]
  BY Zenon DEF Freed, WheelInv, TypeOK
<1>3. EntryInv'
  BY Zenon, <1>2 DEF Freed, WheelInv, EntryInv, InWheel
<1>4. IdleInv'
  BY Zenon, <1>2 DEF Freed, WheelInv, IdleInv, Age, Never
<1> QED
  BY Zenon, <1>1, <1>3, <1>4 DEF WheelInv

LEMMA WheelNext == WheelInv /\ [Next]_vars => WheelInv'
<1> SUFFICES ASSUME WheelInv, [Next]_vars PROVE WheelInv'
  OBVIOUS
<1>1. CASE \E c \in Conns : Feed(c)
  BY Zenon, <1>1, WheelFeed
<1>2. CASE \E c \in Conns : Freed(c)
  BY <1>2, WheelFreed
<1>3. CASE OnTimer
  BY Zenon, <1>3, WheelOnTimer
<1>4. CASE EnableIdleTimeout
  BY Zenon, <1>4, WheelEnable
<1>5. CASE UNCHANGED vars
  BY Zenon, <1>5 DEF vars, WheelInv, TypeOK, EntryInv, IdleInv, InWheel, Age, Never
<1> QED
  BY Zenon, <1>1, <1>2, <1>3, <1>4, <1>5 DEF Next

LEMMA WheelAlways == Spec => []WheelInv
BY WheelInit, WheelNext, PTL DEF Spec

(* A connection that exists has at most one Entry, and its context leads   *)
(* there: Feed never makes a second Entry while the first one is in some   *)
(* bucket, and no context leads to an Entry that OnTimer or a replaced     *)
(* wheel destroyed, also when its memory is used again.                    *)
THEOREM ContextsLeadToEntries == Spec => []OneEntry
<1>1. WheelInv => OneEntry
  <2> SUFFICES ASSUME WheelInv, NEW c \in Conns, state[c] # "gone"
               PROVE  {e \in Alive(wheel_) : conn_[e] = c} = {context_[c]} \ {NoEntry}
    BY Zenon DEF WheelInv, OneEntry
  <2>1. \A e : e \in Alive(wheel_) <=> InWheel(e)
    BY Zenon, AliveInWheel DEF InWheel
  <2>2. \A e : InWheel(e) => e \in Entries
    BY Zenon DEF InWheel, WheelInv, TypeOK
  <2>3. \A e : InWheel(e) /\ conn_[e] = c <=> e = context_[c] /\ e # NoEntry
    BY <2>2, WheelAssumption DEF WheelInv, EntryInv
  <2> QED
    BY <2>1, <2>3
<1> QED
  BY <1>1, WheelAlways, PTL

(* For every timeout: the tick that completes it since the last Feed shuts *)
(* the connection down, and no tick before or after it does.               *)
THEOREM TimesOutExactly == Spec => ExactTimeout
<1>1. WheelInv /\ [Next]_vars =>
        [OnTimer => \A c \in Conns : state[c] = "open" =>
                      (state'[c] = "shutdown" <=> idle'[c] = WheelSize)]_vars
  BY Zenon, WheelOnTimer
<1> QED
  BY <1>1, WheelAlways, PTL DEF Spec, ExactTimeout
=============================================================================
