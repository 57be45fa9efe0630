---------------------------- MODULE ThreadProofs ----------------------------
(***************************************************************************)
(* Machine-checked proofs about the part that starts threads and the part  *)
(* that all of them use: module EventLoopThreadPool, for every number of   *)
(* loop threads, and modules LogStream and Logger, for every set of        *)
(* threads and of streamed items, every size of the buffer and every width *)
(* of the integers.                                                        *)
(***************************************************************************)
EXTENDS EventLoopThreadPool, Logger, SequenceTheorems, WellFoundedInduction, TLAPS

-----------------------------------------------------------------------------
(* EventLoopThreadPool.                                                    *)

(* The stages of a thread before Start may go on, and after its Loop().    *)
Young == {"none", "created", "posted", "made"}
Over == {"left", "cleared", "exited"}
Starting == owner \in {"start", "semWait", "testLoop", "condWait"}

(* The destructor has called Quit for loop i.                              *)
Told(i) ==
    /\ owner \in {"readLoop", "quit", "join", "destroyed"}
    /\ i < at \/ (i = at /\ owner = "join")

(* A loop that did not quit itself leaves Loop() only when the destructor  *)
(* told it so.  Its pointer is set only from Publish to ClearLoop.  Start  *)
(* goes on to the next thread once the one before is published, and none   *)
(* runs that is not yet created.                                           *)
PoolInv ==
    /\ PoolTypeOK
    /\ owner \in {"semWait", "testLoop", "condWait", "quit", "join"} => at <= NumThreads
    /\ \A i \in threads_ :
          /\ i \notin selfquit /\ (child[i] \in Over \/ (child[i] = "looping" /\ quit_[i]))
                => Told(i)
          /\ loop_[i] => child[i] \in {"published", "looping", "left"}
          /\ Starting /\ i < at => child[i] \notin Young
          /\ Starting /\ (i > at \/ (i = at /\ owner = "start")) => child[i] = "none"
          /\ ~Starting => child[i] \notin Young

(* It holds before Start.                                                  *)
LEMMA PoolInitially == PoolInit => PoolInv
  <1> SUFFICES ASSUME PoolInit PROVE PoolInv
    OBVIOUS
  <1> USE PoolAssumption DEF PoolInit
  <1>1. /\ at \in 1 .. NumThreads + 1 /\ next_ \in 0..NumThreads
        /\ NumThreads > 0 => next_ < NumThreads
        /\ \A i \in threads_ : i >= at
    BY DEF threads_
  <1>2. PoolTypeOK
    BY Zenon, <1>1 DEF PoolTypeOK
  <1>3. \A i \in threads_ : child[i] = "none" /\ ~loop_[i] /\ ~(i < at)
    BY <1>1 DEF threads_
  <1> QED
    BY Zenon, <1>2, <1>3 DEF PoolInv, Young, Over, Starting

(* The owner's steps.                                                      *)
LEMMA OwnerKeeps == PoolInv /\ (OwnerStep \/ GetNextLoop \/ Destroy) => PoolInv'
  <1> SUFFICES ASSUME PoolInv, OwnerStep \/ GetNextLoop \/ Destroy PROVE PoolInv'
    OBVIOUS
  <1> USE PoolAssumption DEF PoolInv, PoolTypeOK, threads_, Young, Over, Starting, Told
  <1>1. CASE Create
    BY Zenon, <1>1 DEF Create
  <1>2. CASE SemWait
    BY Zenon, <1>2 DEF SemWait
  <1>3. CASE CondWait
    BY <1>3 DEF CondWait
  <1>4. CASE Started
    BY <1>4 DEF Started
  <1>5. CASE ReadLoop
    BY <1>5 DEF ReadLoop
  <1>6. CASE QuitLoop
    BY Zenon, <1>6 DEF QuitLoop
  <1>7. CASE Join
    BY <1>7 DEF Join
  <1>8. CASE Destroyed
    BY Zenon, <1>8 DEF Destroyed
  <1>9. CASE GetNextLoop
    BY <1>9 DEF GetNextLoop
  <1>10. CASE Destroy
    BY <1>10 DEF Destroy
  <1> QED
    BY Zenon, <1>1, <1>2, <1>3, <1>4, <1>5, <1>6, <1>7, <1>8, <1>9, <1>10 DEF OwnerStep

(* A loop thread's steps.                                                  *)
LEMMA ChildKeeps ==
    ASSUME PoolInv, NEW i \in threads_, ChildStep(i) \/ QuitItself(i)
    PROVE  PoolInv'
  <1> USE PoolAssumption DEF PoolInv, PoolTypeOK, threads_, Young, Over, Starting, Told
  <1>1. CASE PostSem(i)
    BY Zenon, <1>1 DEF PostSem
  <1>2. CASE InitCallback(i)
    BY <1>2 DEF InitCallback
  <1>3. CASE Publish(i)
    BY Zenon, <1>3 DEF Publish
  <1>4. CASE EnterLoop(i)
    BY <1>4 DEF EnterLoop
  <1>5. CASE QuitItself(i)
    BY <1>5 DEF QuitItself
  <1>6. CASE LeaveLoop(i)
    BY <1>6 DEF LeaveLoop
  <1>7. CASE ClearLoop(i)
    BY <1>7 DEF ClearLoop
  <1>8. CASE Exit(i)
    BY <1>8 DEF Exit
  <1> QED
    BY Zenon, <1>1, <1>2, <1>3, <1>4, <1>5, <1>6, <1>7, <1>8 DEF ChildStep

(* Module EventLoopThreadPool, UsesLiveLoops: what GetNextLoop hands out   *)
(* and what ~EventLoopThread calls Quit on is a loop that its thread has   *)
(* not destroyed, whatever the number of threads and however they are      *)
(* scheduled, and next_ indexes a loop.                                    *)
THEOREM LoopsOutliveTheirUse == PoolSpec => []UsesLiveLoops
  <1>1. PoolInv /\ [PoolNext]_poolVars => PoolInv'
    <2> SUFFICES ASSUME PoolInv, [PoolNext]_poolVars PROVE PoolInv'
      OBVIOUS
    <2>1. CASE UNCHANGED poolVars
      BY Zenon, <2>1 DEF poolVars, PoolInv, PoolTypeOK, Starting, Told
    <2> QED
      BY Zenon, <2>1, OwnerKeeps, ChildKeeps DEF PoolNext
  <1>2. PoolInv => UsesLiveLoops
    BY PoolAssumption DEF PoolInv, UsesLiveLoops, PoolTypeOK, threads_, Young, Over, Starting, Told
  <1> QED
    BY <1>1, <1>2, PoolInitially, PTL DEF PoolSpec

-----------------------------------------------------------------------------
(* LogStream: the numerals.                                                *)

(* Every nonempty set of naturals has a least element: the form in which   *)
(* induction is used below.                                                *)
LEMMA LeastNumber ==
    ASSUME NEW T \in SUBSET Nat, T # {}
    PROVE  \E n \in T : \A m \in T : n <= m
  <1> DEFINE R == OpToRel(<, Nat)
  <1>1. IsWellFoundedOn(R, Nat)
    BY Zenon, NatLessThanWellFounded
  <1>2. \A a, b \in Nat : a < b => <<a, b>> \in R
    BY DEF OpToRel
  <1> HIDE DEF R
  <1>3. PICK n \in T : \A m \in T : ~(<<m, n>> \in R)
    BY Zenon, <1>1, WFMin
  <1>4. \A m \in T : ~(m < n)
    BY Zenon, <1>2, <1>3
  <1>5. \A m \in T : m \in Nat /\ n \in Nat
    BY Zenon
  <1>6. \A m \in T : n <= m
    BY <1>4, <1>5
  <1> QED
    BY Zenon, <1>6

(* A function on 1..n is a sequence of length n.                           *)
LEMMA IsSequence ==
    ASSUME NEW S, NEW n \in Nat, NEW f \in [1..n -> S]
    PROVE  f \in Seq(S) /\ Len(f) = n
  <1>1. f \in Seq(S)
    BY Zenon, SeqDef
  <1>2. DOMAIN f = 1..n
    BY Zenon
  <1>3. Len(f) \in Nat /\ DOMAIN f = 1..Len(f)
    BY Zenon, <1>1, LenProperties
  <1> QED
    BY <1>1, <1>2, <1>3

(* The magnitude of a number.                                              *)
Abs(i) == IF i < 0 THEN -i ELSE i

(* It is a natural number, and zero for zero alone.                        *)
LEMMA AbsFacts ==
    ASSUME NEW i \in Int
    PROVE  Abs(i) \in Nat /\ (Abs(i) = 0 <=> i = 0)
  BY DEF Abs

(* f is a solution of the recursion by which the numbers of D are taken    *)
(* apart into digits, the last one first.                                  *)
TakesApart(f, D, quo, dig) ==
    f = [i \in D |-> <<dig[i]>> \o (IF quo[i] # 0 THEN f[quo[i]] ELSE <<>>)]

(* The recursion has a solution: for numbers up to n by induction on n.    *)
LEMMA DigitsExist ==
    ASSUME NEW D \in SUBSET Int, NEW N \in Nat, \A i \in D : Abs(i) <= N,
           NEW quo \in [D -> D], \A i \in D : quo[i] = 0 \/ Abs(quo[i]) < Abs(i),
           NEW dig
    PROVE  \E f : TakesApart(f, D, quo, dig)
  <1> DEFINE Part(n) == {i \in D : Abs(i) <= n}
             T == {n \in Nat : ~\E f : TakesApart(f, Part(n), quo, dig)}
  <1>1. T = {}
    <2> SUFFICES ASSUME T # {} PROVE FALSE
      BY Zenon
    <2>1. PICK n \in T : \A m \in T : n <= m
      BY Zenon, LeastNumber
    <2>2. n \in Nat /\ ~\E f : TakesApart(f, Part(n), quo, dig)
      BY Zenon
    <2>3. PICK f : n # 0 => TakesApart(f, Part(n - 1), quo, dig)
      <3>1. CASE n = 0
        BY Zenon, <3>1
      <3>2. CASE n # 0
        <4>1. n - 1 \in Nat /\ ~(n <= n - 1)
          BY <2>2, <3>2
        <4>2. n - 1 \notin T
          BY Zenon, <4>1, <2>1
        <4> QED
          BY Zenon, <4>1, <4>2
      <3> QED
        BY Zenon, <3>1, <3>2
    <2> DEFINE g == [i \in Part(n) |-> <<dig[i]>> \o (IF quo[i] # 0 THEN f[quo[i]] ELSE <<>>)]
    <2>4. ASSUME NEW i \in Part(n), quo[i] # 0 PROVE g[quo[i]] = f[quo[i]]
      <3>1. /\ i \in Int /\ quo[i] \in D /\ quo[i] \in Int /\ Abs(quo[i]) < Abs(i) /\ Abs(i) <= n
        BY Zenon, <2>4
      <3>2. n # 0 /\ Abs(quo[i]) <= n - 1 /\ Abs(quo[i]) <= n
        BY <3>1, <2>2 DEF Abs
      <3>3. quo[i] \in Part(n - 1) /\ quo[i] \in Part(n)
        BY Zenon, <3>1, <3>2
      <3>4. f[quo[i]] = <<dig[quo[i]]>> \o (IF quo[quo[i]] # 0 THEN f[quo[quo[i]]] ELSE <<>>)
        BY Zenon, <2>3, <3>2, <3>3 DEF TakesApart
      <3> QED
        BY Zenon, <3>3, <3>4
    <2>5. TakesApart(g, Part(n), quo, dig)
      <3> DEFINE h == [i \in Part(n) |-> <<dig[i]>> \o (IF quo[i] # 0 THEN g[quo[i]] ELSE <<>>)]
      <3>1. \A i \in Part(n) : g[i] = h[i]
        <4> SUFFICES ASSUME NEW i \in Part(n) PROVE g[i] = h[i]
          BY Zenon
        <4>1. g[i] = <<dig[i]>> \o (IF quo[i] # 0 THEN f[quo[i]] ELSE <<>>)
          BY Zenon
        <4>2. h[i] = <<dig[i]>> \o (IF quo[i] # 0 THEN g[quo[i]] ELSE <<>>)
          BY Zenon
        <4> QED
          BY Zenon, <4>1, <4>2, <2>4
      <3>2. g = h
        BY Zenon, <3>1
      <3> QED
        BY Zenon, <3>2 DEF TakesApart
    <2> QED
      BY Zenon, <2>2, <2>5
  <1>2. PICK f : TakesApart(f, Part(N), quo, dig)
    BY Zenon, <1>1
  <1>3. Part(N) = D
    BY Zenon
  <1> QED
    BY Zenon, <1>2, <1>3

(* The digits of base b.                                                   *)
Digit(b) == {digitsHex[n + 1] : n \in 0 .. b - 1}

(* Each digit has its value.                                               *)
LEMMA DigitValues ==
    ASSUME NEW n \in 0..15
    PROVE  DigitValue(digitsHex[n + 1]) = n
  <1>1. \A k \in 0..15 : digitsHex[k + 1] = digitsHex[n + 1] => k = n
    BY SMTT(30) DEF digitsHex
  <1> QED
    BY Zenon, <1>1 DEF DigitValue

(* f[i] is the number that the first i digits of the text denote.          *)
Prefixes(f, text, base, n) ==
    f = [i \in 0..n |-> IF i = 0 THEN 0 ELSE base * f[i - 1] + DigitValue(text[i])]

(* For any text these numbers exist, by induction on n.                    *)
LEMMA ReadsExist ==
    ASSUME NEW text, NEW base, NEW N \in Nat
    PROVE  \E f : Prefixes(f, text, base, N)
  <1> DEFINE T == {n \in Nat : ~\E f : Prefixes(f, text, base, n)}
  <1>1. T = {}
    <2> SUFFICES ASSUME T # {} PROVE FALSE
      BY Zenon
    <2>1. PICK n \in T : \A m \in T : n <= m
      BY Zenon, LeastNumber
    <2>2. n \in Nat /\ ~\E f : Prefixes(f, text, base, n)
      BY Zenon
    <2>3. PICK f : n # 0 => Prefixes(f, text, base, n - 1)
      <3>1. CASE n = 0
        BY Zenon, <3>1
      <3>2. CASE n # 0
        <4>1. n - 1 \in Nat /\ ~(n <= n - 1)
          BY <2>2, <3>2
        <4>2. n - 1 \notin T
          BY Zenon, <4>1, <2>1
        <4> QED
          BY Zenon, <4>1, <4>2
      <3> QED
        BY Zenon, <3>1, <3>2
    <2> DEFINE g == [i \in 0..n |-> IF i = 0 THEN 0 ELSE base * f[i - 1] + DigitValue(text[i])]
    <2>4. ASSUME NEW i \in 0..n, i # 0 PROVE g[i - 1] = f[i - 1]
      <3>1. i - 1 \in 0..n /\ i - 1 \in 0 .. n - 1 /\ n # 0
        BY <2>2, <2>4
      <3>2. f[i - 1] = IF i - 1 = 0 THEN 0
                       ELSE base * f[(i - 1) - 1] + DigitValue(text[i - 1])
        BY Zenon, <2>3, <3>1 DEF Prefixes
      <3> QED
        BY Zenon, <3>1, <3>2
    <2>5. Prefixes(g, text, base, n)
      <3> DEFINE h == [i \in 0..n |-> IF i = 0 THEN 0 ELSE base * g[i - 1] + DigitValue(text[i])]
      <3>1. \A i \in 0..n : g[i] = h[i]
        <4> SUFFICES ASSUME NEW i \in 0..n PROVE g[i] = h[i]
          BY Zenon
        <4>1. g[i] = IF i = 0 THEN 0 ELSE base * f[i - 1] + DigitValue(text[i])
          BY Zenon
        <4>2. h[i] = IF i = 0 THEN 0 ELSE base * g[i - 1] + DigitValue(text[i])
          BY Zenon
        <4> QED
          BY Zenon, <4>1, <4>2, <2>4
      <3>2. g = h
        BY Zenon, <3>1
      <3> QED
        BY Zenon, <3>2 DEF Prefixes
    <2> QED
      BY Zenon, <2>2, <2>5
  <1> QED
    BY Zenon, <1>1

(* Reads gives the last of them.                                           *)
LEMMA ReadsByPrefix ==
    ASSUME NEW S, NEW text \in Seq(S), NEW base
    PROVE  \E f : Prefixes(f, text, base, Len(text)) /\ Reads(text, base) = f[Len(text)]
  <1>1. Len(text) \in Nat
    BY Zenon, LenProperties
  <1>2. \E f : Prefixes(f, text, base, Len(text))
    BY Zenon, <1>1, ReadsExist
  <1> DEFINE value[i \in 0 .. Len(text)] ==
                IF i = 0 THEN 0 ELSE base * value[i - 1] + DigitValue(text[i])
  <1>3. Prefixes(value, text, base, Len(text))
    BY Zenon, <1>2 DEF Prefixes
  <1>4. Reads(text, base) = value[Len(text)]
    BY Zenon DEF Reads
  <1> HIDE DEF value
  <1> QED
    BY Zenon, <1>3, <1>4

(* The empty text denotes 0.                                               *)
LEMMA ReadsNone == ASSUME NEW base PROVE Reads(<<>>, base) = 0
  <1>1. <<>> \in Seq({}) /\ Len(<<>>) = 0
    BY Zenon, EmptySeq
  <1>2. PICK f : Prefixes(f, <<>>, base, 0) /\ Reads(<<>>, base) = f[0]
    BY Zenon, <1>1, ReadsByPrefix
  <1>3. 0 \in 0..0
    OBVIOUS
  <1> QED
    BY Zenon, <1>2, <1>3 DEF Prefixes

(* One digit more multiplies by the base and adds its value.               *)
LEMMA ReadsAppend ==
    ASSUME NEW S, NEW s \in Seq(S), NEW c \in S, NEW base
    PROVE  Reads(Append(s, c), base) = base * Reads(s, base) + DigitValue(c)
  <1> DEFINE t == Append(s, c)
             n == Len(s)
  <1>1. /\ t \in Seq(S) /\ n \in Nat /\ Len(t) = n + 1 /\ t[n + 1] = c
        /\ \A i \in 1..n : t[i] = s[i]
    BY SMT, AppendProperties, LenProperties
  <1> HIDE DEF t, n
  <1>2. PICK f : Prefixes(f, s, base, n) /\ Reads(s, base) = f[n]
    BY Zenon, ReadsByPrefix DEF n
  <1>3. PICK g : Prefixes(g, t, base, n + 1) /\ Reads(t, base) = g[n + 1]
    BY Zenon, <1>1, ReadsByPrefix
  <1>4. /\ \A i \in 0..n : f[i] = IF i = 0 THEN 0 ELSE base * f[i - 1] + DigitValue(s[i])
        /\ \A i \in 0 .. n + 1 : g[i] = IF i = 0 THEN 0 ELSE base * g[i - 1] + DigitValue(t[i])
    BY Zenon, <1>2, <1>3 DEF Prefixes
  <1> DEFINE T == {i \in 0..n : f[i] # g[i]}
  <1>5. T = {}
    <2> SUFFICES ASSUME T # {} PROVE FALSE
      BY Zenon
    <2>1. T \in SUBSET Nat
      BY <1>1
    <2>2. PICK i \in T : \A j \in T : i <= j
      BY Zenon, <2>1, LeastNumber
    <2>3. i \in 0..n /\ f[i] # g[i]
      BY Zenon
    <2>4. i \in Nat /\ i \in 0 .. n + 1
      BY <2>3, <1>1
    <2>5. i # 0
      BY Zenon, <2>3, <2>4, <1>4
    <2>6. i \in 1..n /\ i - 1 \in 0..n /\ ~(i <= i - 1)
      BY <2>3, <2>4, <2>5, <1>1
    <2>7. f[i - 1] = g[i - 1]
      BY Zenon, <2>2, <2>6
    <2> QED
      BY Zenon, <1>1, <1>4, <2>3, <2>4, <2>5, <2>6, <2>7
  <1>6. n \in 0..n /\ n + 1 \in 0 .. n + 1 /\ n + 1 # 0 /\ (n + 1) - 1 = n
    BY <1>1
  <1>7. f[n] = g[n]
    BY Zenon, <1>5, <1>6
  <1>8. g[n + 1] = base * g[n] + DigitValue(c)
    BY Zenon, <1>1, <1>4, <1>6
  <1> QED
    BY Zenon, <1>2, <1>3, <1>7, <1>8 DEF t

(* What std::reverse does to a sequence, and to one with another element   *)
(* in front or behind.                                                     *)
LEMMA Reversed ==
    ASSUME NEW S, NEW s \in Seq(S), NEW c \in S
    PROVE  /\ Reverse(s) \in Seq(S) /\ Len(Reverse(s)) = Len(s)
           /\ \A i \in 1 .. Len(s) : Reverse(s)[i] = s[Len(s) - i + 1]
           /\ Reverse(<<c>> \o s) = Append(Reverse(s), c)
           /\ Reverse(Append(s, c)) = <<c>> \o Reverse(s)
  <1>1. Len(s) \in Nat /\ \A i \in 1 .. Len(s) : s[i] \in S
    BY Zenon, LenProperties, ElementOfSeq
  <1>2. \A i \in 1 .. Len(s) : Len(s) - i + 1 \in 1 .. Len(s)
    BY <1>1
  <1>3. Reverse(s) \in [1 .. Len(s) -> S]
    BY Zenon, <1>1, <1>2 DEF Reverse
  <1>4. Reverse(s) \in Seq(S) /\ Len(Reverse(s)) = Len(s)
    BY Zenon, <1>1, <1>3, IsSequence
  <1>5. \A i \in 1 .. Len(s) : Reverse(s)[i] = s[Len(s) - i + 1]
    BY Zenon DEF Reverse
  <1>6. Reverse(<<c>> \o s) = Append(Reverse(s), c)
    BY <1>1, <1>3, <1>4, <1>5 DEF Reverse
  <1>7. Reverse(Append(s, c)) = <<c>> \o Reverse(s)
    BY <1>1, <1>3, <1>4, <1>5 DEF Reverse
  <1> QED
    BY Zenon, <1>4, <1>5, <1>6, <1>7

(* s is the usual numeral of n, the last digit first: it denotes n and has *)
(* no zero in front unless it is the zero.                                 *)
Usual(s, n, base) ==
    /\ s \in Seq(Digit(base)) /\ s # <<>>
    /\ Reads(Reverse(s), base) = n
    /\ n # 0 => s[Len(s)] # "0"
    /\ n = 0 => Len(s) = 1

(* A single digit is the numeral of its value.                             *)
LEMMA OneDigit ==
    ASSUME NEW base \in 2..16, NEW d \in 0 .. base - 1
    PROVE  Usual(<<digitsHex[d + 1]>>, d, base)
  <1> DEFINE c == digitsHex[d + 1]
             S == Digit(base)
  <1>1. c \in S /\ d \in 0..15
    BY DEF Digit
  <1>2. d # 0 => c # "0"
    BY <1>1 DEF digitsHex
  <1>3. DigitValue(c) = d
    BY Zenon, <1>1, DigitValues
  <1> HIDE DEF c, S
  <1>4. /\ <<c>> \in Seq(S) /\ <<c>> # <<>> /\ Len(<<c>>) = 1 /\ <<c>>[1] = c
        /\ <<>> \in Seq(S) /\ Reverse(<<c>>) = Append(<<>>, c)
    BY <1>1 DEF Reverse
  <1>5. Reads(Reverse(<<c>>), base) = base * 0 + d
    <2>1. Reads(Append(<<>>, c), base) = base * Reads(<<>>, base) + DigitValue(c)
      BY Zenon, <1>1, <1>4, ReadsAppend
    <2> QED
      BY Zenon, <2>1, <1>3, <1>4, ReadsNone
  <1>6. base * 0 + d = d
    OBVIOUS
  <1> DEFINE s == <<c>>
  <1>7. s \in Seq(S) /\ s # <<>> /\ Len(s) = 1 /\ s[Len(s)] = c /\ Reads(Reverse(s), base) = d
    BY Zenon, <1>4, <1>5, <1>6
  <1> HIDE DEF s
  <1>8. Usual(s, d, base)
    BY Zenon, <1>2, <1>7 DEF Usual, S
  <1> QED
    BY Zenon, <1>8 DEF s, c

(* A last digit d makes the numeral of base * n + d from that of n.        *)
LEMMA MoreDigits ==
    ASSUME NEW base \in 2..16, NEW d \in 0 .. base - 1,
           NEW s, NEW n \in Nat \ {0}, Usual(s, n, base)
    PROVE  Usual(<<digitsHex[d + 1]>> \o s, base * n + d, base)
  <1> DEFINE c == digitsHex[d + 1]
             S == Digit(base)
  <1>1. c \in S /\ d \in 0..15
    BY DEF Digit
  <1>2. DigitValue(c) = d
    BY Zenon, <1>1, DigitValues
  <1>3. s \in Seq(S) /\ s # <<>> /\ Reads(Reverse(s), base) = n /\ s[Len(s)] # "0"
    BY Zenon DEF Usual
  <1> HIDE DEF c, S
  <1>4. Reverse(s) \in Seq(S) /\ Reverse(<<c>> \o s) = Append(Reverse(s), c)
    BY Zenon, <1>1, <1>3, Reversed
  <1>5. Reads(Reverse(<<c>> \o s), base) = base * n + d
    BY Zenon, <1>1, <1>2, <1>3, <1>4, ReadsAppend
  <1>6. /\ <<c>> \o s \in Seq(S) /\ <<c>> \o s # <<>>
        /\ (<<c>> \o s)[Len(<<c>> \o s)] = s[Len(s)]
    BY <1>1, <1>3
  <1>7. base * n + d # 0
    BY Z3
  <1> QED
    BY Zenon, <1>3, <1>5, <1>6, <1>7 DEF Usual, c, S

(* Whatever takes numbers apart into quotients and digits makes their      *)
(* numerals, by induction on the magnitude.                                *)
LEMMA DigitsRead ==
    ASSUME NEW D \in SUBSET Int, NEW base \in 2..16,
           NEW quo \in [D -> D], NEW num \in [D -> 0 .. base - 1], NEW dig,
           \A i \in D : dig[i] = digitsHex[num[i] + 1],
           \A i \in D : Abs(i) = base * Abs(quo[i]) + num[i],
           \A i \in D : quo[i] = 0 \/ Abs(quo[i]) < Abs(i),
           NEW f, TakesApart(f, D, quo, dig)
    PROVE  \A i \in D : Usual(f[i], Abs(i), base)
  <1> DEFINE Wrong(i) == ~Usual(f[i], Abs(i), base)
             T == {n \in Nat : \E i \in D : Abs(i) = n /\ Wrong(i)}
  <1>1. \A i \in D : Abs(i) \in Nat /\ (Abs(i) = 0 <=> i = 0)
    BY Zenon, AbsFacts
  <1>2. T = {}
    <2> SUFFICES ASSUME T # {} PROVE FALSE
      BY Zenon
    <2>1. PICK n \in T : \A m \in T : n <= m
      BY Zenon, LeastNumber
    <2>2. PICK i \in D : Abs(i) = n /\ Wrong(i)
      BY Zenon
    <2> DEFINE c == <<digitsHex[num[i] + 1]>>
    <2>3. f[i] = c \o (IF quo[i] # 0 THEN f[quo[i]] ELSE <<>>)
      BY Zenon DEF TakesApart
    <2>4. quo[i] \in D /\ num[i] \in 0 .. base - 1 /\ Abs(i) = base * Abs(quo[i]) + num[i]
      BY Zenon
    <2>5. CASE quo[i] = 0
      <3>1. f[i] = c
        BY <2>3, <2>5
      <3>2. Abs(i) = num[i]
        BY <2>4, <2>5 DEF Abs
      <3> QED
        BY Zenon, <2>2, <2>4, <3>1, <3>2, OneDigit
    <2>6. CASE quo[i] # 0
      <3>1. Abs(quo[i]) < n /\ Abs(quo[i]) \in Nat \ {0}
        BY Zenon, <1>1, <2>2, <2>4, <2>6
      <3>2. ~(n <= Abs(quo[i]))
        BY <3>1
      <3>3. Usual(f[quo[i]], Abs(quo[i]), base)
        <4>1. Abs(quo[i]) \notin T
          BY Zenon, <2>1, <3>2
        <4> QED
          BY Zenon, <2>4, <3>1, <4>1
      <3>4. f[i] = c \o f[quo[i]]
        BY Zenon, <2>3, <2>6
      <3> QED
        <4>1. Usual(c \o f[quo[i]], base * Abs(quo[i]) + num[i], base)
          BY Zenon, <2>4, <3>1, <3>3, MoreDigits
        <4> QED
          BY Zenon, <2>2, <2>4, <3>4, <4>1
    <2> QED
      BY Zenon, <2>5, <2>6
  <1> QED
    BY Zenon, <1>1, <1>2

(* A turn of convert's loop: with the remainder and the quotient that C++  *)
(* rounds toward zero, the mirrored table gives the right digit also for a *)
(* negative number, and the magnitude decreases, without leaving the range *)
(* of the type.                                                            *)
LEMMA DecimalTurn ==
    ASSUME NEW i \in Int
    PROVE  /\ Quo(i, 10) \in Int /\ Abs(Rem(i, 10)) \in 0 .. 10 - 1
           /\ Abs(i) = 10 * Abs(Quo(i, 10)) + Abs(Rem(i, 10))
           /\ zero(Rem(i, 10)) = digitsHex[Abs(Rem(i, 10)) + 1]
           /\ Quo(i, 10) = 0 \/ Abs(Quo(i, 10)) < Abs(i)
           /\ i >= 0 => Quo(i, 10) \in 0..i
           /\ i < 0 => Quo(i, 10) \in i..0
  <1>1. ASSUME NEW d \in -9..9 PROVE zero(d) = digitsHex[Abs(d) + 1]
    BY SMTT(30) DEF zero, digits, digitsHex, Abs
  <1>2. ASSUME NEW n \in Nat
        PROVE  /\ n % 10 \in 0..9 /\ n \div 10 \in 0..n /\ n = 10 * (n \div 10) + (n % 10)
               /\ n \div 10 = 0 \/ n \div 10 < n
    OBVIOUS
  <1>3. CASE i < 0
    <2> DEFINE n == -i
    <2>1. n \in Nat /\ i = -n /\ Abs(i) = n
      BY <1>3 DEF Abs
    <2>2. Rem(i, 10) = -(n % 10) /\ Quo(i, 10) = -(n \div 10)
      BY <1>3 DEF Rem, Quo
    <2> HIDE DEF n
    <2>3. Rem(i, 10) \in -9..9
      BY <1>2, <2>1, <2>2
    <2> QED
      BY <1>1, <1>2, <1>3, <2>1, <2>2, <2>3 DEF Abs
  <1>4. CASE i >= 0
    <2>1. i \in Nat /\ Rem(i, 10) = i % 10 /\ Quo(i, 10) = i \div 10
      BY <1>4 DEF Rem, Quo
    <2>2. Rem(i, 10) \in -9..9
      BY <1>2, <2>1
    <2> QED
      BY <1>1, <1>2, <1>4, <2>1, <2>2 DEF Abs
  <1> QED
    BY <1>3, <1>4

(* The values of the types: bounded, and closed under moving toward zero.  *)
LEMMA IntegerRange ==
    /\ Value \in SUBSET Int /\ Unsigned \in SUBSET Int
    /\ 2 * MaxInt + 1 \in Nat
    /\ \A i \in Value : /\ Abs(i) <= 2 * MaxInt + 1 /\ Abs(i) \in Nat
                            /\ \A j \in Int : j \in i..0 \/ j \in 0..i => j \in Value
    /\ \A i \in Unsigned : /\ i \in Nat /\ Abs(i) <= 2 * MaxInt + 1 /\ Abs(i) = i
                           /\ 0..i \subseteq Unsigned
  BY LogStreamAssumption DEF Value, Signed, Unsigned, Abs

(* convert's loop ends and leaves the usual decimal digits.                *)
LEMMA DecimalDigits == \A i \in Value : Usual(lsds[i], Abs(i), 10)
  <1> DEFINE quo == [i \in Value |-> Quo(i, 10)]
             dig == [i \in Value |-> zero(Rem(i, 10))]
             num == [i \in Value |-> Abs(Rem(i, 10))]
  <1>1. \A i \in Value : Quo(i, 10) \in Value
    <2> SUFFICES ASSUME NEW i \in Value PROVE Quo(i, 10) \in Value
      BY Zenon
    <2>1. i \in Int
      BY Zenon, IntegerRange
    <2>2. Quo(i, 10) \in Int /\ (i >= 0 => Quo(i, 10) \in 0..i) /\ (i < 0 => Quo(i, 10) \in i..0)
      BY Zenon, <2>1, DecimalTurn
    <2>3. i >= 0 \/ i < 0
      BY <2>1
    <2> QED
      BY Zenon, <2>2, <2>3, IntegerRange
  <1>2. /\ quo \in [Value -> Value] /\ num \in [Value -> 0 .. 10 - 1]
        /\ \A i \in Value : quo[i] = 0 \/ Abs(quo[i]) < Abs(i)
        /\ \A i \in Value : Abs(i) = 10 * Abs(quo[i]) + num[i]
        /\ \A i \in Value : dig[i] = digitsHex[num[i] + 1]
    BY Zenon, <1>1, DecimalTurn, IntegerRange
  <1>3. \A i \in Value : quo[i] = Quo(i, 10) /\ dig[i] = zero(Rem(i, 10))
    BY Zenon
  <1> HIDE DEF quo, dig, num
  <1>4. PICK g : TakesApart(g, Value, quo, dig)
    BY Zenon, <1>2, IntegerRange, DigitsExist
  <1>5. g = [i \in Value |->
               <<zero(Rem(i, 10))>> \o (IF More(Quo(i, 10)) THEN g[Quo(i, 10)] ELSE <<>>)]
    BY Zenon, <1>3, <1>4 DEF TakesApart, More
  <1>6. lsds = [i \in Value |->
               <<zero(Rem(i, 10))>> \o (IF More(Quo(i, 10)) THEN lsds[Quo(i, 10)] ELSE <<>>)]
    BY Zenon, <1>5 DEF lsds
  <1>7. TakesApart(lsds, Value, quo, dig)
    BY Zenon, <1>3, <1>6 DEF TakesApart, More
  <1>8. 10 \in 2..16
    OBVIOUS
  <1> QED
    BY Zenon, <1>2, <1>7, <1>8, IntegerRange, DigitsRead

(* A turn of convertHex's loop.                                            *)
LEMMA HexTurn ==
    ASSUME NEW n \in Nat
    PROVE  /\ n % 16 \in 0 .. 16 - 1 /\ n \div 16 \in 0..n /\ n = 16 * (n \div 16) + (n % 16)
           /\ n \div 16 = 0 \/ n \div 16 < n
           /\ Abs(n) = n /\ Abs(n \div 16) = n \div 16
  <1>1. /\ n % 16 \in 0 .. 16 - 1 /\ n \div 16 \in 0..n /\ n = 16 * (n \div 16) + (n % 16)
        /\ n \div 16 = 0 \/ n \div 16 < n
    OBVIOUS
  <1>2. \A k \in Nat : Abs(k) = k
    BY DEF Abs
  <1>3. n \div 16 \in Nat
    BY <1>1
  <1> QED
    BY Zenon, <1>1, <1>2, <1>3

(* convertHex's loop ends and leaves the usual hexadecimal digits.         *)
LEMMA HexDigits == \A i \in Unsigned : Usual(lsdsHex[i], Abs(i), 16)
  <1> DEFINE quo == [i \in Unsigned |-> i \div 16]
             dig == [i \in Unsigned |-> digitsHex[(i % 16) + 1]]
             num == [i \in Unsigned |-> i % 16]
  <1>1. \A i \in Unsigned : i \div 16 \in Unsigned
    BY Zenon, HexTurn, IntegerRange
  <1>2. /\ quo \in [Unsigned -> Unsigned] /\ num \in [Unsigned -> 0 .. 16 - 1]
        /\ \A i \in Unsigned : quo[i] = 0 \/ Abs(quo[i]) < Abs(i)
        /\ \A i \in Unsigned : Abs(i) = 16 * Abs(quo[i]) + num[i]
        /\ \A i \in Unsigned : dig[i] = digitsHex[num[i] + 1]
    BY Zenon, <1>1, HexTurn, IntegerRange
  <1>3. \A i \in Unsigned : quo[i] = i \div 16 /\ dig[i] = digitsHex[(i % 16) + 1]
    BY Zenon
  <1> HIDE DEF quo, dig, num
  <1>4. PICK g : TakesApart(g, Unsigned, quo, dig)
    BY Zenon, <1>2, IntegerRange, DigitsExist
  <1>5. g = [i \in Unsigned |->
               <<digitsHex[(i % 16) + 1]>> \o (IF More(i \div 16) THEN g[i \div 16] ELSE <<>>)]
    BY Zenon, <1>3, <1>4 DEF TakesApart, More
  <1>6. lsdsHex = [i \in Unsigned |->
               <<digitsHex[(i % 16) + 1]>>
                 \o (IF More(i \div 16) THEN lsdsHex[i \div 16] ELSE <<>>)]
    BY Zenon, <1>5 DEF lsdsHex
  <1>7. TakesApart(lsdsHex, Unsigned, quo, dig)
    BY Zenon, <1>3, <1>6 DEF TakesApart, More
  <1>8. 16 \in 2..16
    OBVIOUS
  <1> QED
    BY Zenon, <1>2, <1>7, <1>8, IntegerRange, DigitsRead

(* Reversed, such digits are a plain numeral.                              *)
LEMMA UsualIsPlain ==
    ASSUME NEW base \in 2..16, NEW n \in Nat, NEW s, Usual(s, n, base)
    PROVE  Plain(Reverse(s), base) /\ Reads(Reverse(s), base) = n
  <1> DEFINE S == Digit(base)
             text == Reverse(s)
  <1>1. /\ s \in Seq(S) /\ s # <<>> /\ Reads(text, base) = n
        /\ (n # 0 => s[Len(s)] # "0") /\ (n = 0 => Len(s) = 1)
    BY Zenon DEF Usual
  <1>2. "0" \in S
    BY DEF Digit, digitsHex
  <1>3. /\ text \in Seq(S) /\ Len(text) = Len(s)
        /\ \A i \in 1 .. Len(s) : text[i] = s[Len(s) - i + 1]
    BY Zenon, <1>1, <1>2, Reversed
  <1>4. Len(s) \in Nat /\ Len(s) # 0
    BY Zenon, <1>1, LenProperties, EmptySeq
  <1>5. 1 \in 1 .. Len(s) /\ Len(s) - 1 + 1 = Len(s)
    BY <1>4
  <1>6. text[1] = s[Len(s)]
    BY Zenon, <1>3, <1>5
  <1>7. Len(text) > 1 => text[1] # "0"
    <2> SUFFICES ASSUME Len(text) > 1 PROVE n # 0
      BY Zenon, <1>1, <1>6
    <2>1. \A k \in Nat : k > 1 => k # 1
      OBVIOUS
    <2> QED
      BY Zenon, <2>1, <1>1, <1>3, <1>4
  <1>8. \A i \in DOMAIN text : text[i] \in S
    BY Zenon, <1>3, ElementOfSeq, LenProperties
  <1>9. \A i \in DOMAIN text : \E k \in 0 .. base - 1 : text[i] = digitsHex[k + 1]
    BY Zenon, <1>8 DEF Digit
  <1> QED
    BY Zenon, <1>1, <1>7, <1>9 DEF Plain

(* Module LogStream, DecimalsAreExact and PointersAreExact: convert and    *)
(* convertHex give every value of every integer type its usual numeral,    *)
(* the most negative one included, whatever the width.                     *)
LEMMA NumeralsExact == DecimalsAreExact /\ PointersAreExact
  <1>1. ASSUME NEW v \in Value
        PROVE  LET text == convert(v)
                   body == IF v < 0 THEN Tail(text) ELSE text
               IN  /\ v < 0 => Head(text) = "-"
                   /\ Plain(body, 10)
                   /\ Reads(body, 10) = (IF v < 0 THEN -v ELSE v)
    <2> DEFINE s == lsds[v]
               body == IF v < 0 THEN Tail(convert(v)) ELSE convert(v)
    <2>1. Usual(s, Abs(v), 10) /\ Abs(v) \in Nat /\ v \in Int
      BY Zenon, DecimalDigits, IntegerRange
    <2>2. 10 \in 2..16
      OBVIOUS
    <2>3. Plain(Reverse(s), 10) /\ Reads(Reverse(s), 10) = Abs(v)
      BY Zenon, <2>1, <2>2, UsualIsPlain
    <2> DEFINE S == Digit(10) \cup {"-"}
    <2>4. s \in Seq(Digit(10)) /\ Digit(10) \subseteq S /\ "-" \in S
      BY Zenon, <2>1 DEF Usual
    <2>5. s \in Seq(S)
      BY <2>4
    <2> HIDE DEF s, S
    <2>6. CASE v < 0
      <3>1. s \o <<"-">> = Append(s, "-")
        BY Zenon, <2>4, <2>5, AppendIsConcat
      <3>2. convert(v) = <<"-">> \o Reverse(s) /\ Reverse(s) \in Seq(S)
        BY Zenon, <2>4, <2>5, <2>6, <3>1, Reversed DEF convert, s
      <3>3. Head(convert(v)) = "-" /\ Tail(convert(v)) = Reverse(s)
        BY <3>2
      <3> QED
        BY Zenon, <2>3, <2>6, <3>3 DEF Abs
    <2>7. CASE ~(v < 0)
      <3>1. s \o <<>> = s
        BY Zenon, <2>5, ConcatEmptySeq
      <3>2. convert(v) = Reverse(s)
        BY Zenon, <2>7, <3>1 DEF convert, s
      <3> QED
        BY Zenon, <2>3, <2>7, <3>2 DEF Abs
    <2> QED
      BY Zenon, <2>6, <2>7
  <1>2. ASSUME NEW a \in Unsigned
        PROVE  Plain(convertHex(a), 16) /\ Reads(convertHex(a), 16) = a
    <2>1. 16 \in 2..16
      OBVIOUS
    <2>2. Usual(lsdsHex[a], a, 16) /\ a \in Nat
      BY Zenon, HexDigits, IntegerRange
    <2> QED
      BY Zenon, <2>1, <2>2, UsualIsPlain DEF convertHex
  <1> QED
    BY Zenon, <1>1, <1>2 DEF DecimalsAreExact, PointersAreExact

(* Digits are characters.                                                  *)
LEMMA DigitsAreChars == Digit(10) \subseteq Char /\ Digit(16) \subseteq Char /\ "0" \in Char
  <1>1. DOMAIN digitsHex = 1..16 /\ digitsHex[1] = "0"
    BY DEF digitsHex
  <1>2. \A n \in 0..15 : n + 1 \in 1..16
    OBVIOUS
  <1>3. \A n \in 0..15 : digitsHex[n + 1] \in Char
    BY Zenon, <1>1, <1>2, CharAssumption DEF Range
  <1>4. /\ \A n \in 0 .. 10 - 1 : n \in 0..15
        /\ \A n \in 0 .. 16 - 1 : n \in 0..15
        /\ 1 \in 1..16
    OBVIOUS
  <1>5. Digit(10) \subseteq Char /\ Digit(16) \subseteq Char
    BY Zenon, <1>3, <1>4 DEF Digit
  <1> QED
    BY Zenon, <1>1, <1>4, <1>5, CharAssumption DEF Range

(* Numerals are text.                                                      *)
LEMMA NumeralText ==
    /\ \A v \in Value : convert(v) \in Seq(Char)
    /\ \A a \in Unsigned : convertHex(a) \in Seq(Char)
  <1>1. ASSUME NEW v \in Value PROVE convert(v) \in Seq(Char)
    <2> DEFINE s == lsds[v]
               sign == IF v < 0 THEN <<"-">> ELSE <<>>
    <2>1. s \in Seq(Digit(10))
      BY Zenon, DecimalDigits DEF Usual
    <2>2. s \in Seq(Char)
      BY <2>1, DigitsAreChars
    <2>3. "-" \in Char
      BY Zenon, CharAssumption
    <2>4. sign \in Seq(Char)
      BY <2>3
    <2> HIDE DEF s, sign
    <2>5. s \o sign \in Seq(Char)
      BY Zenon, <2>2, <2>4, ConcatProperties
    <2> QED
      BY Zenon, <2>3, <2>5, Reversed DEF convert, s, sign
  <1>2. ASSUME NEW a \in Unsigned PROVE convertHex(a) \in Seq(Char)
    <2>1. lsdsHex[a] \in Seq(Digit(16))
      BY Zenon, <1>2, HexDigits DEF Usual
    <2>2. lsdsHex[a] \in Seq(Char)
      BY <2>1, DigitsAreChars
    <2>3. "-" \in Char
      BY Zenon, CharAssumption
    <2> QED
      BY Zenon, <2>2, <2>3, Reversed DEF convertHex
  <1> QED
    BY Zenon, <1>1, <1>2

-----------------------------------------------------------------------------
(* LogStream: what fits into the buffer.                                   *)

(* A stream's fields.                                                      *)
LEMMA StreamFields ==
    ASSUME NEW s \in Stream
    PROVE  /\ s.text \in Seq(Char) /\ s.meant \in Seq(Char)
           /\ s.failed \in BOOLEAN /\ s.cut \in BOOLEAN /\ s.over \in BOOLEAN
  BY SMT DEF Stream

(* A record of such fields is a stream.                                    *)
LEMMA StreamOf ==
    ASSUME NEW a \in Seq(Char), NEW b \in Seq(Char), NEW c \in BOOLEAN, NEW d \in BOOLEAN,
           NEW e \in BOOLEAN
    PROVE  /\ [text |-> a, meant |-> b, failed |-> c, cut |-> d, over |-> e] \in Stream
           /\ [text |-> a, meant |-> b, failed |-> c, cut |-> d, over |-> e].text = a
           /\ [text |-> a, meant |-> b, failed |-> c, cut |-> d, over |-> e].meant = b
           /\ [text |-> a, meant |-> b, failed |-> c, cut |-> d, over |-> e].failed = c
           /\ [text |-> a, meant |-> b, failed |-> c, cut |-> d, over |-> e].cut = d
           /\ [text |-> a, meant |-> b, failed |-> c, cut |-> d, over |-> e].over = e
  BY Zenon DEF Stream

(* What a pointer puts on the stream.                                      *)
LEMMA PointerText ==
    ASSUME NEW h \in Seq(Char)
    PROVE  <<"0", "x">> \o h \in Seq(Char) /\ Len(<<"0", "x">> \o h) = 2 + Len(h)
  <1>1. "0" \in Char /\ "x" \in Char
    BY Zenon, DigitsAreChars, CharAssumption
  <1> DEFINE p == <<"0", "x">>
  <1>3. p \in Seq(Char) /\ Len(p) = 2
    BY SMT, <1>1
  <1> HIDE DEF p
  <1>4. p \o h \in Seq(Char) /\ Len(p \o h) = Len(p) + Len(h)
    BY Zenon, <1>3, ConcatProperties
  <1> QED
    BY <1>3, <1>4 DEF p

(* What an item puts on the stream is text, and is what the item stands    *)
(* for unless snprintf cuts it; a number that is not cut finds room in     *)
(* kMaxNumericSize characters, with the NUL that may end it.               *)
LEMMA ItemFacts ==
    ASSUME NEW x \in Item
    PROVE  /\ TextOf(x) \in Seq(Char) /\ Meant(x) \in Seq(Char)
           /\ ~Cuts(x) => TextOf(x) = Meant(x)
           /\ x.kind # "string" /\ ~Cuts(x) => Extent(x) <= kMaxNumericSize
           /\ x.kind = "string" => Extent(x) = Len(TextOf(x))
           /\ Extent(x) \in Nat /\ Len(TextOf(x)) <= Extent(x)
  <1>1. CASE x \in [kind : {"string"}, text : Seq(Char)]
    <2>1. TextOf(x) = x.text /\ Meant(x) = x.text /\ x.text \in Seq(Char) /\ x.kind = "string"
      BY <1>1 DEF TextOf, Meant
    <2>2. ~EndsInNul(x)
      BY <2>1 DEF EndsInNul
    <2>3. Len(TextOf(x)) \in Nat
      BY Zenon, <2>1, LenProperties
    <2>4. Extent(x) = Len(TextOf(x))
      BY <2>2, <2>3 DEF Extent
    <2>5. Len(TextOf(x)) <= Extent(x)
      BY <2>3, <2>4
    <2> QED
      BY Zenon, <2>1, <2>3, <2>4, <2>5
  <1>2. CASE x \in [kind : {"integer"}, value : Value]
    <2>1. /\ TextOf(x) = convert(x.value) /\ Meant(x) = TextOf(x) /\ x.value \in Value
          /\ x.kind = "integer"
      BY <1>2 DEF TextOf, Meant
    <2>2. ~EndsInNul(x) /\ x.kind # "string"
      BY <2>1 DEF EndsInNul
    <2>3. TextOf(x) \in Seq(Char) /\ Len(TextOf(x)) <= kMaxNumericSize
      BY Zenon, <2>1, NumeralAssumption, NumeralText
    <2>4. Len(TextOf(x)) \in Nat
      BY Zenon, <2>3, LenProperties
    <2>5. Extent(x) = Len(TextOf(x)) /\ Len(TextOf(x)) <= Len(TextOf(x))
      BY <2>2, <2>4 DEF Extent
    <2> QED
      BY Zenon, <2>1, <2>2, <2>3, <2>4, <2>5
  <1>3. CASE x \in [kind : {"double"}, length : Nat]
    <2>1. TextOf(x) = [i \in 1 .. x.length |-> IF i < kMaxNumericSize THEN "d" ELSE Junk]
      BY <1>3 DEF TextOf
    <2>2. Meant(x) = [i \in 1 .. x.length |-> "d"]
      BY <1>3 DEF Meant
    <2>3. x.length \in Nat /\ x.kind = "double"
      BY <1>3
    <2>a. TextOf(x) \in [1 .. x.length -> Char] /\ Meant(x) \in [1 .. x.length -> Char]
      BY <2>1, <2>2, <2>3, CharAssumption
    <2>4. TextOf(x) \in Seq(Char) /\ Meant(x) \in Seq(Char) /\ Len(TextOf(x)) = x.length
      BY Zenon, <2>a, <2>3, IsSequence
    <2>5. ~Cuts(x) => x.length < kMaxNumericSize
      BY <2>3, LogStreamAssumption DEF Cuts
    <2>6. ~Cuts(x) => TextOf(x) = Meant(x)
      BY <2>1, <2>2, <2>3, <2>5, LogStreamAssumption
    <2>7. /\ ~Cuts(x) => Extent(x) <= kMaxNumericSize
          /\ Extent(x) \in Nat /\ Len(TextOf(x)) <= Extent(x)
      BY <2>3, <2>4, <2>5, LogStreamAssumption DEF Extent
    <2>8. x.kind # "string"
      BY <2>3
    <2> QED
      BY Zenon, <2>4, <2>6, <2>7, <2>8
  <1>4. CASE x \in [kind : {"pointer"}, address : Unsigned]
    <2>1. TextOf(x) = <<"0", "x">> \o convertHex(x.address) /\ x.address \in Unsigned
      BY <1>4 DEF TextOf
    <2>2. Meant(x) = TextOf(x)
      BY <1>4 DEF Meant
    <2>3. convertHex(x.address) \in Seq(Char) /\ Len(convertHex(x.address)) + 3 <= kMaxNumericSize
      BY Zenon, <2>1, NumeralAssumption, NumeralText
    <2>6. TextOf(x) \in Seq(Char) /\ Len(TextOf(x)) = 2 + Len(convertHex(x.address))
      BY Zenon, <2>1, <2>3, PointerText
    <2>7. Len(convertHex(x.address)) \in Nat
      BY Zenon, <2>3, LenProperties
    <2>8. /\ Extent(x) <= kMaxNumericSize /\ Extent(x) \in Nat /\ Len(TextOf(x)) <= Extent(x)
      BY <2>3, <2>6, <2>7, LogStreamAssumption DEF Extent
    <2>9. x.kind # "string"
      BY <1>4
    <2> QED
      BY Zenon, <2>2, <2>6, <2>8, <2>9
  <1> QED
    BY Zenon, <1>1, <1>2, <1>3, <1>4 DEF Item

(* A stream in order: a short one holds what it stands for and none of its *)
(* assertions has failed, and none is past its end before an assertion has *)
(* failed or a double was cut.                                             *)
Sound(s) ==
    /\ Short(s) => s.text = s.meant /\ ~s.failed
    /\ ~s.failed /\ ~s.cut => Len(s.text) <= SIZE /\ ~s.over

(* operator<< leaves a stream in order: what a short one still has free is *)
(* enough for the tests of append and of the number operators, and         *)
(* whatever passes these tests fits.                                       *)
LEMMA OneMore ==
    ASSUME NEW s \in Stream, Sound(s), NEW x \in Item
    PROVE  s ++ x \in Stream /\ Sound(s ++ x)
  <1> SUFFICES Streamed(s, x) \in Stream /\ Sound(Streamed(s, x))
    BY Zenon DEF ++
  <1> DEFINE text == Put(s.text, x)
             meant == s.meant \o Meant(x)
             failed == s.failed \/ Asserts(s.text, x)
             cut == s.cut \/ Cuts(x)
             over == s.over \/ Overruns(s.text, x)
             r == Streamed(s, x)
  <1>a. r = [text |-> text, meant |-> meant, failed |-> failed, cut |-> cut, over |-> over]
    BY Zenon DEF Streamed
  <1>c. failed \in BOOLEAN
    BY Zenon
  <1>d. cut \in BOOLEAN /\ over \in BOOLEAN
    BY Zenon
  <1>e. /\ text = IF Writes(s.text, x) THEN s.text \o TextOf(x) ELSE s.text
        /\ meant = s.meant \o Meant(x)
        /\ failed = (s.failed \/ Asserts(s.text, x)) /\ cut = (s.cut \/ Cuts(x))
        /\ over = (s.over \/ (Writes(s.text, x) /\ Len(s.text) + Extent(x) > SIZE))
    BY Zenon DEF Put, Overruns
  <1> HIDE DEF text, meant, failed, cut, over, r
  <1>1. /\ TextOf(x) \in Seq(Char) /\ Meant(x) \in Seq(Char)
        /\ ~Cuts(x) => TextOf(x) = Meant(x)
        /\ x.kind # "string" /\ ~Cuts(x) => Extent(x) <= kMaxNumericSize
        /\ x.kind = "string" => Extent(x) = Len(TextOf(x))
        /\ Extent(x) \in Nat /\ Len(TextOf(x)) <= Extent(x)
    BY Zenon, ItemFacts
  <1>2. /\ s.text \in Seq(Char) /\ s.meant \in Seq(Char)
        /\ s.failed \in BOOLEAN /\ s.cut \in BOOLEAN /\ s.over \in BOOLEAN
    BY Zenon, StreamFields
  <1>4. text = s.text \o TextOf(x) \/ text = s.text
    BY Zenon, <1>e
  <1>5. text \in Seq(Char) /\ meant \in Seq(Char)
    BY Zenon, <1>1, <1>2, <1>4, <1>e, ConcatProperties
  <1>7. r \in Stream
    BY Zenon, <1>5, <1>c, <1>d, <1>a, StreamOf
  <1>3. r.text = text /\ r.meant = meant /\ r.failed = failed /\ r.cut = cut /\ r.over = over
    BY Zenon, <1>5, <1>c, <1>d, <1>a, StreamOf
  <1>8. /\ Len(s.meant) \in Nat /\ Len(Meant(x)) \in Nat
        /\ Len(meant) = Len(s.meant) + Len(Meant(x))
        /\ Len(s.text) \in Nat /\ Len(TextOf(x)) \in Nat
        /\ Len(s.text \o TextOf(x)) = Len(s.text) + Len(TextOf(x))
    BY Zenon, <1>1, <1>2, <1>e, ConcatProperties, LenProperties
  <1>9. x.kind = "string" => TextOf(x) = x.text
    BY DEF TextOf
  <1>10. ASSUME Short(r) PROVE r.text = r.meant /\ ~r.failed
    <2>1. Len(meant) + kMaxNumericSize <= SIZE /\ ~s.cut /\ ~Cuts(x)
      BY Zenon, <1>10, <1>3, <1>e DEF Short
    <2>2. Short(s)
      BY <2>1, <1>8, LogStreamAssumption DEF Short
    <2>3. s.text = s.meant /\ ~s.failed
      BY Zenon, <2>2 DEF Sound
    <2>4. Fits(s.text, x)
      <3>1. CASE x.kind = "string"
        <4>1. SIZE - Len(s.text) >= Len(x.text)
          <5>1. TextOf(x) = x.text /\ Meant(x) = x.text
            BY Zenon, <3>1, <2>1, <1>1, <1>9
          <5>2. Len(x.text) \in Nat /\ Len(meant) = Len(s.text) + Len(x.text)
            BY Zenon, <5>1, <2>3, <1>8
          <5>3. ASSUME NEW a \in Nat, NEW b \in Nat, NEW k \in Nat, a + b + k <= SIZE
                PROVE  SIZE - a >= b
            BY <5>3, LogStreamAssumption
          <5>4. kMaxNumericSize \in Nat /\ Len(s.text) + Len(x.text) + kMaxNumericSize <= SIZE
            BY Zenon, <5>2, <2>1, LogStreamAssumption
          <5> QED
            BY Zenon, <5>2, <5>3, <5>4, <1>8
        <4> QED
          BY Zenon, <4>1, <3>1 DEF Fits, StringFits, avail
      <3>2. CASE x.kind # "string"
        <4>1. SIZE - Len(s.text) >= kMaxNumericSize
          BY <2>1, <2>3, <1>8, LogStreamAssumption
        <4> QED
          BY Zenon, <4>1, <3>2 DEF Fits, NumberFits, avail
      <3> QED
        BY Zenon, <3>1, <3>2
    <2>5. text = meant
      BY Zenon, <2>1, <2>3, <2>4, <1>1, <1>e DEF Writes
    <2> QED
      BY Zenon, <2>3, <2>4, <2>5, <1>3, <1>e DEF Asserts
  <1>11. ASSUME ~r.failed, ~r.cut PROVE Len(r.text) <= SIZE /\ ~r.over
    <2>1. ~s.failed /\ ~s.cut /\ ~Asserts(s.text, x) /\ ~Cuts(x)
      BY Zenon, <1>11, <1>3, <1>e
    <2>2. Len(s.text) <= SIZE /\ ~s.over
      BY Zenon, <2>1 DEF Sound
    <2>3. CASE Fits(s.text, x)
      <3>1. Len(s.text) + Extent(x) <= SIZE
        <4>1. CASE x.kind = "string"
          <5>1. SIZE - Len(s.text) < 0 \/ SIZE - Len(s.text) >= Len(TextOf(x))
            BY Zenon, <2>3, <4>1, <1>9 DEF Fits, StringFits, avail
          <5>2. Extent(x) = Len(TextOf(x))
            BY Zenon, <4>1, <1>1
          <5> QED
            BY <5>1, <5>2, <2>2, <1>8, LogStreamAssumption
        <4>2. CASE x.kind # "string"
          <5>1. SIZE - Len(s.text) >= kMaxNumericSize
            BY Zenon, <2>3, <4>2 DEF Fits, NumberFits, avail
          <5>2. Extent(x) <= kMaxNumericSize /\ Extent(x) \in Nat
            BY Zenon, <4>2, <2>1, <1>1
          <5> QED
            BY <5>1, <5>2, <1>8, LogStreamAssumption
        <4> QED
          BY Zenon, <4>1, <4>2
      <3>2. Len(s.text) + Len(TextOf(x)) <= SIZE /\ ~(Len(s.text) + Extent(x) > SIZE)
        BY <3>1, <1>1, <1>8, LogStreamAssumption
      <3>3. text = s.text \o TextOf(x)
        BY Zenon, <2>3, <1>e DEF Writes
      <3> QED
        BY Zenon, <3>2, <3>3, <2>2, <1>3, <1>8, <1>e
    <2>4. CASE ~Fits(s.text, x)
      <3>1. x.kind = "pointer"
        BY Zenon, <2>1, <2>4 DEF Asserts
      <3>2. ~Writes(s.text, x)
        BY <2>4, <3>1 DEF Writes
      <3> QED
        BY Zenon, <3>2, <2>2, <1>3, <1>e
    <2> QED
      BY Zenon, <2>3, <2>4
  <1> QED
    BY Zenon, <1>7, <1>10, <1>11 DEF Sound, r

(* A literal of the program is an item.                                    *)
LEMMA LiteralIsItem ==
    ASSUME NEW c \in Char
    PROVE  Str(<<c>>) \in Item
  <1>1. <<c>> \in Seq(Char)
    BY SMT
  <1> QED
    BY Zenon, <1>1 DEF Item, Str

(* So is an integer.                                                       *)
LEMMA IntegerIsItem ==
    ASSUME NEW v \in Signed
    PROVE  Integer(v) \in Item
  BY Zenon DEF Item, Integer, Value

(* A stream in order.                                                      *)
Good(s) == s \in Stream /\ Sound(s)

(* An empty stream is in order.                                            *)
LEMMA GoodNew == Good(NewStream) /\ ~NewStream.failed
  <1>1. <<>> \in Seq(Char) /\ Len(<<>>) = 0
    BY Zenon, EmptySeq
  <1>2. FALSE \in BOOLEAN
    BY Zenon
  <1>3. /\ NewStream \in Stream
        /\ NewStream.text = <<>> /\ NewStream.meant = <<>>
        /\ NewStream.failed = FALSE /\ NewStream.cut = FALSE /\ NewStream.over = FALSE
    BY Zenon, <1>1, <1>2, StreamOf DEF NewStream
  <1>4. 0 <= SIZE
    BY LogStreamAssumption
  <1> QED
    BY Zenon, <1>1, <1>3, <1>4 DEF Good, Sound

(* It stays so when a literal is streamed,                                 *)
LEMMA GoodLiteral ==
    ASSUME NEW s, Good(s), NEW c \in Char
    PROVE  Good(s ++ Str(<<c>>))
  BY Zenon, OneMore, LiteralIsItem DEF Good

(* or an integer,                                                          *)
LEMMA GoodInteger ==
    ASSUME NEW s, Good(s), NEW v \in Signed
    PROVE  Good(s ++ Integer(v))
  BY Zenon, OneMore, IntegerIsItem DEF Good

(* by the constructor of Logger,                                           *)
LEMMA GoodOpening ==
    ASSUME NEW level \in 0 .. NUM_LOG_LEVELS - 1, NEW tid \in Signed
    PROVE  Good(Opening(level, tid))
  <1> DEFINE name == log_level_name[level + 1]
             style == log_level_font_style_start[level + 1]
             s1 == NewStream ++ Str(<<style>>)
             s2 == s1 ++ Str(<<"time ">>)
             s3 == s2 ++ Integer(tid)
             s4 == s3 ++ Str(<<" ">>)
             s5 == s4 ++ Str(<<name>>)
             s6 == s5 ++ Str(<<" ">>)
             s7 == s6 ++ Str(<<"func">>)
             s8 == s7 ++ Str(<<" ">>)
  <1>1. level + 1 \in 1..6
    BY DEF NUM_LOG_LEVELS
  <1>2. DOMAIN log_level_name = 1..6 /\ DOMAIN log_level_font_style_start = 1..6
    BY DEF log_level_name, log_level_font_style_start
  <1>3. name \in Char /\ style \in Char
    BY Zenon, <1>1, <1>2, LiteralAssumption DEF Range
  <1>4. "time " \in Char /\ " " \in Char /\ "func" \in Char
    BY Zenon, LiteralAssumption
  <1>5. Opening(level, tid) = s8
    BY Zenon DEF Opening, Impl, FormatFileTime
  <1> HIDE DEF name, style
  <1>6. Good(s1)
    BY Zenon, <1>3, GoodNew, GoodLiteral
  <1> HIDE DEF s1
  <1>7. Good(s2)
    BY Zenon, <1>4, <1>6, GoodLiteral
  <1> HIDE DEF s2
  <1>8. Good(s3)
    BY Zenon, <1>7, GoodInteger
  <1> HIDE DEF s3
  <1>9. Good(s4)
    BY Zenon, <1>4, <1>8, GoodLiteral
  <1> HIDE DEF s4
  <1>10. Good(s5)
    BY Zenon, <1>3, <1>9, GoodLiteral
  <1> HIDE DEF s5
  <1>11. Good(s6)
    BY Zenon, <1>4, <1>10, GoodLiteral
  <1> HIDE DEF s6
  <1>12. Good(s7)
    BY Zenon, <1>4, <1>11, GoodLiteral
  <1> HIDE DEF s7
  <1>13. Good(s8)
    BY Zenon, <1>4, <1>12, GoodLiteral
  <1> QED
    BY Zenon, <1>5, <1>13

(* and by Finish.                                                          *)
LEMMA GoodFinish ==
    ASSUME NEW s, Good(s)
    PROVE  Good(Finish(s))
  <1> DEFINE s1 == s ++ Str(<<" - ">>)
             s2 == s1 ++ Str(<<"file">>)
             s3 == s2 ++ Str(<<":">>)
             s4 == s3 ++ Integer(LineNumber)
             s5 == s4 ++ Str(<<"\n">>)
             s6 == s5 ++ Str(<<"reset">>)
  <1>1. {" - ", "file", ":", "\n", "reset"} \subseteq Char /\ LineNumber \in Signed
    BY Zenon, LiteralAssumption, LoggerAssumption
  <1>2. Finish(s) = s6
    BY Zenon DEF Finish
  <1>3. Good(s1)
    BY Zenon, <1>1, GoodLiteral
  <1> HIDE DEF s1
  <1>4. Good(s2)
    BY Zenon, <1>1, <1>3, GoodLiteral
  <1> HIDE DEF s2
  <1>5. Good(s3)
    BY Zenon, <1>1, <1>4, GoodLiteral
  <1> HIDE DEF s3
  <1>6. Good(s4)
    BY Zenon, <1>1, <1>5, GoodInteger
  <1> HIDE DEF s4
  <1>7. Good(s5)
    BY Zenon, <1>1, <1>6, GoodLiteral
  <1> HIDE DEF s5
  <1>8. Good(s6)
    BY Zenon, <1>1, <1>7, GoodLiteral
  <1> QED
    BY Zenon, <1>2, <1>8

(* The line of a LOG_FATAL statement: handed to stdio by fwrite, in the    *)
(* file from fflush on, and still there when its text has become an        *)
(* exception.                                                              *)
FatalKept(t) ==
    /\ pc[t] \in {"fflush", "throw"} => impl_[t].level = FATAL
    /\ process = "running" /\ pc[t] = "fflush" => impl_[t] \in Range(file) \cup Range(stdio)
    /\ pc[t] = "throw" => impl_[t] \in Range(file)
    /\ exception[t] # <<>> =>
          \E line \in Range(file) : line.level = FATAL /\ line.stream.text = exception[t]

(* With assertions the first failure of a thread's stream ends the process.*)
Noticed(t) == ~ndebug /\ impl_[t].stream.failed => process = "asserted"

(* The inductive invariant. The streams are in order, those of the         *)
(* statements being built as well as those written. A thread caches no id  *)
(* but its own.                                                            *)
LoggerInv ==
    /\ TypeOK
    /\ \A t \in Threads : t_cachedTid[t] \in {0, t}
    /\ \A t \in Threads : Good(impl_[t].stream)
    /\ \A line \in Range(file) \cup Range(stdio) : Good(line.stream)
    /\ \A t \in Threads : Noticed(t)
    /\ \A t \in Threads : FatalKept(t)

(* No Logger at all.                                                       *)
LEMMA NoneIsLine ==
    None \in Line /\ None.stream = NewStream /\ Good(None.stream) /\ ~None.stream.failed
  <1>1. NewStream \in Stream /\ 0 \in 0..NUM_LOG_LEVELS /\ 0 \in Nat
    BY GoodNew DEF Good, NUM_LOG_LEVELS
  <1> QED
    BY Zenon, <1>1, GoodNew DEF None, Line

(* While the process runs no failure is left unnoticed, and a step that    *)
(* streams nothing brings none.                                            *)
LEMMA NoticedKeeps ==
    ASSUME LoggerInv, process = "running", ndebug' = ndebug,
           \A u \in Threads : \/ impl_'[u] = impl_[u]
                              \/ impl_'[u].stream.failed /\ ~ndebug => process' = "asserted"
    PROVE  \A u \in Threads : Noticed(u)'
  <1>1. process # "asserted"
    OBVIOUS
  <1> QED
    BY Zenon, <1>1 DEF LoggerInv, Noticed

(* The elements of an extended sequence.                                   *)
LEMMA RangeOfAppend ==
    ASSUME NEW S, NEW s \in Seq(S), NEW x \in S
    PROVE  Range(Append(s, x)) = Range(s) \cup {x}
  <1> DEFINE y == <<x>>
  <1>1. y \in Seq(S) /\ Range(y) = {x}
    BY DEF Range
  <1>2. Append(s, x) = s \o y
    BY Zenon, AppendIsConcat
  <1> HIDE DEF y
  <1>3. Range(s \o y) = Range(s) \cup Range(y)
    BY <1>1, RangeConcatenation
  <1> QED
    BY Zenon, <1>1, <1>2, <1>3

(* It holds when the process starts.                                       *)
LEMMA LoggerInit == Init => LoggerInv
  <1> SUFFICES ASSUME Init PROVE LoggerInv
    OBVIOUS
  <1>1. <<>> \in Seq(Char) /\ <<>> \in Seq(Line) /\ Range(<<>>) = {}
    BY DEF Range
  <1>2. None \in Line /\ None.stream = NewStream
    BY Zenon, NoneIsLine
  <1>3. NUM_LOG_LEVELS \in 0..NUM_LOG_LEVELS
    BY DEF NUM_LOG_LEVELS
  <1>4. TypeOK
    BY Zenon, <1>1, <1>2, <1>3 DEF Init, TypeOK
  <1>5. \A t \in Threads : /\ t_cachedTid[t] = 0 /\ impl_[t] = None
                           /\ pc[t] = "idle" /\ exception[t] = <<>>
    BY Zenon DEF Init
  <1>6. process = "running" /\ file = <<>> /\ stdio = <<>>
    BY Zenon DEF Init
  <1>7. \A t \in Threads : FatalKept(t) /\ Noticed(t)
    BY Zenon, <1>5, NoneIsLine DEF FatalKept, Noticed
  <1> QED
    BY Zenon, <1>1, <1>2, <1>4, <1>5, <1>6, <1>7, GoodNew DEF LoggerInv

(* The steps that stream: what a thread puts into its own buffer leaves    *)
(* the lines of the others alone.                                          *)
LEMMA StreamsKeeps ==
    ASSUME LoggerInv, NEW t \in Threads, NEW impl \in Line, Good(impl.stream),
           NEW from \in {"idle", "streaming"}, NEW to \in {"streaming", "fwrite"},
           Step(t, from, to), Streams(t, impl),
           t_cachedTid' \in [Threads -> Threads \cup {0}],
           \A u \in Threads : t_cachedTid'[u] \in {0, u}
    PROVE  LoggerInv'
  <1>1. /\ process = "running"
        /\ pc' = [pc EXCEPT ![t] = to] /\ pc[t] \in {"idle", "streaming"}
        /\ impl_' = [impl_ EXCEPT ![t] = impl]
        /\ UNCHANGED <<ndebug, g_log_level, exception, file>>
    BY Zenon DEF Step, Streams
  <1>2. \/ ~ndebug /\ impl.stream.failed /\ process' = "asserted" /\ stdio' = <<>>
        \/ /\ ndebug \/ ~impl.stream.failed
           /\ process' \in {"running", "overrun"} /\ stdio' = stdio
    BY Zenon DEF Streams, Abort
  <1>3. <<>> \in Seq(Line) /\ Range(<<>>) = {}
    BY DEF Range
  <1>4. TypeOK
    BY Zenon DEF LoggerInv
  <1>5. /\ pc \in [Threads -> {"idle", "streaming", "fwrite", "fflush", "throw"}]
        /\ impl_ \in [Threads -> Line]
    BY Zenon, <1>4 DEF TypeOK
  <1>6. /\ impl_' \in [Threads -> Line]
        /\ pc' \in [Threads -> {"idle", "streaming", "fwrite", "fflush", "throw"}]
    BY Zenon, <1>1, <1>5
  <1>7. stdio' \in Seq(Line) /\ process' \in {"running", "asserted", "overrun", "terminated"}
    BY Zenon, <1>2, <1>3, <1>4 DEF TypeOK
  <1>8. TypeOK'
    BY Zenon, <1>1, <1>4, <1>6, <1>7 DEF TypeOK
  <1>9. /\ impl_'[t] = impl /\ pc'[t] = to
        /\ \A u \in Threads \ {t} : impl_'[u] = impl_[u] /\ pc'[u] = pc[u]
    BY Zenon, <1>1, <1>5
  <1>10. \A u \in Threads : Good(impl_'[u].stream)
    BY Zenon, <1>9 DEF LoggerInv
  <1>11. Range(file') = Range(file) /\ Range(stdio') \in {{}, Range(stdio)}
    BY Zenon, <1>1, <1>2, <1>3
  <1>12. \A line \in Range(file') \cup Range(stdio') : Good(line.stream)
    BY Zenon, <1>11 DEF LoggerInv
  <1>13. \A u \in Threads : Noticed(u)'
    BY Zenon, <1>1, <1>2, <1>9, NoticedKeeps
  <1>14. process' = "running" => Range(stdio') = Range(stdio)
    BY <1>2
  <1>15. ASSUME NEW u \in Threads PROVE FatalKept(u)'
    <2>1. FatalKept(u)
      BY Zenon DEF LoggerInv
    <2>2. exception'[u] = exception[u] /\ file' = file
      BY Zenon, <1>1
    <2>3. CASE u = t
      <3>1. pc'[u] \notin {"fflush", "throw"}
        BY <2>3, <1>9
      <3> QED
        BY Zenon, <3>1, <2>1, <2>2 DEF FatalKept
    <2>4. CASE u # t
      <3>1. impl_'[u] = impl_[u] /\ pc'[u] = pc[u]
        BY Zenon, <2>4, <1>9
      <3> QED
        BY Zenon, <3>1, <2>1, <2>2, <1>1, <1>14 DEF FatalKept
    <2> QED
      BY Zenon, <2>3, <2>4
  <1> QED
    BY Zenon, <1>8, <1>10, <1>12, <1>13, <1>15 DEF LoggerInv

(* A statement begins with the id of its own thread.                       *)
LEMMA ConstructKeeps ==
    ASSUME LoggerInv, NEW t \in Threads, NEW level \in Levels, Construct(t, level)
    PROVE  LoggerInv'
  <1>1. CurrentTid(t) = t
    BY Zenon DEF LoggerInv, CurrentTid
  <1>2. t \in Signed /\ level \in 0 .. NUM_LOG_LEVELS - 1
    BY Zenon, LoggerAssumption, LevelAssumption
  <1> DEFINE s == Opening(level, t)
             impl == [level |-> level, items |-> 0, stream |-> [s EXCEPT !.meant = s.meant]]
  <1>3. Step(t, "idle", "streaming") /\ Streams(t, impl)
    BY Zenon, <1>1 DEF Construct
  <1>4. t_cachedTid' = [t_cachedTid EXCEPT ![t] = t]
    BY Zenon, <1>1 DEF Construct
  <1>5. t_cachedTid \in [Threads -> Threads \cup {0}]
    BY Zenon DEF LoggerInv, TypeOK
  <1>6. /\ t_cachedTid' \in [Threads -> Threads \cup {0}]
        /\ \A u \in Threads : t_cachedTid'[u] \in {0, u}
    BY Zenon, <1>4, <1>5 DEF LoggerInv
  <1>7. Good(s)
    BY Zenon, <1>2, GoodOpening
  <1> HIDE DEF s
  <1>8. [s EXCEPT !.meant = s.meant] = s
    BY <1>7 DEF Good, Stream
  <1>9. impl = [level |-> level, items |-> 0, stream |-> s]
    BY Zenon, <1>8
  <1> HIDE DEF impl
  <1>10. level \in 0..NUM_LOG_LEVELS /\ 0 \in Nat
    BY <1>2 DEF NUM_LOG_LEVELS
  <1>11. impl \in Line /\ impl.stream = s
    BY Zenon, <1>7, <1>9, <1>10 DEF Line, Good
  <1> QED
    BY Zenon, <1>3, <1>6, <1>7, <1>11, StreamsKeeps

(* A Logger with another stream or another count.                          *)
LEMMA LineWith ==
    ASSUME NEW line \in Line, NEW s \in Stream, NEW n \in Nat
    PROVE  /\ [line EXCEPT !.stream = s] \in Line
           /\ [line EXCEPT !.stream = s].stream = s
           /\ [line EXCEPT !.items = n] \in Line
           /\ [line EXCEPT !.items = n].stream = line.stream
  BY SMT DEF Line

(* operator<<.                                                             *)
LEMMA InsertKeeps ==
    ASSUME LoggerInv, NEW t \in Threads, NEW x \in Items, Insert(t, x)
    PROVE  LoggerInv'
  <1> DEFINE s == impl_[t].stream ++ x
             n == impl_[t].items + 1
             m == [impl_[t] EXCEPT !.stream = s]
             impl == [m EXCEPT !.items = n]
  <1>1. Step(t, "streaming", "streaming") /\ Streams(t, impl) /\ UNCHANGED t_cachedTid
    BY Zenon DEF Insert
  <1>2. /\ impl_[t] \in Line /\ Good(impl_[t].stream)
        /\ t_cachedTid \in [Threads -> Threads \cup {0}]
        /\ \A u \in Threads : t_cachedTid[u] \in {0, u}
    BY Zenon DEF LoggerInv, TypeOK
  <1>3. impl_[t].items \in Nat
    BY <1>2 DEF Line
  <1>4. n \in Nat
    BY <1>3
  <1>5. x \in Item
    BY Zenon, LoggerAssumption
  <1>6. Good(s)
    BY Zenon, <1>2, <1>5, OneMore DEF Good
  <1> HIDE DEF s, n
  <1>a. m \in Line /\ m.stream = s
    BY Zenon, <1>2, <1>4, <1>6, LineWith DEF Good
  <1> HIDE DEF m
  <1>7. impl \in Line /\ impl.stream = s
    BY Zenon, <1>a, <1>4, <1>6, LineWith DEF Good
  <1> HIDE DEF impl
  <1>8. /\ t_cachedTid' \in [Threads -> Threads \cup {0}]
        /\ \A u \in Threads : t_cachedTid'[u] \in {0, u}
    BY Zenon, <1>1, <1>2
  <1> QED
    BY Zenon, <1>1, <1>6, <1>7, <1>8, StreamsKeeps

(* Finish.                                                                 *)
LEMMA CompleteKeeps ==
    ASSUME LoggerInv, NEW t \in Threads, Complete(t)
    PROVE  LoggerInv'
  <1> DEFINE s == Finish(impl_[t].stream)
             impl == [impl_[t] EXCEPT !.stream = s]
  <1>1. Step(t, "streaming", "fwrite") /\ Streams(t, impl) /\ UNCHANGED t_cachedTid
    BY Zenon DEF Complete
  <1>2. /\ impl_[t] \in Line /\ Good(impl_[t].stream)
        /\ t_cachedTid \in [Threads -> Threads \cup {0}]
        /\ \A u \in Threads : t_cachedTid[u] \in {0, u}
    BY Zenon DEF LoggerInv, TypeOK
  <1>3. Good(s)
    BY Zenon, <1>2, GoodFinish
  <1> HIDE DEF s
  <1>4. impl \in Line /\ impl.stream = s
    BY Zenon, <1>2, <1>3, LineWith DEF Good
  <1> HIDE DEF impl
  <1>5. /\ t_cachedTid' \in [Threads -> Threads \cup {0}]
        /\ \A u \in Threads : t_cachedTid'[u] \in {0, u}
    BY Zenon, <1>1, <1>2
  <1> QED
    BY Zenon, <1>1, <1>3, <1>4, <1>5, StreamsKeeps

(* fwrite: the line is in stdio, and a fatal one is kept for the           *)
(* exception.                                                              *)
LEMMA WriteKeeps ==
    ASSUME LoggerInv, NEW t \in Threads, Write(t)
    PROVE  LoggerInv'
  <1>1. /\ process = "running" /\ pc[t] = "fwrite"
        /\ pc' = [pc EXCEPT ![t] = IF impl_[t].level = FATAL THEN "fflush" ELSE "idle"]
        /\ stdio' = Append(stdio, impl_[t])
        /\ impl_' = [impl_ EXCEPT ![t] = IF impl_[t].level = FATAL THEN impl_[t] ELSE None]
        /\ UNCHANGED <<ndebug, g_log_level, t_cachedTid, exception, file, process>>
    BY Zenon DEF Write, Step
  <1>2. TypeOK /\ FatalSurvives
    BY Zenon DEF LoggerInv, FatalKept, FatalSurvives
  <1>3. /\ pc \in [Threads -> {"idle", "streaming", "fwrite", "fflush", "throw"}]
        /\ impl_ \in [Threads -> Line] /\ stdio \in Seq(Line)
    BY Zenon, <1>2 DEF TypeOK
  <1>4. stdio' \in Seq(Line)
    BY Zenon, <1>1, <1>3, AppendProperties
  <1>5. Range(stdio') = Range(stdio) \cup {impl_[t]}
    <2>1. impl_[t] \in Line /\ stdio' = Append(stdio, impl_[t])
      BY Zenon, <1>1, <1>3
    <2> QED
      BY <2>1, <1>3, RangeOfAppend
  <1>6. None \in Line /\ Good(None.stream)
    BY Zenon, NoneIsLine
  <1>7. /\ impl_' \in [Threads -> Line]
        /\ pc' \in [Threads -> {"idle", "streaming", "fwrite", "fflush", "throw"}]
    BY Zenon, <1>1, <1>3, <1>6
  <1>8. TypeOK'
    BY Zenon, <1>1, <1>2, <1>4, <1>7 DEF TypeOK
  <1>9. /\ \/ impl_[t].level = FATAL /\ impl_'[t] = impl_[t] /\ pc'[t] = "fflush"
           \/ impl_[t].level # FATAL /\ impl_'[t] = None /\ pc'[t] = "idle"
        /\ \A u \in Threads \ {t} : impl_'[u] = impl_[u] /\ pc'[u] = pc[u]
    BY Zenon, <1>1, <1>3
  <1>10. \A u \in Threads : Good(impl_'[u].stream)
    BY Zenon, <1>6, <1>9 DEF LoggerInv
  <1>11. \A line \in Range(file') \cup Range(stdio') : Good(line.stream)
    BY Zenon, <1>1, <1>5 DEF LoggerInv
  <1>12. ASSUME NEW u \in Threads PROVE FatalKept(u)'
    <2>1. FatalKept(u)
      BY Zenon DEF LoggerInv
    <2>2. exception'[u] = exception[u] /\ file' = file /\ process' = process
      BY Zenon, <1>1
    <2>3. CASE u = t
      <3>1. pc'[u] = "fflush" => impl_'[u] \in Range(stdio') /\ impl_'[u].level = FATAL
        BY Zenon, <2>3, <1>5, <1>9
      <3>2. pc'[u] # "throw"
        BY <2>3, <1>9
      <3> QED
        BY Zenon, <3>1, <3>2, <2>1, <2>2 DEF FatalKept
    <2>4. CASE u # t
      <3>1. impl_'[u] = impl_[u] /\ pc'[u] = pc[u]
        BY Zenon, <2>4, <1>9
      <3> QED
        BY Zenon, <3>1, <2>1, <2>2, <1>5 DEF FatalKept
    <2> QED
      BY Zenon, <2>3, <2>4
  <1>13. \A u \in Threads : t_cachedTid'[u] \in {0, u} /\ Noticed(u)'
    BY Zenon, <1>1, <1>9, NoneIsLine, NoticedKeeps DEF LoggerInv
  <1> QED
    BY Zenon, <1>8, <1>10, <1>11, <1>12, <1>13 DEF LoggerInv

(* fflush, by ~Logger or by the C library.                                 *)
LEMMA FlushKeeps ==
    ASSUME LoggerInv, process = "running", process' = "running",
           file' = file \o stdio, stdio' = <<>>,
           UNCHANGED <<ndebug, g_log_level, t_cachedTid, impl_, exception>>,
           pc' \in [Threads -> {"idle", "streaming", "fwrite", "fflush", "throw"}],
           \A u \in Threads : pc'[u] = pc[u] \/ (pc[u] = "fflush" /\ pc'[u] = "throw")
    PROVE  LoggerInv'
  <1>1. TypeOK
    BY Zenon DEF LoggerInv
  <1>2. file \in Seq(Line) /\ stdio \in Seq(Line)
    BY Zenon, <1>1 DEF TypeOK
  <1>3. file' \in Seq(Line)
    BY Zenon, <1>2, ConcatProperties
  <1>4. Range(file') = Range(file) \cup Range(stdio)
    BY <1>2, RangeConcatenation
  <1>5. <<>> \in Seq(Line) /\ Range(<<>>) = {}
    BY DEF Range
  <1>6. TypeOK'
    BY Zenon, <1>1, <1>3, <1>5 DEF TypeOK
  <1>7. \A line \in Range(file') \cup Range(stdio') : Good(line.stream)
    BY Zenon, <1>4, <1>5 DEF LoggerInv
  <1>8. ASSUME NEW u \in Threads PROVE FatalKept(u)'
    <2>1. FatalKept(u)
      BY Zenon DEF LoggerInv
    <2>2. exception'[u] = exception[u] /\ impl_'[u] = impl_[u]
      BY Zenon
    <2>3. CASE pc'[u] = pc[u]
      BY Zenon, <2>1, <2>2, <2>3, <1>4 DEF FatalKept
    <2>4. CASE pc[u] = "fflush" /\ pc'[u] = "throw"
      BY Zenon, <2>1, <2>2, <2>4, <1>4 DEF FatalKept
    <2> QED
      BY Zenon, <2>3, <2>4
  <1> QED
    BY Zenon, <1>6, <1>7, <1>8, NoticedKeeps DEF LoggerInv

(* throw: the line is in the file when it becomes the exception.           *)
LEMMA ThrowKeeps ==
    ASSUME LoggerInv, NEW t \in Threads, Throw(t)
    PROVE  LoggerInv'
  <1>1. /\ process = "running" /\ pc[t] = "throw" /\ pc' = [pc EXCEPT ![t] = "idle"]
        /\ exception' = [exception EXCEPT ![t] = impl_[t].stream.text]
        /\ impl_' = [impl_ EXCEPT ![t] = None]
        /\ UNCHANGED <<ndebug, g_log_level, t_cachedTid, file>>
    BY Zenon DEF Throw, Step
  <1>2. \/ process' = "running" /\ stdio' = stdio
        \/ process' = "terminated" /\ stdio' = <<>>
    BY Zenon, <1>1 DEF Throw, Abort
  <1>3. TypeOK /\ None \in Line /\ Good(None.stream)
    BY Zenon, NoneIsLine DEF LoggerInv
  <1>4. /\ pc \in [Threads -> {"idle", "streaming", "fwrite", "fflush", "throw"}]
        /\ impl_ \in [Threads -> Line] /\ exception \in [Threads -> Seq(Char)]
    BY Zenon, <1>3 DEF TypeOK
  <1>5. impl_[t].stream.text \in Seq(Char)
    BY Zenon, StreamFields DEF LoggerInv, Good
  <1>6. <<>> \in Seq(Line) /\ Range(<<>>) = {}
    BY DEF Range
  <1>7. /\ impl_' \in [Threads -> Line] /\ exception' \in [Threads -> Seq(Char)]
        /\ pc' \in [Threads -> {"idle", "streaming", "fwrite", "fflush", "throw"}]
    BY Zenon, <1>1, <1>3, <1>4, <1>5
  <1>8. stdio' \in Seq(Line) /\ process' \in {"running", "asserted", "overrun", "terminated"}
    BY Zenon, <1>2, <1>3, <1>6 DEF TypeOK
  <1>9. TypeOK'
    BY Zenon, <1>1, <1>3, <1>7, <1>8 DEF TypeOK
  <1>10. /\ impl_'[t] = None /\ pc'[t] = "idle" /\ exception'[t] = impl_[t].stream.text
         /\ \A u \in Threads \ {t} : /\ impl_'[u] = impl_[u] /\ pc'[u] = pc[u]
                                     /\ exception'[u] = exception[u]
    BY Zenon, <1>1, <1>4
  <1>11. \A u \in Threads : Good(impl_'[u].stream)
    BY Zenon, <1>3, <1>10 DEF LoggerInv
  <1>12. \A line \in Range(file') \cup Range(stdio') : Good(line.stream)
    BY Zenon, <1>1, <1>2, <1>6 DEF LoggerInv
  <1>13. \A u \in Threads : Noticed(u)'
    BY Zenon, <1>1, <1>10, NoneIsLine, NoticedKeeps
  <1>14. ASSUME NEW u \in Threads PROVE FatalKept(u)'
    <2>1. FatalKept(u)
      BY Zenon DEF LoggerInv
    <2>2. CASE u = t
      <3>1. impl_[u] \in Range(file) /\ impl_[u].level = FATAL
        BY Zenon, <2>1, <2>2, <1>1 DEF FatalKept
      <3>2. file' = file /\ exception'[u] = impl_[u].stream.text
        BY Zenon, <2>2, <1>1, <1>10
      <3>3. pc'[u] = "idle"
        BY Zenon, <2>2, <1>10
      <3>4. pc'[u] \notin {"fflush", "throw"}
        BY <3>3
      <3> QED
        BY Zenon, <3>1, <3>2, <3>4 DEF FatalKept
    <2>3. CASE u # t
      <3>1. impl_'[u] = impl_[u] /\ pc'[u] = pc[u] /\ exception'[u] = exception[u]
        BY Zenon, <2>3, <1>10
      <3>2. file' = file /\ (process' = "running" => stdio' = stdio)
        BY <1>1, <1>2
      <3> QED
        BY Zenon, <3>1, <3>2, <2>1, <1>1 DEF FatalKept
    <2> QED
      BY Zenon, <2>2, <2>3
  <1> QED
    BY Zenon, <1>1, <1>9, <1>11, <1>12, <1>13, <1>14 DEF LoggerInv

(* The steps that leave the statements alone: an exception is caught or    *)
(* ends the process, or the level is set.                                  *)
LEMMA QuietKeeps ==
    ASSUME LoggerInv, process = "running",
           UNCHANGED <<ndebug, t_cachedTid, pc, impl_, file>>,
           g_log_level' \in 0..NUM_LOG_LEVELS,
           exception' \in [Threads -> Seq(Char)],
           \A u \in Threads : exception'[u] \in {exception[u], <<>>},
           \/ process' = "running" /\ stdio' = stdio
           \/ process' = "terminated" /\ stdio' = <<>>
    PROVE  LoggerInv'
  <1>1. TypeOK
    BY Zenon DEF LoggerInv
  <1>2. <<>> \in Seq(Line) /\ Range(<<>>) = {}
    BY DEF Range
  <1>3. stdio' \in Seq(Line) /\ process' \in {"running", "asserted", "overrun", "terminated"}
    BY Zenon, <1>1, <1>2 DEF TypeOK
  <1>4. TypeOK'
    BY Zenon, <1>1, <1>3 DEF TypeOK
  <1>5. \A line \in Range(file') \cup Range(stdio') : Good(line.stream)
    BY Zenon, <1>2 DEF LoggerInv
  <1>6. process' = "running" => stdio' = stdio
    OBVIOUS
  <1>7. ASSUME NEW u \in Threads PROVE FatalKept(u)'
    <2>1. FatalKept(u) /\ exception'[u] \in {exception[u], <<>>}
      BY Zenon DEF LoggerInv
    <2> QED
      BY Zenon, <2>1, <1>6 DEF FatalKept
  <1> QED
    BY Zenon, <1>4, <1>5, <1>7, NoticedKeeps DEF LoggerInv

(* Every step of the process keeps the invariant.                          *)
LEMMA LoggerStep == LoggerInv /\ [Next]_vars => LoggerInv'
  <1> SUFFICES ASSUME LoggerInv, [Next]_vars PROVE LoggerInv'
    OBVIOUS
  <1>1. /\ pc \in [Threads -> {"idle", "streaming", "fwrite", "fflush", "throw"}]
        /\ exception \in [Threads -> Seq(Char)]
        /\ g_log_level \in 0..NUM_LOG_LEVELS /\ <<>> \in Seq(Char)
    BY Zenon, EmptySeq DEF LoggerInv, TypeOK
  <1>2. ASSUME NEW t \in Threads, Flush(t) PROVE LoggerInv'
    <2>1. /\ process = "running" /\ process' = process
          /\ pc[t] = "fflush" /\ pc' = [pc EXCEPT ![t] = "throw"]
          /\ file' = file \o stdio /\ stdio' = <<>>
          /\ UNCHANGED <<ndebug, g_log_level, t_cachedTid, impl_, exception>>
      BY Zenon, <1>2 DEF Flush, Step
    <2>2. pc' \in [Threads -> {"idle", "streaming", "fwrite", "fflush", "throw"}]
      BY Zenon, <2>1, <1>1
    <2>3. \A u \in Threads : pc'[u] = pc[u] \/ (pc[u] = "fflush" /\ pc'[u] = "throw")
      BY Zenon, <2>1, <1>1
    <2> QED
      BY Zenon, <2>1, <2>2, <2>3, FlushKeeps
  <1>3. CASE StdioFlush
    BY Zenon, <1>1, <1>3, FlushKeeps DEF StdioFlush
  <1>4. ASSUME NEW t \in Threads, Catch(t) PROVE LoggerInv'
    <2>1. /\ process = "running" /\ process' = process /\ stdio' = stdio
          /\ pc[t] = "idle" /\ pc' = [pc EXCEPT ![t] = "idle"]
          /\ exception' = [exception EXCEPT ![t] = <<>>]
          /\ UNCHANGED <<ndebug, g_log_level, t_cachedTid, impl_, file>>
      BY Zenon, <1>4 DEF Catch, Step
    <2>2. pc' = pc
      BY Zenon, <2>1, <1>1
    <2>3. /\ exception' \in [Threads -> Seq(Char)]
          /\ \A u \in Threads : exception'[u] \in {exception[u], <<>>}
      BY Zenon, <2>1, <1>1
    <2> QED
      BY Zenon, <2>1, <2>2, <2>3, <1>1, QuietKeeps
  <1>5. ASSUME NEW t \in Threads, Uncaught(t) PROVE LoggerInv'
    <2>1. /\ process = "running" /\ process' = "terminated" /\ stdio' = <<>>
          /\ pc[t] = "idle" /\ pc' = [pc EXCEPT ![t] = "idle"]
          /\ UNCHANGED <<ndebug, g_log_level, t_cachedTid, impl_, exception, file>>
      BY Zenon, <1>5 DEF Uncaught, Step, Abort
    <2>2. pc' = pc
      BY Zenon, <2>1, <1>1
    <2> QED
      BY Zenon, <2>1, <2>2, <1>1, QuietKeeps
  <1>6. ASSUME NEW level \in Settings, SetLogLevel(level) PROVE LoggerInv'
    <2>1. level \in 0..NUM_LOG_LEVELS
      BY Zenon, LevelAssumption
    <2> QED
      BY Zenon, <2>1, <1>1, <1>6, QuietKeeps DEF SetLogLevel
  <1>7. CASE UNCHANGED vars
    BY Zenon, <1>7 DEF vars, LoggerInv, TypeOK, FatalKept, Noticed
  <1> QED
    BY Zenon, <1>2, <1>3, <1>4, <1>5, <1>6, <1>7, ConstructKeeps, InsertKeeps, CompleteKeeps,
       WriteKeeps, ThrowKeeps DEF Next

(* The invariant holds in every state of every behaviour.                  *)
LEMMA LoggerInvariant == Spec => []LoggerInv
  BY LoggerInit, LoggerStep, PTL DEF Spec

(* A stream with a failed assertion or past its end is not short.          *)
LEMMA NotShort ==
    ASSUME NEW s, Good(s), s.failed \/ s.over
    PROVE  ~Short(s)
  BY Zenon DEF Good, Sound, Short

(* Module Logger, ShortLinesAreWhole: a statement that leaves              *)
(* kMaxNumericSize characters of its FixedBuffer free is written by        *)
(* ~Logger exactly as it stands, with the id of its own thread, and        *)
(* neither fails an assertion of append or of a number operator nor writes *)
(* past the buffer, for any items in any number, any number of threads and *)
(* any size of the buffer.                                                 *)
THEOREM WholeLines == Spec => []ShortLinesAreWhole
  <1>1. LoggerInv => ShortLinesAreWhole
    <2> SUFFICES ASSUME LoggerInv PROVE ShortLinesAreWhole
      OBVIOUS
    <2>1. file \in Seq(Line) /\ stdio \in Seq(Line) /\ TypeOK
      BY Zenon DEF LoggerInv, TypeOK
    <2>2. Range(file \o stdio) = Range(file) \cup Range(stdio)
      BY <2>1, RangeConcatenation
    <2>3. \A line \in Range(file \o stdio) : Good(line.stream)
      BY Zenon, <2>2 DEF LoggerInv
    <2>4. \A line \in Range(file \o stdio) :
            Short(line.stream) => line.stream.text = line.stream.meant
      BY Zenon, <2>3 DEF Good, Sound
    <2>5. \A t \in Threads :
            impl_[t].stream.failed \/ impl_[t].stream.over => ~Short(impl_[t].stream)
      BY Zenon, NotShort DEF LoggerInv
    <2> QED
      BY Zenon, <2>1, <2>4, <2>5 DEF ShortLinesAreWhole
  <1> QED
    BY <1>1, LoggerInvariant, PTL

(* Module Logger, AssertedInTime: with assertions compiled in, the tests   *)
(* of append and of the number operators come before anything is written   *)
(* past the FixedBuffer, except for doubles whose snprintf is cut.         *)
THEOREM AssertionsComeFirst == Spec => []AssertedInTime
  <1>1. LoggerInv => AssertedInTime
    <2> SUFFICES ASSUME LoggerInv, NEW t \in Threads, impl_[t].stream.over, ~ndebug
                 PROVE  impl_[t].stream.cut \/ (impl_[t].stream.failed /\ process = "asserted")
      BY Zenon DEF AssertedInTime
    <2> QED
      BY Zenon DEF LoggerInv, Good, Sound, Noticed
  <1> QED
    BY <1>1, LoggerInvariant, PTL

(* Module Logger, FatalSurvives: fflush in ~Logger comes before the throw, *)
(* so the line of a LOG_FATAL whose exception is under way is in the file, *)
(* however the process ends.                                               *)
THEOREM FatalLinesSurvive == Spec => []FatalSurvives
  <1>1. LoggerInv => FatalSurvives
    BY Zenon DEF LoggerInv, FatalKept, FatalSurvives
  <1> QED
    BY <1>1, LoggerInvariant, PTL

(* Module Logger, NumeralsAreExact: what operator<< makes of an integer or *)
(* a pointer while a statement is streamed is its usual numeral, for       *)
(* integers of every width (module LogStream is checked with 8 bits).      *)
THEOREM NumeralsComeOutRight == Spec => []NumeralsAreExact
  <1>1. NumeralsAreExact
    BY Zenon, NumeralsExact DEF NumeralsAreExact
  <1> QED
    BY <1>1, PTL
=============================================================================
