-------------------------- MODULE UdpReceiverProofs --------------------------
(***************************************************************************)
(* Machine-checked proofs about module UdpReceiver, for every size of the  *)
(* pool, of a batch and of a buffer, and any number of datagrams and of    *)
(* failed reads: no buffer is lost or owned twice, what the user keeps     *)
(* stays as it is, datagrams come in order, and Stop is prompt.            *)
(***************************************************************************)
EXTENDS UdpReceiver, SequenceTheorems, FiniteSetTheorems, TLAPS

-----------------------------------------------------------------------------
(* The beginning and the end of a sequence.                                *)
LEMMA Beginning ==
    ASSUME NEW S, NEW s \in Seq(S), NEW k \in 0 .. Len(s)
    PROVE  /\ SubSeq(s, 1, k) \in Seq(S)
           /\ Len(SubSeq(s, 1, k)) = k
           /\ \A n \in 1..k : SubSeq(s, 1, k)[n] = s[n]
  <1>1. Len(s) \in Nat /\ k \in Nat /\ k <= Len(s) /\ \A n \in 1 .. Len(s) : s[n] \in S
    BY LenProperties, ElementOfSeq
  <1>2. \A n \in 1..k : s[n] \in S
    BY <1>1
  <1>3. 1 \in Int /\ k \in Int
    BY <1>1
  <1> DEFINE t == SubSeq(s, 1, k)
  <1>4. t \in Seq(S) /\ Len(t) = IF 1 <= k THEN k - 1 + 1 ELSE 0
    BY <1>2, <1>3, SubSeqProperties
  <1>5. \A n \in 1 .. k - 1 + 1 : t[n] = s[1 + n - 1]
    BY <1>2, <1>3, SubSeqProperties
  <1> HIDE DEF t
  <1>6. Len(t) = k
    BY <1>1, <1>4
  <1>7. \A n \in 1..k : t[n] = s[n]
    BY <1>1, <1>5
  <1> QED
    BY Zenon, <1>4, <1>6, <1>7 DEF t

LEMMA Ending ==
    ASSUME NEW S, NEW s \in Seq(S), NEW k \in 0 .. Len(s)
    PROVE  /\ SubSeq(s, k + 1, Len(s)) \in Seq(S)
           /\ Len(SubSeq(s, k + 1, Len(s))) = Len(s) - k
           /\ \A n \in 1 .. Len(s) - k : SubSeq(s, k + 1, Len(s))[n] = s[k + n]
  <1>1. Len(s) \in Nat /\ k \in Nat /\ k <= Len(s) /\ \A n \in 1 .. Len(s) : s[n] \in S
    BY LenProperties, ElementOfSeq
  <1>2. \A n \in k + 1 .. Len(s) : s[n] \in S
    BY <1>1
  <1>3. k + 1 \in Int /\ Len(s) \in Int
    BY <1>1
  <1> DEFINE t == SubSeq(s, k + 1, Len(s))
  <1>4. t \in Seq(S) /\ Len(t) = IF k + 1 <= Len(s) THEN Len(s) - (k + 1) + 1 ELSE 0
    BY <1>2, <1>3, SubSeqProperties
  <1>5. \A n \in 1 .. Len(s) - (k + 1) + 1 : t[n] = s[(k + 1) + n - 1]
    BY <1>2, <1>3, SubSeqProperties
  <1> HIDE DEF t
  <1>6. Len(t) = Len(s) - k
    BY <1>1, <1>4
  <1>7. \A n \in 1 .. Len(s) - k : t[n] = s[k + n]
    BY <1>1, <1>5
  <1> QED
    BY Zenon, <1>4, <1>6, <1>7 DEF t

-----------------------------------------------------------------------------
(* Every buffer has one owner: its place in the pool, its place in the     *)
(* batch, or the datagrams that the user holds.  f is the pool's stack, b  *)
(* the batch, of which the first k were moved away, u what the user holds, *)
(* c the number of buffers.                                                *)
Owned(f, b, k, u, c) ==
    /\ \A m, n \in 1 .. Len(f) : f[m] = f[n] => m = n
    /\ \A m, n \in k + 1 .. Len(b) : b[m] = b[n] => m = n
    /\ \A m \in 1 .. Len(f), n \in k + 1 .. Len(b) : f[m] # b[n]
    /\ \A m \in 1 .. Len(f) : f[m] \notin u
    /\ \A n \in k + 1 .. Len(b) : b[n] \notin u
    /\ \A x \in 1..c : \/ \E m \in 1 .. Len(f) : x = f[m]
                       \/ \E n \in k + 1 .. Len(b) : x = b[n]
                       \/ x \in u

(* The constructor of the pool fills its stack.                            *)
LEMMA OwnedFirst ==
    ASSUME NEW c \in Nat
    PROVE  /\ [n \in 1..c |-> n] \in Seq(1..c)
           /\ Owned([n \in 1..c |-> n], <<>>, 0, {}, c)
  <1> DEFINE f == [n \in 1..c |-> n]
  <1>1. f \in Seq(1..c) /\ Len(f) = c /\ \A n \in 1..c : f[n] = n
    OBVIOUS
  <1> HIDE DEF f
  <1>2. Owned(f, <<>>, 0, {}, c)
    BY <1>1 DEF Owned
  <1> QED
    BY Zenon, <1>1, <1>2 DEF f

(* Acquire with an empty stack makes a buffer.                             *)
LEMMA OwnedNew ==
    ASSUME NEW c \in Nat, NEW b \in Seq(1..c), NEW u \in SUBSET (1..c),
           Owned(<<>>, b, 0, u, c)
    PROVE  /\ Append(b, c + 1) \in Seq(1 .. c + 1)
           /\ Owned(<<>>, Append(b, c + 1), 0, u, c + 1)
  <1> DEFINE b2 == Append(b, c + 1)
  <1>1. /\ Len(b) \in Nat /\ b2 \in Seq(1 .. c + 1) /\ Len(b2) = Len(b) + 1
        /\ \A n \in 1 .. Len(b) : b[n] \in 1..c /\ b2[n] = b[n]
        /\ b2[Len(b) + 1] = c + 1
    <2>1. Len(b) \in Nat /\ \A n \in 1 .. Len(b) : b[n] \in 1..c
      OBVIOUS
    <2>2. \A n \in 1 .. Len(b) : b[n] \in 1 .. c + 1
      BY <2>1
    <2>3. b \in Seq(1 .. c + 1)
      BY <2>1, <2>2
    <2> QED
      BY <2>1, <2>3
  <1> HIDE DEF b2
  <1>2. c + 1 \notin u /\ \A n \in 1 .. Len(b) : b[n] # c + 1
    BY <1>1
  <1>3. /\ \A n \in 1 .. Len(b2) : n \in 1 .. Len(b) \/ n = Len(b) + 1
        /\ \A n \in 1 .. Len(b) : n \in 1 .. Len(b2)
        /\ Len(b) + 1 \in 1 .. Len(b2)
    BY <1>1
  <1>o. /\ \A m, n \in 1 .. Len(b) : b[m] = b[n] => m = n
        /\ \A n \in 1 .. Len(b) : b[n] \notin u
        /\ \A x \in 1..c : (\E n \in 1 .. Len(b) : x = b[n]) \/ x \in u
    <2>1. 0 + 1 = 1 /\ 1 .. Len(<<>>) = {}
      OBVIOUS
    <2> QED
      BY Zenon, <2>1 DEF Owned
  <1>4. ASSUME NEW m \in 1 .. Len(b2), NEW n \in 1 .. Len(b2), b2[m] = b2[n]
        PROVE  m = n
    <2>1. CASE m \in 1 .. Len(b) /\ n \in 1 .. Len(b)
      BY Zenon, <2>1, <1>1, <1>4, <1>o
    <2>2. CASE m = Len(b) + 1 \/ n = Len(b) + 1
      BY Zenon, <2>2, <1>1, <1>2, <1>3, <1>4
    <2> QED
      BY Zenon, <2>1, <2>2, <1>3
  <1>5. \A n \in 1 .. Len(b2) : b2[n] \notin u
    BY Zenon, <1>1, <1>2, <1>3, <1>o
  <1>6. ASSUME NEW x \in 1 .. c + 1
        PROVE  (\E n \in 1 .. Len(b2) : x = b2[n]) \/ x \in u
    <2>1. CASE x = c + 1
      BY Zenon, <2>1, <1>1, <1>3
    <2>2. CASE x # c + 1
      <3>1. x \in 1..c
        BY <2>2
      <3> QED
        BY Zenon, <3>1, <1>o, <1>1, <1>3
    <2> QED
      BY Zenon, <2>1, <2>2
  <1>7. Len(<<>>) = 0 /\ 0 + 1 = 1 /\ 1..0 = {}
    OBVIOUS
  <1>8. Owned(<<>>, b2, 0, u, c + 1)
    BY Zenon, <1>4, <1>5, <1>6, <1>7 DEF Owned
  <1> QED
    BY Zenon, <1>1, <1>8 DEF b2

(* Acquire takes the last buffer of the stack.                             *)
LEMMA OwnedAcquired ==
    ASSUME NEW c \in Nat, NEW f \in Seq(1..c), f # <<>>, NEW b \in Seq(1..c), NEW u,
           Owned(f, b, 0, u, c)
    PROVE  /\ SubSeq(f, 1, Len(f) - 1) \in Seq(1..c)
           /\ Append(b, f[Len(f)]) \in Seq(1..c)
           /\ Owned(SubSeq(f, 1, Len(f) - 1), Append(b, f[Len(f)]), 0, u, c)
  <1> DEFINE l == Len(f)
             f2 == SubSeq(f, 1, Len(f) - 1)
             b2 == Append(b, f[Len(f)])
  <1>1. /\ l \in Nat \ {0} /\ f[l] \in 1..c
        /\ f2 \in Seq(1..c) /\ Len(f2) = l - 1 /\ \A n \in 1 .. l - 1 : f2[n] = f[n]
    <2>1. Len(f) \in Nat \ {0} /\ \A n \in 1 .. Len(f) : f[n] \in 1..c
      OBVIOUS
    <2>2. Len(f) - 1 \in 0 .. Len(f) /\ Len(f) \in 1 .. Len(f)
      BY <2>1
    <2> QED
      BY Zenon, <2>1, <2>2, Beginning
  <1>2. /\ Len(b) \in Nat /\ b2 \in Seq(1..c) /\ Len(b2) = Len(b) + 1
        /\ \A n \in 1 .. Len(b) : b2[n] = b[n]
        /\ b2[Len(b) + 1] = f[l]
    BY <1>1
  <1>3. /\ \A m, n \in 1 .. l : f[m] = f[n] => m = n
        /\ \A m, n \in 1 .. Len(b) : b[m] = b[n] => m = n
        /\ \A m \in 1 .. l, n \in 1 .. Len(b) : f[m] # b[n]
        /\ \A m \in 1 .. l : f[m] \notin u
        /\ \A n \in 1 .. Len(b) : b[n] \notin u
        /\ \A x \in 1..c : \/ \E m \in 1 .. l : x = f[m]
                           \/ \E n \in 1 .. Len(b) : x = b[n]
                           \/ x \in u
    <2>1. 0 + 1 = 1
      OBVIOUS
    <2> QED
      BY Zenon, <2>1 DEF Owned
  <1> HIDE DEF l, f2, b2
  <1>4. /\ \A n \in 1 .. Len(b2) : n \in 1 .. Len(b) \/ n = Len(b) + 1
        /\ \A m \in 1 .. l : m \in 1 .. Len(f2) \/ m = l
        /\ \A m \in 1 .. Len(f2) : m \in 1 .. l /\ m # l
        /\ \A n \in 1 .. Len(b) : n \in 1 .. Len(b2)
        /\ l \in 1 .. l /\ Len(b) + 1 \in 1 .. Len(b2)
    BY SMTT(30), <1>1, <1>2
  <1>5. \A m, n \in 1 .. Len(f2) : f2[m] = f2[n] => m = n
    BY Zenon, <1>1, <1>3, <1>4
  <1>6. ASSUME NEW m \in 1 .. Len(b2), NEW n \in 1 .. Len(b2), b2[m] = b2[n]
        PROVE  m = n
    <2>1. CASE m \in 1 .. Len(b) /\ n \in 1 .. Len(b)
      BY Zenon, <2>1, <1>2, <1>3, <1>6
    <2>2. ASSUME NEW p \in 1 .. Len(b)
          PROVE  b2[p] # f[l]
      BY Zenon, <1>2, <1>3, <1>4
    <2> QED
      BY Zenon, <2>1, <2>2, <1>2, <1>4, <1>6
  <1>7. ASSUME NEW m \in 1 .. Len(f2), NEW n \in 1 .. Len(b2)
        PROVE  f2[m] # b2[n]
    <2>1. m \in 1 .. l /\ m # l /\ f2[m] = f[m]
      BY Zenon, <1>1, <1>4
    <2>2. CASE n \in 1 .. Len(b)
      <3>1. b2[n] = b[n] /\ f[m] # b[n]
        BY Zenon, <2>1, <2>2, <1>2, <1>3
      <3> QED
        BY Zenon, <2>1, <3>1
    <2>3. CASE n = Len(b) + 1
      BY <2>1, <2>3, <1>2, <1>3, <1>4
    <2> QED
      BY Zenon, <2>2, <2>3, <1>4
  <1>8. /\ \A m \in 1 .. Len(f2) : f2[m] \notin u
        /\ \A n \in 1 .. Len(b2) : b2[n] \notin u
    BY Zenon, <1>1, <1>2, <1>3, <1>4
  <1>9. ASSUME NEW x \in 1..c
        PROVE  \/ \E m \in 1 .. Len(f2) : x = f2[m]
               \/ \E n \in 1 .. Len(b2) : x = b2[n]
               \/ x \in u
    BY Zenon, <1>1, <1>2, <1>3, <1>4
  <1>10. Owned(f2, b2, 0, u, c)
    <2>1. 0 + 1 = 1
      OBVIOUS
    <2> QED
      BY Zenon, <2>1, <1>5, <1>6, <1>7, <1>8, <1>9 DEF Owned
  <1> QED
    BY Zenon, <1>1, <1>2, <1>10 DEF l, f2, b2

(* PassOn moves a buffer of the batch to the user.                         *)
LEMMA OwnedPassed ==
    ASSUME NEW f, NEW b, Len(b) \in Nat, NEW k \in Nat, k < Len(b), NEW u, NEW c,
           Len(f) \in Nat, Owned(f, b, k, u, c)
    PROVE  b[k + 1] \notin u /\ Owned(f, b, k + 1, u \cup {b[k + 1]}, c)
  <1>1. /\ \A n \in (k + 1) + 1 .. Len(b) : n \in k + 1 .. Len(b) /\ n # k + 1
        /\ \A n \in k + 1 .. Len(b) : n \in (k + 1) + 1 .. Len(b) \/ n = k + 1
        /\ k + 1 \in k + 1 .. Len(b)
    OBVIOUS
  <1> QED
    BY Zenon, <1>1 DEF Owned

(* The last copy of a datagram returns its buffer.                         *)
LEMMA OwnedReturned ==
    ASSUME NEW c \in Nat, NEW f \in Seq(1..c), NEW b, NEW k, NEW u, NEW x \in 1..c,
           x \in u, Owned(f, b, k, u, c)
    PROVE  /\ Append(f, x) \in Seq(1..c)
           /\ Owned(Append(f, x), b, k, u \ {x}, c)
  <1> DEFINE f2 == Append(f, x)
  <1>1. /\ Len(f) \in Nat /\ f2 \in Seq(1..c) /\ Len(f2) = Len(f) + 1
        /\ \A m \in 1 .. Len(f) : f2[m] = f[m]
        /\ f2[Len(f) + 1] = x
    OBVIOUS
  <1> HIDE DEF f2
  <1>2. /\ \A m \in 1 .. Len(f2) : m \in 1 .. Len(f) \/ m = Len(f) + 1
        /\ \A m \in 1 .. Len(f) : m \in 1 .. Len(f2)
        /\ Len(f) + 1 \in 1 .. Len(f2)
    BY <1>1
  <1>3. \A m, n \in 1 .. Len(f2) : f2[m] = f2[n] => m = n
    BY Zenon, <1>1, <1>2 DEF Owned
  <1>4. \A m \in 1 .. Len(f2), n \in k + 1 .. Len(b) : f2[m] # b[n]
    <2>1. ASSUME NEW m \in 1 .. Len(f2), NEW n \in k + 1 .. Len(b)
          PROVE  f2[m] # b[n]
      <3>1. CASE m \in 1 .. Len(f)
        <4>1. f2[m] = f[m] /\ f[m] # b[n]
          BY Zenon, <3>1, <1>1 DEF Owned
        <4> QED
          BY Zenon, <4>1
      <3>2. CASE m = Len(f) + 1
        <4>1. f2[m] = x /\ b[n] \notin u
          BY Zenon, <3>2, <1>1 DEF Owned
        <4> QED
          BY Zenon, <4>1
      <3> QED
        BY Zenon, <3>1, <3>2, <1>2
    <2> QED
      BY Zenon, <2>1
  <1>5. \A m \in 1 .. Len(f2) : f2[m] \notin u \ {x}
    BY Zenon, <1>1, <1>2 DEF Owned
  <1>6. ASSUME NEW y \in 1..c
        PROVE  \/ \E m \in 1 .. Len(f2) : y = f2[m]
               \/ \E n \in k + 1 .. Len(b) : y = b[n]
               \/ y \in u \ {x}
    BY Zenon, <1>1, <1>2 DEF Owned
  <1>7. Owned(f2, b, k, u \ {x}, c)
    BY Zenon, <1>3, <1>4, <1>5, <1>6 DEF Owned
  <1> QED
    BY Zenon, <1>1, <1>7 DEF f2

(* The end of the batch returns what was not moved away.                   *)
LEMMA OwnedReleased ==
    ASSUME NEW c \in Nat, NEW f \in Seq(1..c), NEW b \in Seq(1..c), NEW k \in 0 .. Len(b),
           NEW u, Owned(f, b, k, u, c)
    PROVE  /\ f \o SubSeq(b, k + 1, Len(b)) \in Seq(1..c)
           /\ Owned(f \o SubSeq(b, k + 1, Len(b)), <<>>, 0, u, c)
  <1> DEFINE r == SubSeq(b, k + 1, Len(b))
             f2 == f \o r
  <1>1. Len(f) \in Nat /\ Len(b) \in Nat /\ k \in Nat /\ \A n \in 1 .. Len(b) : b[n] \in 1..c
    OBVIOUS
  <1>2. /\ r \in Seq(1..c) /\ Len(r) = Len(b) - k
        /\ \A n \in 1 .. Len(b) - k : r[n] = b[k + n]
    BY Zenon, Ending
  <1> HIDE DEF r
  <1>3. /\ f2 \in Seq(1..c) /\ Len(f2) = Len(f) + (Len(b) - k)
        /\ \A m \in 1 .. Len(f) : f2[m] = f[m]
        /\ \A m \in Len(f) + 1 .. Len(f2) : f2[m] = r[m - Len(f)]
    <2>1. /\ f2 \in Seq(1..c) /\ Len(f2) = Len(f) + Len(r)
          /\ \A m \in 1 .. Len(f) + Len(r) : f2[m] =
                IF m <= Len(f) THEN f[m] ELSE r[m - Len(f)]
      BY Zenon, <1>2, ConcatProperties
    <2> HIDE DEF f2
    <2>2. Len(f2) = Len(f) + (Len(b) - k) /\ Len(r) = Len(b) - k /\ Len(r) \in Nat
      BY <1>1, <1>2, <2>1
    <2>3. ASSUME NEW m \in 1 .. Len(f)
          PROVE  f2[m] = f[m]
      <3>1. m \in 1 .. Len(f) + Len(r) /\ m <= Len(f)
        BY <1>1, <2>2
      <3> QED
        BY Zenon, <3>1, <2>1
    <2>4. ASSUME NEW m \in Len(f) + 1 .. Len(f2)
          PROVE  f2[m] = r[m - Len(f)]
      <3>1. m \in 1 .. Len(f) + Len(r) /\ ~(m <= Len(f))
        BY <1>1, <2>2
      <3> QED
        BY Zenon, <3>1, <2>1
    <2> QED
      BY Zenon, <2>1, <2>2, <2>3, <2>4
  <1> HIDE DEF f2
  <1>4. ASSUME NEW m \in 1 .. Len(f2)
        PROVE  \/ m \in 1 .. Len(f) /\ f2[m] = f[m]
               \/ /\ m - Len(f) + k \in k + 1 .. Len(b) /\ f2[m] = b[m - Len(f) + k]
                  /\ m \notin 1 .. Len(f)
    <2>1. CASE m <= Len(f)
      BY <2>1, <1>1, <1>3
    <2>2. CASE ~(m <= Len(f))
      <3>1. /\ m \in Len(f) + 1 .. Len(f2) /\ m - Len(f) \in 1 .. Len(b) - k
            /\ m - Len(f) + k \in k + 1 .. Len(b) /\ k + (m - Len(f)) = m - Len(f) + k
        BY <2>2, <1>1, <1>3
      <3> QED
        BY Zenon, <3>1, <1>2, <1>3, <2>2
    <2> QED
      BY Zenon, <2>1, <2>2
  <1>5. ASSUME NEW n \in k + 1 .. Len(b)
        PROVE  \E m \in 1 .. Len(f2) : f2[m] = b[n]
    <2>1. /\ n - k + Len(f) \in 1 .. Len(f2) /\ n - k + Len(f) \in Len(f) + 1 .. Len(f2)
          /\ (n - k + Len(f)) - Len(f) = n - k /\ n - k \in 1 .. Len(b) - k /\ k + (n - k) = n
      BY <1>1, <1>3
    <2>2. f2[n - k + Len(f)] = b[n]
      BY ZenonT(30), <2>1, <1>2, <1>3
    <2> QED
      BY Zenon, <2>1, <2>2
  <1>6. ASSUME NEW m \in 1 .. Len(f)
        PROVE  m \in 1 .. Len(f2) /\ f2[m] = f[m]
    BY SMTT(30), <1>1, <1>3
  <1>7. ASSUME NEW m \in 1 .. Len(f2), NEW n \in 1 .. Len(f2), f2[m] = f2[n]
        PROVE  m = n
    <2>1. CASE m \in 1 .. Len(f) /\ n \in 1 .. Len(f)
      BY Zenon, <2>1, <1>6, <1>7 DEF Owned
    <2>2. CASE m \notin 1 .. Len(f) /\ n \notin 1 .. Len(f)
      <3>1. /\ m - Len(f) + k \in k + 1 .. Len(b) /\ n - Len(f) + k \in k + 1 .. Len(b)
            /\ b[m - Len(f) + k] = b[n - Len(f) + k]
        BY Zenon, <2>2, <1>4, <1>7
      <3>2. m - Len(f) + k = n - Len(f) + k
        BY Zenon, <3>1 DEF Owned
      <3> QED
        BY <3>2, <1>1
    <2>3. CASE m \in 1 .. Len(f) /\ n \notin 1 .. Len(f)
      BY <2>3, <1>4, <1>7 DEF Owned
    <2>4. CASE m \notin 1 .. Len(f) /\ n \in 1 .. Len(f)
      BY <2>4, <1>4, <1>7 DEF Owned
    <2> QED
      BY Zenon, <2>1, <2>2, <2>3, <2>4
  <1>8. \A m \in 1 .. Len(f2) : f2[m] \notin u
    BY Zenon, <1>4 DEF Owned
  <1>9. ASSUME NEW x \in 1..c
        PROVE  (\E m \in 1 .. Len(f2) : x = f2[m]) \/ x \in u
    <2>1. CASE \E m \in 1 .. Len(f) : x = f[m]
      BY Zenon, <2>1, <1>6
    <2>2. CASE \E n \in k + 1 .. Len(b) : x = b[n]
      BY Zenon, <2>2, <1>5
    <2> QED
      BY Zenon, <2>1, <2>2 DEF Owned
  <1>10. 0 + 1 .. Len(<<>>) = {}
    OBVIOUS
  <1>11. Owned(f2, <<>>, 0, u, c)
    BY Zenon, <1>7, <1>8, <1>9, <1>10 DEF Owned
  <1> QED
    BY Zenon, <1>3, <1>11 DEF f2, r

-----------------------------------------------------------------------------
(* The order of the datagrams: p were passed on, w[m] is the one received  *)
(* into place m of the batch, for the places D that wait, s are in the     *)
(* socket, and a is the last that has arrived.                             *)
Ordered(p, D, w, s, a) ==
    /\ \A m, n \in 1 .. Len(p) : m < n => p[m] < p[n]
    /\ \A m, n \in D : m < n => w[m] < w[n]
    /\ \A m, n \in 1 .. Len(s) : m < n => s[m] < s[n]
    /\ \A m \in 1 .. Len(p), n \in D : p[m] < w[n]
    /\ \A m \in 1 .. Len(p), n \in 1 .. Len(s) : p[m] < s[n]
    /\ \A m \in D, n \in 1 .. Len(s) : w[m] < s[n]
    /\ \A m \in 1 .. Len(p) : p[m] <= a
    /\ \A m \in D : w[m] <= a
    /\ \A m \in 1 .. Len(s) : s[m] <= a

(* recvmmsg takes datagrams from the front of the socket.                  *)
LEMMA OrderedReceived ==
    ASSUME NEW S, NEW p, NEW s \in Seq(S), NEW a, NEW g \in 0 .. Len(s), NEW v, NEW w,
           Ordered(p, {}, v, s, a), \A m \in 1..g : w[m] = s[m]
    PROVE  Ordered(p, 1..g, w, SubSeq(s, g + 1, Len(s)), a)
  <1> DEFINE r == SubSeq(s, g + 1, Len(s))
  <1>1. Len(r) = Len(s) - g /\ \A n \in 1 .. Len(s) - g : r[n] = s[g + n]
    BY Zenon, Ending
  <1> HIDE DEF r
  <1>2. Len(s) \in Nat /\ g \in Nat /\ g <= Len(s)
    BY LenProperties
  <1>3. /\ \A m \in 1..g : m \in 1 .. Len(s) /\ w[m] = s[m]
        /\ \A n \in 1 .. Len(r) : g + n \in 1 .. Len(s) /\ r[n] = s[g + n]
        /\ \A m \in 1..g, n \in 1 .. Len(r) : m < g + n
        /\ \A m, n \in 1 .. Len(r) : m < n => g + m < g + n
    BY <1>1, <1>2
  <1>4. /\ \A m, n \in 1..g : m < n => w[m] < w[n]
        /\ \A m, n \in 1 .. Len(r) : m < n => r[m] < r[n]
    BY Zenon, <1>3 DEF Ordered
  <1>5. /\ \A m \in 1 .. Len(p), n \in 1..g : p[m] < w[n]
        /\ \A m \in 1 .. Len(p), n \in 1 .. Len(r) : p[m] < r[n]
        /\ \A m \in 1..g, n \in 1 .. Len(r) : w[m] < r[n]
    BY Zenon, <1>3 DEF Ordered
  <1>6. /\ \A m \in 1..g : w[m] <= a
        /\ \A n \in 1 .. Len(r) : r[n] <= a
    BY Zenon, <1>3 DEF Ordered
  <1>7. Ordered(p, 1..g, w, r, a)
    BY Zenon, <1>4, <1>5, <1>6 DEF Ordered
  <1> QED
    BY Zenon, <1>7 DEF r

(* The callback gets the first of those that wait.                         *)
LEMMA OrderedPassed ==
    ASSUME NEW S, NEW p \in Seq(S), NEW k \in Nat, NEW g \in Nat, k < g, NEW w, NEW s, NEW a,
           w[k + 1] \in S, Ordered(p, k + 1 .. g, w, s, a)
    PROVE  Ordered(Append(p, w[k + 1]), (k + 1) + 1 .. g, w, s, a)
  <1> DEFINE q == Append(p, w[k + 1])
  <1>1. /\ Len(p) \in Nat /\ Len(q) = Len(p) + 1 /\ q[Len(p) + 1] = w[k + 1]
        /\ \A m \in 1 .. Len(p) : q[m] = p[m]
    OBVIOUS
  <1> HIDE DEF q
  <1>2. /\ \A m \in 1 .. Len(q) : (m \in 1 .. Len(p) /\ q[m] = p[m]) \/ m = Len(p) + 1
        /\ \A m \in 1 .. Len(p) : m \in 1 .. Len(q) /\ ~(Len(p) + 1 < m)
        /\ ~(Len(p) + 1 < Len(p) + 1)
        /\ \A n \in (k + 1) + 1 .. g : n \in k + 1 .. g /\ k + 1 < n
        /\ k + 1 \in k + 1 .. g
    BY <1>1
  <1>3. \A m, n \in 1 .. Len(q) : m < n => q[m] < q[n]
    BY Zenon, <1>1, <1>2 DEF Ordered
  <1>4. /\ \A m \in 1 .. Len(q), n \in (k + 1) + 1 .. g : q[m] < w[n]
        /\ \A m, n \in (k + 1) + 1 .. g : m < n => w[m] < w[n]
    BY Zenon, <1>1, <1>2 DEF Ordered
  <1>5. /\ \A m \in 1 .. Len(q), n \in 1 .. Len(s) : q[m] < s[n]
        /\ \A m \in (k + 1) + 1 .. g, n \in 1 .. Len(s) : w[m] < s[n]
        /\ \A m \in 1 .. Len(q) : q[m] <= a
        /\ \A m \in (k + 1) + 1 .. g : w[m] <= a
    BY Zenon, <1>1, <1>2 DEF Ordered
  <1>6. Ordered(q, (k + 1) + 1 .. g, w, s, a)
    BY Zenon, <1>3, <1>4, <1>5 DEF Ordered
  <1> QED
    BY Zenon, <1>6 DEF q

(* A batch that is dropped, and a socket that is closed.                   *)
LEMMA OrderedDropped ==
    ASSUME NEW p, NEW D, NEW w, NEW v, NEW s, NEW a, Ordered(p, D, w, s, a)
    PROVE  Ordered(p, {}, v, s, a) /\ Ordered(p, {}, v, <<>>, a)
  <1>1. 1 .. Len(<<>>) = {}
    OBVIOUS
  <1> QED
    BY Zenon, <1>1 DEF Ordered

(* The next datagram comes last.                                           *)
LEMMA OrderedArrived ==
    ASSUME NEW p, NEW D, NEW w, NEW S, NEW s \in Seq(S), NEW a \in Nat,
           a + 1 \in S,
           \A m \in 1 .. Len(p) : p[m] \in Nat, \A m \in D : w[m] \in Nat,
           \A m \in 1 .. Len(s) : s[m] \in Nat, Ordered(p, D, w, s, a)
    PROVE  Ordered(p, D, w, Append(s, a + 1), a + 1)
  <1> DEFINE t == Append(s, a + 1)
  <1>1. /\ Len(s) \in Nat /\ Len(t) = Len(s) + 1 /\ t[Len(s) + 1] = a + 1
        /\ \A m \in 1 .. Len(s) : t[m] = s[m]
    OBVIOUS
  <1> HIDE DEF t
  <1>2. /\ \A m \in 1 .. Len(t) : (m \in 1 .. Len(s) /\ t[m] = s[m]) \/ m = Len(s) + 1
        /\ \A m \in 1 .. Len(s) : ~(Len(s) + 1 < m)
        /\ ~(Len(s) + 1 < Len(s) + 1)
    BY <1>1
  <1>3. /\ \A m \in 1 .. Len(p) : p[m] < a + 1 /\ p[m] <= a + 1
        /\ \A m \in D : w[m] < a + 1 /\ w[m] <= a + 1
        /\ \A m \in 1 .. Len(s) : s[m] < a + 1 /\ s[m] <= a + 1
        /\ a + 1 <= a + 1
    BY DEF Ordered
  <1>4. \A m, n \in 1 .. Len(t) : m < n => t[m] < t[n]
    BY Zenon, <1>1, <1>2, <1>3 DEF Ordered
  <1>5. /\ \A m \in 1 .. Len(p), n \in 1 .. Len(t) : p[m] < t[n]
        /\ \A m \in D, n \in 1 .. Len(t) : w[m] < t[n]
        /\ \A m \in 1 .. Len(t) : t[m] <= a + 1
    BY Zenon, <1>1, <1>2, <1>3 DEF Ordered
  <1>6. Ordered(p, D, w, t, a + 1)
    BY Zenon, <1>3, <1>4, <1>5 DEF Ordered
  <1> QED
    BY Zenon, <1>6 DEF t

(* Only the waiting places count.                                          *)
LEMMA OrderedSame ==
    ASSUME NEW p, NEW D, NEW w, NEW v, NEW s, NEW a, Ordered(p, D, w, s, a),
           \A m \in D : v[m] = w[m]
    PROVE  Ordered(p, D, v, s, a)
  BY Zenon DEF Ordered

-----------------------------------------------------------------------------
(* Counting buffers.                                                       *)

LEMMA CountInterval ==
    ASSUME NEW c \in Nat
    PROVE  IsFiniteSet(1..c) /\ Cardinality(1..c) = c
  <1>1. IsFiniteSet(1..c) /\ Cardinality(1..c) = IF 1 > c THEN 0 ELSE c - 1 + 1
    BY FS_Interval
  <1> DEFINE x == Cardinality(1..c)
  <1>2. x = IF 1 > c THEN 0 ELSE c - 1 + 1
    BY Zenon, <1>1
  <1> HIDE DEF x
  <1>3. x = c
    BY <1>2
  <1> QED
    BY Zenon, <1>1, <1>3 DEF x

(* A sequence without repetitions has as many elements as it is long.      *)
LEMMA CountSequence ==
    ASSUME NEW S, NEW s \in Seq(S), \A m, n \in 1 .. Len(s) : s[m] = s[n] => m = n
    PROVE  IsFiniteSet(Range(s)) /\ Cardinality(Range(s)) = Len(s)
  <1>1. Len(s) \in Nat /\ DOMAIN s = 1 .. Len(s) /\ s \in [1 .. Len(s) -> S]
    BY Zenon, LenProperties
  <1>2. Range(s) = { s[n] : n \in 1 .. Len(s) }
    BY Zenon, <1>1 DEF Range
  <1>3. s \in Bijection(1 .. Len(s), Range(s))
    <2>1. s \in [1 .. Len(s) -> Range(s)]
      BY Zenon, <1>1, <1>2
    <2> QED
      BY Zenon, <2>1, <1>2 DEF Bijection, Injection, Surjection, IsInjective
  <1>4. ExistsBijection(1 .. Len(s), Range(s))
    BY Zenon, <1>3 DEF ExistsBijection
  <1>5. IsFiniteSet(1 .. Len(s)) /\ Cardinality(1 .. Len(s)) = Len(s)
    BY Zenon, <1>1, CountInterval
  <1> QED
    BY Zenon, <1>4, <1>5, FS_Bijection

(* One owner each: the numbers of buffers add up.                          *)
Counted(f, r, u, c) ==
    /\ Range(f) \cup Range(r) \cup u = 1..c
    /\ Len(f) + Len(r) + Cardinality(u) = c

LEMMA OwnedCount ==
    ASSUME NEW c \in Nat, NEW f \in Seq(1..c), NEW b \in Seq(1..c), NEW k \in 0 .. Len(b),
           NEW u \in SUBSET (1..c), Owned(f, b, k, u, c)
    PROVE  Counted(f, SubSeq(b, k + 1, Len(b)), u, c)
  <1> DEFINE r == SubSeq(b, k + 1, Len(b))
  <1>1. Len(f) \in Nat /\ Len(b) \in Nat /\ k \in Nat
    OBVIOUS
  <1>2. /\ r \in Seq(1..c) /\ Len(r) = Len(b) - k
        /\ \A n \in 1 .. Len(b) - k : r[n] = b[k + n]
    BY Zenon, Ending
  <1> HIDE DEF r
  <1>3. /\ Len(r) \in Nat
        /\ \A n \in 1 .. Len(r) : k + n \in k + 1 .. Len(b) /\ r[n] = b[k + n]
        /\ \A m, n \in 1 .. Len(r) : k + m = k + n => m = n
        /\ \A n \in k + 1 .. Len(b) : n - k \in 1 .. Len(r) /\ k + (n - k) = n
    BY <1>1, <1>2
  <1>4. /\ \A m, n \in 1 .. Len(r) : r[m] = r[n] => m = n
        /\ \A m \in 1 .. Len(f), n \in 1 .. Len(r) : f[m] # r[n]
        /\ \A n \in 1 .. Len(r) : r[n] \notin u
    <2>1. ASSUME NEW m \in 1 .. Len(r), NEW n \in 1 .. Len(r), r[m] = r[n]
          PROVE  m = n
      <3>1. b[k + m] = b[k + n] /\ k + m \in k + 1 .. Len(b) /\ k + n \in k + 1 .. Len(b)
        BY Zenon, <2>1, <1>3
      <3>2. k + m = k + n
        BY Zenon, <3>1 DEF Owned
      <3> QED
        BY Zenon, <3>2, <1>3
    <2>2. ASSUME NEW m \in 1 .. Len(f), NEW n \in 1 .. Len(r)
          PROVE  f[m] # r[n]
      BY Zenon, <1>3 DEF Owned
    <2>3. ASSUME NEW n \in 1 .. Len(r)
          PROVE  r[n] \notin u
      BY Zenon, <1>3 DEF Owned
    <2> QED
      BY Zenon, <2>1, <2>2, <2>3
  <1>5. /\ Range(f) = { f[m] : m \in 1 .. Len(f) } /\ Range(r) = { r[n] : n \in 1 .. Len(r) }
        /\ Range(f) \subseteq 1..c /\ Range(r) \subseteq 1..c
    <2>1. DOMAIN f = 1 .. Len(f) /\ DOMAIN r = 1 .. Len(r)
      BY <1>2
    <2>2. /\ \A m \in 1 .. Len(f) : f[m] \in 1..c
          /\ \A n \in 1 .. Len(r) : r[n] \in 1..c
      BY Zenon, <1>2, ElementOfSeq
    <2>3. Range(f) = { f[m] : m \in 1 .. Len(f) } /\ Range(r) = { r[n] : n \in 1 .. Len(r) }
      BY Zenon, <2>1 DEF Range
    <2> QED
      BY Zenon, <2>2, <2>3
  <1>6. Range(f) \cap Range(r) = {} /\ (Range(f) \cup Range(r)) \cap u = {}
    BY SMTT(30), <1>4, <1>5 DEF Owned
  <1>7. Range(f) \cup Range(r) \cup u = 1..c
    <2>1. ASSUME NEW x \in 1..c
          PROVE  x \in Range(f) \/ x \in Range(r) \/ x \in u
      <3>1. CASE \E m \in 1 .. Len(f) : x = f[m]
        BY Zenon, <3>1, <1>5
      <3>2. CASE \E n \in k + 1 .. Len(b) : x = b[n]
        <4>1. PICK n \in k + 1 .. Len(b) : x = b[n]
          BY Zenon, <3>2
        <4>2. r[n - k] = b[k + (n - k)] /\ n - k \in 1 .. Len(r) /\ k + (n - k) = n
          BY Zenon, <1>3
        <4>3. x = r[n - k]
          BY Zenon, <4>1, <4>2
        <4> QED
          BY Zenon, <4>2, <4>3, <1>5
      <3> QED
        BY Zenon, <3>1, <3>2 DEF Owned
    <2> QED
      BY Zenon, <2>1, <1>5
  <1>8. /\ IsFiniteSet(Range(f)) /\ Cardinality(Range(f)) = Len(f)
        /\ IsFiniteSet(Range(r)) /\ Cardinality(Range(r)) = Len(r)
    <2>1. \A m, n \in 1 .. Len(f) : f[m] = f[n] => m = n
      BY Zenon DEF Owned
    <2> QED
      BY Zenon, <2>1, <1>2, <1>4, CountSequence
  <1>9. IsFiniteSet(1..c) /\ Cardinality(1..c) = c
    BY Zenon, CountInterval
  <1>10. IsFiniteSet(u) /\ Cardinality(u) \in Nat
    BY Zenon, <1>9, FS_Subset, FS_CardinalityType
  <1>11. /\ IsFiniteSet(Range(f) \cup Range(r))
         /\ Cardinality(Range(f) \cup Range(r)) = Len(f) + Len(r)
    <2>1. /\ IsFiniteSet(Range(f) \cup Range(r))
          /\ Cardinality(Range(f) \cup Range(r)) =
                Len(f) + Len(r) - Cardinality(Range(f) \cap Range(r))
      BY Zenon, <1>8, FS_Union
    <2>2. Cardinality(Range(f) \cap Range(r)) = 0
      BY Zenon, <1>6, FS_EmptySet
    <2>3. Len(f) + Len(r) - 0 = Len(f) + Len(r)
      BY <1>1, <1>3
    <2> QED
      BY Zenon, <2>1, <2>2, <2>3
  <1>12. c = Len(f) + Len(r) + Cardinality(u)
    <2>1. Cardinality((Range(f) \cup Range(r)) \cup u) =
             Len(f) + Len(r) + Cardinality(u) - Cardinality((Range(f) \cup Range(r)) \cap u)
      BY Zenon, <1>10, <1>11, FS_Union
    <2>2. Cardinality((Range(f) \cup Range(r)) \cap u) = 0
      BY Zenon, <1>6, FS_EmptySet
    <2>3. Len(f) + Len(r) + Cardinality(u) - 0 = Len(f) + Len(r) + Cardinality(u)
      BY <1>1, <1>3, <1>10
    <2> QED
      BY Zenon, <2>1, <2>2, <2>3, <1>7, <1>9
  <1> QED
    BY Zenon, <1>7, <1>12 DEF r, Counted

-----------------------------------------------------------------------------
(* The inductive invariant.                                                *)

(* The buffers there is memory for.                                        *)
MaxBuffers == InitialBuffers + MaxPerRead + MaxDatagrams
Slots == 1..MaxBuffers

Passing == pc \in {"pass", "callback"}

(* The datagram in each place of the batch, and the places that hold one   *)
(* which waits for the callback.                                           *)
Batch == [m \in 1 .. Len(buffers) |-> content[buffers[m]]]
Waiting == IF Passing THEN i + 1 .. got ELSE {}
WaitingCount == IF Passing THEN got - i ELSE 0

(* HandleRead runs only in a receiver that exists, which has a descriptor. *)
(* A receiver that was stopped passes nothing on after the callback that   *)
(* stopped it, or after the one that followed a stop between Poll and      *)
(* HandleRead.                                                             *)
ControlInv ==
    /\ life \in {"none", "socket", "pool", "alive", "failed", "destroyed"} /\ fd_ \in BOOLEAN
    /\ started_ \in BOOLEAN /\ registered = started_
    /\ pc \in {"poll", "active", "acquire", "pass", "callback"}
    /\ packets_read \in Nat /\ got \in Nat
    /\ life = "alive" => fd_
    /\ life # "alive" => pc \in {"poll", "active"} /\ ~started_
    /\ fd_ => life \in {"socket", "pool", "alive"}
    /\ late \in 0..1
    /\ started_ => late = 0
    /\ late = 1 => pc \in {"poll", "callback"}

(* The batch exists from Acquire to ReleaseBatch.                          *)
BatchInv ==
    /\ created \in 0..MaxBuffers
    /\ buffers \in Seq(1..created) /\ free_buffers \in Seq(1..created)
    /\ i \in 0 .. Len(buffers)
    /\ pc \in {"poll", "active"} => buffers = <<>>
    /\ ~Passing => i = 0
    /\ Passing => i <= got /\ got <= Len(buffers)

(* Every buffer has one owner: its place in the pool, its place in the     *)
(* batch, or the datagrams that the user holds.                            *)
OwnerInv == Owned(free_buffers, buffers, i, KeptBuffers, created)

(* The user holds datagrams only of a receiver that was made.              *)
KeptInv ==
    /\ kept \subseteq [buffer : 1..created, id : 0..MaxDatagrams, copy : {1, 2},
                       original_size : Nat, truncated : BOOLEAN]
    /\ life \notin {"alive", "destroyed"} => kept = {}
    /\ KeptIsStable

MemoryInv ==
    /\ content \in [Slots -> 0..MaxDatagrams]
    /\ size_ \in [Slots -> 0..Capacity]

(* The user holds no more buffers than datagrams were passed on, and with  *)
(* those that wait and those in the socket these are no more than arrived. *)
CountInv ==
    /\ socket \in Seq(1..MaxDatagrams) /\ passed \in Seq(0..MaxDatagrams)
    /\ arrived \in 0..MaxDatagrams
    /\ Cardinality(KeptBuffers) <= Len(passed)
    /\ Len(passed) + WaitingCount + Len(socket) <= arrived

OrderInv == Ordered(passed, Waiting, Batch, socket, arrived)

UdpInv ==
    /\ ControlInv /\ BatchInv /\ OwnerInv /\ KeptInv /\ MemoryInv /\ CountInv /\ OrderInv

(* What arithmetic needs to know.                                          *)
LEMMA Numbers ==
    ASSUME UdpInv
    PROVE  /\ created \in Nat /\ Len(buffers) \in Nat /\ Len(free_buffers) \in Nat
           /\ i \in Nat /\ got \in Nat /\ Len(passed) \in Nat /\ Len(socket) \in Nat
           /\ arrived \in Nat /\ WaitingCount \in Nat
           /\ KeptBuffers \in SUBSET (1..created)
           /\ IsFiniteSet(KeptBuffers) /\ Cardinality(KeptBuffers) \in Nat
           /\ \A b \in 1..created : b \in Slots
           /\ MaxBuffers \in Nat
  <1>1. /\ created \in Nat /\ Len(buffers) \in Nat /\ Len(free_buffers) \in Nat
        /\ i \in Nat /\ got \in Nat
        /\ \A b \in 1..created : b \in Slots
        /\ MaxBuffers \in Nat
    BY ReceiverAssumption DEF UdpInv, BatchInv, ControlInv, Slots, MaxBuffers
  <1>2. Len(passed) \in Nat /\ Len(socket) \in Nat /\ arrived \in Nat
    BY ReceiverAssumption DEF UdpInv, CountInv
  <1>3. WaitingCount \in Nat
    BY <1>1 DEF UdpInv, BatchInv, WaitingCount
  <1>4. KeptBuffers \in SUBSET (1..created)
    BY Zenon DEF UdpInv, KeptInv, KeptBuffers
  <1>5. IsFiniteSet(KeptBuffers) /\ Cardinality(KeptBuffers) \in Nat
    BY Zenon, <1>1, <1>4, CountInterval, FS_Subset, FS_CardinalityType
  <1> QED
    BY Zenon, <1>1, <1>2, <1>3, <1>4, <1>5

LEMMA InvTypes ==
    ASSUME UdpInv
    PROVE  TypeOK
  <1>1. /\ i \in 0 .. Len(buffers) /\ buffers \in Seq(1..created)
        /\ free_buffers \in Seq(1..created)
    BY Zenon DEF UdpInv, BatchInv
  <1>2. DOMAIN content = Slots
    BY Zenon DEF UdpInv, MemoryInv
  <1>3. /\ content \in [DOMAIN content -> 0..MaxDatagrams]
        /\ size_ \in [DOMAIN content -> 0..Capacity]
    BY Zenon, <1>2 DEF UdpInv, MemoryInv
  <1>4. late \in Nat
    BY DEF UdpInv, ControlInv
  <1> QED
    BY Zenon, <1>1, <1>3, <1>4 DEF UdpInv, ControlInv, KeptInv, CountInv, TypeOK

LEMMA InvLosesNothing ==
    ASSUME UdpInv
    PROVE  NothingLost
  <1>1. created \in Nat /\ KeptBuffers \in SUBSET (1..created)
    BY Zenon, Numbers
  <1>2. /\ buffers \in Seq(1..created) /\ free_buffers \in Seq(1..created)
        /\ i \in 0 .. Len(buffers)
        /\ Owned(free_buffers, buffers, i, KeptBuffers, created)
    BY Zenon DEF UdpInv, BatchInv, OwnerInv
  <1>3. /\ Range(free_buffers) \cup Range(InFlight) \cup KeptBuffers = 1..created
        /\ Len(free_buffers) + Len(InFlight) + Cardinality(KeptBuffers) = created
    <2>1. Counted(free_buffers, SubSeq(buffers, i + 1, Len(buffers)), KeptBuffers, created)
      BY Zenon, <1>1, <1>2, OwnedCount
    <2> QED
      BY Zenon, <2>1 DEF InFlight, Counted
  <1>4. (fd_ => life \in {"socket", "pool", "alive"}) /\ (registered => fd_)
    BY Zenon DEF UdpInv, ControlInv
  <1> QED
    BY Zenon, <1>3, <1>4, InvTypes DEF NothingLost

-----------------------------------------------------------------------------
(* What a step leaves alone keeps its part of the invariant.               *)
LEMMA Frames ==
    ASSUME UdpInv
    PROVE  /\ UNCHANGED <<life, fd_, started_, registered, pc, packets_read, got, late>>
                 => ControlInv'
           /\ UNCHANGED <<pc, got, i, buffers, free_buffers, created>> => BatchInv'
           /\ UNCHANGED <<free_buffers, buffers, i, kept, created>> => OwnerInv'
           /\ UNCHANGED <<life, kept, created, content, size_>> => KeptInv'
           /\ UNCHANGED <<content, size_>> => MemoryInv'
           /\ UNCHANGED <<pc, got, i, kept, socket, passed, arrived>> => CountInv'
           /\ UNCHANGED <<kept, socket, passed, arrived>> /\ ~Passing' => CountInv'
           /\ UNCHANGED <<pc, got, i, buffers, content, socket, passed, arrived>> => OrderInv'
           /\ UNCHANGED <<socket, passed, arrived>> /\ ~Passing' => OrderInv'
  <1>1. UNCHANGED <<life, fd_, started_, registered, pc, packets_read, got, late>>
           => ControlInv'
    BY DEF UdpInv, ControlInv
  <1>2. UNCHANGED <<pc, got, i, buffers, free_buffers, created>> => BatchInv'
    BY Zenon DEF UdpInv, BatchInv, Passing
  <1>3. UNCHANGED kept => KeptBuffers' = KeptBuffers
    BY Zenon DEF KeptBuffers
  <1>4. UNCHANGED <<free_buffers, buffers, i, kept, created>> => OwnerInv'
    BY Zenon, <1>3 DEF UdpInv, OwnerInv
  <1>5. UNCHANGED <<life, kept, created, content, size_>> => KeptInv'
    BY Zenon DEF UdpInv, KeptInv, KeptIsStable
  <1>6. UNCHANGED <<content, size_>> => MemoryInv'
    BY Zenon DEF UdpInv, MemoryInv
  <1>7. UNCHANGED <<pc, got, i>> => WaitingCount' = WaitingCount /\ Waiting' = Waiting
    BY Zenon DEF WaitingCount, Waiting, Passing
  <1>8. UNCHANGED <<pc, got, i, kept, socket, passed, arrived>> => CountInv'
    BY Zenon, <1>3, <1>7 DEF UdpInv, CountInv
  <1>9. ASSUME UNCHANGED <<kept, socket, passed, arrived>>, ~Passing'
        PROVE  CountInv'
    <2>1. WaitingCount' = 0
      BY Zenon, <1>9 DEF WaitingCount
    <2>2. Len(passed) + WaitingCount + Len(socket) <= arrived
      BY Zenon DEF UdpInv, CountInv
    <2>3. Len(passed) + 0 + Len(socket) <= arrived
      BY SMTT(30), <2>2, Numbers
    <2> QED
      BY Zenon, <1>3, <1>9, <2>1, <2>3 DEF UdpInv, CountInv
  <1>10. UNCHANGED <<pc, got, i, buffers, content, socket, passed, arrived>> => OrderInv'
    <2>1. UNCHANGED <<buffers, content>> => Batch' = Batch
      BY Zenon DEF Batch
    <2> QED
      BY Zenon, <1>7, <2>1 DEF UdpInv, OrderInv
  <1>11. ASSUME UNCHANGED <<socket, passed, arrived>>, ~Passing'
         PROVE  OrderInv'
    <2>1. Waiting' = {}
      BY Zenon, <1>11 DEF Waiting
    <2>2. Ordered(passed, {}, Batch', socket, arrived)
      BY Zenon, OrderedDropped DEF UdpInv, OrderInv
    <2> QED
      BY Zenon, <1>11, <2>1, <2>2 DEF OrderInv
  <1> QED
    BY Zenon, <1>1, <1>2, <1>4, <1>5, <1>6, <1>8, <1>9, <1>10, <1>11

(* Nothing is owned when there is nothing.                                 *)
LEMMA OwnedNothing == Owned(<<>>, <<>>, 0, {}, 0)
  <1>1. 1 .. Len(<<>>) = {} /\ 0 + 1 .. Len(<<>>) = {} /\ 1..0 = {}
    OBVIOUS
  <1> QED
    BY Zenon, <1>1 DEF Owned

LEMMA UdpInit ==
    ASSUME Init
    PROVE  UdpInv
  <1>1. ControlInv
    <2>1. 0 \in Nat /\ 0 \in 0..1 /\ 0 # 1 /\ "none" # "alive"
      OBVIOUS
    <2> QED
      BY Zenon, <2>1 DEF Init, ControlInv
  <1>2. KeptBuffers = {} /\ Cardinality(KeptBuffers) = 0
    BY Zenon, FS_EmptySet DEF Init, KeptBuffers
  <1>3. ~Passing
    BY Zenon DEF Init, Passing
  <1>4. WaitingCount = 0 /\ Waiting = {}
    BY Zenon, <1>3 DEF WaitingCount, Waiting
  <1>5. BatchInv
    BY <1>3, ReceiverAssumption DEF Init, BatchInv, MaxBuffers
  <1>6. OwnerInv
    BY Zenon, <1>2, OwnedNothing DEF Init, OwnerInv
  <1>7. KeptInv
    BY Zenon DEF Init, KeptInv, KeptIsStable
  <1>8. MemoryInv
    BY ReceiverAssumption DEF Init, MemoryInv, Slots, MaxBuffers
  <1>9. CountInv
    <2>1. /\ <<>> \in Seq(1..MaxDatagrams) /\ <<>> \in Seq(0..MaxDatagrams)
          /\ 0 \in 0..MaxDatagrams /\ 0 <= Len(<<>>) /\ Len(<<>>) + 0 + Len(<<>>) <= 0
      BY ReceiverAssumption
    <2> QED
      BY Zenon, <2>1, <1>2, <1>4 DEF Init, CountInv
  <1>10. OrderInv
    <2>1. 1 .. Len(<<>>) = {}
      OBVIOUS
    <2> QED
      BY Zenon, <2>1, <1>4 DEF Init, OrderInv, Ordered
  <1> QED
    BY Zenon, <1>1, <1>5, <1>6, <1>7, <1>8, <1>9, <1>10 DEF UdpInv

LEMMA StutterStep ==
    ASSUME UdpInv, UNCHANGED vars
    PROVE  UdpInv'
  BY Zenon, Frames DEF vars, object, pool, memory, batch, UdpInv

-----------------------------------------------------------------------------
(* The object.                                                             *)

LEMMA OpenSocketStep ==
    ASSUME UdpInv, OpenSocket
    PROVE  UdpInv'
  <1> USE DEF OpenSocket, batch, pool, memory
  <1>1. (fd_ \in BOOLEAN)'
    BY Zenon
  <1>2. ControlInv'
    BY Zenon, <1>1 DEF UdpInv, ControlInv
  <1>3. KeptInv'
    <2>1. kept = {}
      BY Zenon DEF UdpInv, KeptInv
    <2> QED
      BY Zenon, <2>1 DEF KeptInv, KeptIsStable
  <1> QED
    BY Zenon, <1>2, <1>3, Frames DEF UdpInv

LEMMA MakePoolStep ==
    ASSUME UdpInv, MakePool
    PROVE  UdpInv'
  <1> USE DEF MakePool, batch, memory
  <1>1. ControlInv'
    BY Zenon DEF UdpInv, ControlInv
  <1>2. kept = {} /\ kept' = {} /\ KeptBuffers' = {}
    BY Zenon DEF UdpInv, KeptInv, KeptBuffers
  <1>3. pc \in {"poll", "active"} /\ buffers = <<>> /\ i = 0
    BY Zenon DEF UdpInv, ControlInv, BatchInv, Passing
  <1>4. InitialBuffers \in Nat /\ InitialBuffers \in 0..MaxBuffers
    BY ReceiverAssumption DEF MaxBuffers
  <1>5. /\ (free_buffers \in Seq(1..created))'
        /\ Owned(free_buffers', <<>>, 0, {}, created')
    BY Zenon, <1>4, OwnedFirst
  <1>6. OwnerInv'
    BY Zenon, <1>2, <1>3, <1>5 DEF OwnerInv
  <1>7. BatchInv'
    BY <1>3, <1>4, <1>5 DEF BatchInv, Passing
  <1>8. KeptInv'
    BY Zenon, <1>2 DEF KeptInv, KeptIsStable
  <1> QED
    BY Zenon, <1>1, <1>6, <1>7, <1>8, Frames DEF UdpInv

(* The pool goes, when nobody holds a datagram and there is no batch.      *)
LEMMA PoolGoes ==
    ASSUME UdpInv, pc \in {"poll", "active"}, kept' = {}, free_buffers' = <<>>, created' = 0,
           UNCHANGED <<pc, batch>>
    PROVE  BatchInv' /\ OwnerInv' /\ KeptInv' /\ KeptBuffers' = {}
  <1> USE DEF batch
  <1>1. KeptBuffers' = {}
    BY Zenon DEF KeptBuffers
  <1>2. buffers = <<>> /\ i = 0 /\ buffers' = <<>> /\ i' = 0
    BY Zenon DEF UdpInv, BatchInv, Passing
  <1>3. OwnerInv'
    BY Zenon, <1>1, <1>2, OwnedNothing DEF OwnerInv
  <1>4. BatchInv'
    BY <1>2, ReceiverAssumption DEF BatchInv, Passing, MaxBuffers
  <1>5. KeptInv'
    BY Zenon DEF KeptInv, KeptIsStable
  <1> QED
    BY Zenon, <1>1, <1>3, <1>4, <1>5

LEMMA ConstructorThrowsStep ==
    ASSUME UdpInv, ConstructorThrows
    PROVE  UdpInv'
  <1> USE DEF ConstructorThrows, CloseFd, batch, memory
  <1>1. ControlInv' /\ pc \in {"poll", "active"}
    BY Zenon DEF UdpInv, ControlInv
  <1>2. kept' = {}
    BY Zenon DEF UdpInv, KeptInv
  <1>3. BatchInv' /\ OwnerInv' /\ KeptInv'
    BY Zenon, <1>1, <1>2, PoolGoes
  <1> QED
    BY Zenon, <1>1, <1>3, Frames DEF UdpInv

LEMMA ConstructedStep ==
    ASSUME UdpInv, Constructed
    PROVE  UdpInv'
  <1> USE DEF Constructed, batch, pool, memory
  <1>1. ControlInv'
    BY Zenon DEF UdpInv, ControlInv
  <1>2. KeptInv'
    BY Zenon DEF UdpInv, KeptInv, KeptIsStable
  <1> QED
    BY Zenon, <1>1, <1>2, Frames DEF UdpInv

LEMMA DestroyStep ==
    ASSUME UdpInv, Destroy
    PROVE  UdpInv'
  <1> USE DEF Destroy, CloseFd, batch, memory
  <1>1. ControlInv'
    BY Zenon DEF UdpInv, ControlInv
  <1>2. ~Passing'
    BY Zenon DEF Passing
  <1>3. KeptInv' /\ BatchInv' /\ OwnerInv'
    <2>1. CASE kept = {}
      BY Zenon, <2>1, PoolGoes DEF DropPoolUnless
    <2>2. CASE kept # {}
      <3>1. UNCHANGED <<free_buffers, created>>
        BY Zenon, <2>2 DEF DropPoolUnless, pool
      <3>2. KeptInv'
        BY Zenon, <3>1 DEF UdpInv, KeptInv, KeptIsStable
      <3> QED
        BY Zenon, <3>1, <3>2, Frames
    <2> QED
      BY Zenon, <2>1, <2>2
  <1>4. CountInv'
    <2>1. KeptBuffers' = KeptBuffers
      BY Zenon DEF KeptBuffers
    <2>2. WaitingCount' = 0
      BY Zenon, <1>2 DEF WaitingCount
    <2>3. /\ <<>> \in Seq(1..MaxDatagrams)
          /\ Len(passed) + 0 + Len(<<>>) <= arrived
      BY SMTT(30), Numbers DEF UdpInv, CountInv
    <2> QED
      BY Zenon, <2>1, <2>2, <2>3 DEF UdpInv, CountInv
  <1>5. OrderInv'
    <2>1. Waiting' = {}
      BY Zenon, <1>2 DEF Waiting
    <2>2. Ordered(passed, {}, Batch', <<>>, arrived)
      BY Zenon, OrderedDropped DEF UdpInv, OrderInv
    <2> QED
      BY Zenon, <2>1, <2>2 DEF OrderInv
  <1> QED
    BY Zenon, <1>1, <1>3, <1>4, <1>5, Frames DEF UdpInv

LEMMA StartStep ==
    ASSUME UdpInv, Start \/ Stop
    PROVE  UdpInv'
  <1> USE DEF Start, Stop, InUserCode, object, batch, pool, memory
  <1>1. ControlInv'
    <2>1. late' = 0 /\ life' = life /\ fd_' = fd_ /\ pc' = pc /\ life = "alive"
      BY Zenon
    <2>2. (started_ \in BOOLEAN /\ registered = started_)'
      BY Zenon
    <2>3. 0 \in 0..1 /\ 0 # 1
      OBVIOUS
    <2>4. UNCHANGED <<packets_read, got>>
      BY Zenon
    <2> QED
      BY Zenon, <2>1, <2>2, <2>3, <2>4 DEF UdpInv, ControlInv
  <1> QED
    BY Zenon, <1>1, Frames DEF UdpInv

LEMMA PollStep ==
    ASSUME UdpInv, Poll \/ HandleRead
    PROVE  UdpInv'
  <1> USE DEF Poll, HandleRead, CountFrom, object, batch, pool, memory
  <1>1. ControlInv'
    BY DEF UdpInv, ControlInv
  <1>2. ~Passing' /\ ~Passing
    BY Zenon DEF Passing
  <1>3. BatchInv'
    BY Zenon, <1>2 DEF UdpInv, BatchInv
  <1> QED
    BY Zenon, <1>1, <1>2, <1>3, Frames DEF UdpInv

LEMMA ArriveStep ==
    ASSUME UdpInv, Arrive
    PROVE  UdpInv'
  <1> USE DEF Arrive, object, batch, pool, memory
  <1>1. CountInv'
    <2>1. KeptBuffers' = KeptBuffers
      BY Zenon DEF KeptBuffers
    <2>2. WaitingCount' = WaitingCount
      BY Zenon DEF WaitingCount, Passing
    <2>3. arrived + 1 \in 1..MaxDatagrams /\ arrived + 1 \in 0..MaxDatagrams
      BY ReceiverAssumption DEF UdpInv, CountInv
    <2>4. socket \in Seq(1..MaxDatagrams)
      BY Zenon DEF UdpInv, CountInv
    <2>5. socket' \in Seq(1..MaxDatagrams) /\ Len(socket') = Len(socket) + 1
      BY Zenon, <2>3, <2>4, AppendProperties
    <2>6. Len(passed) + WaitingCount + (Len(socket) + 1) <= arrived + 1
      <3> DEFINE p == Len(passed)
                 s == Len(socket)
      <3>1. /\ p \in Nat /\ s \in Nat /\ WaitingCount \in Nat /\ arrived \in Nat
            /\ p + WaitingCount + s <= arrived
        BY Zenon, Numbers DEF UdpInv, CountInv
      <3> HIDE DEF p, s
      <3>2. p + WaitingCount + (s + 1) <= arrived + 1
        BY <3>1
      <3> QED
        BY Zenon, <3>2 DEF p, s
    <2> QED
      BY Zenon, <2>1, <2>2, <2>3, <2>5, <2>6 DEF UdpInv, CountInv
  <1>2. OrderInv'
    <2>1. /\ socket \in Seq(1..MaxDatagrams) /\ arrived \in Nat
          /\ arrived + 1 \in 1..MaxDatagrams
      BY ReceiverAssumption DEF UdpInv, CountInv
    <2>2. /\ \A m \in 1 .. Len(passed) : passed[m] \in Nat
          /\ \A m \in 1 .. Len(socket) : socket[m] \in Nat
      <3>1. socket \in Seq(1..MaxDatagrams) /\ passed \in Seq(0..MaxDatagrams)
        BY Zenon DEF UdpInv, CountInv
      <3>2. /\ \A x \in 0..MaxDatagrams : x \in Nat
            /\ \A x \in 1..MaxDatagrams : x \in Nat
        BY ReceiverAssumption
      <3> QED
        BY Zenon, <3>1, <3>2, ElementOfSeq
    <2>3. \A m \in Waiting : Batch[m] \in Nat
      <3>1. \A m \in Waiting : m \in 1 .. Len(buffers)
        BY SMTT(30), Numbers DEF UdpInv, BatchInv, Waiting
      <3>2. \A m \in 1 .. Len(buffers) : buffers[m] \in Slots
        <4>1. buffers \in Seq(1..created)
          BY Zenon DEF UdpInv, BatchInv
        <4> QED
          BY Zenon, <4>1, Numbers, ElementOfSeq
      <3>3. \A b \in Slots : content[b] \in Nat
        BY ReceiverAssumption DEF UdpInv, MemoryInv
      <3> QED
        BY Zenon, <3>1, <3>2, <3>3 DEF Batch
    <2>4. Ordered(passed, Waiting, Batch, Append(socket, arrived + 1), arrived + 1)
      BY Zenon, <2>1, <2>2, <2>3, OrderedArrived DEF UdpInv, OrderInv
    <2>5. Waiting' = Waiting /\ Batch' = Batch
      BY Zenon DEF Waiting, Passing, Batch
    <2> QED
      BY Zenon, <2>4, <2>5 DEF OrderInv
  <1> QED
    BY Zenon, <1>1, <1>2, Frames DEF UdpInv

-----------------------------------------------------------------------------
(* Reading a batch.                                                        *)

(* Acquire makes a buffer only when the pool has none: all others are in   *)
(* the batch, which is not full, or with the user.                         *)
LEMMA RoomForOne ==
    ASSUME UdpInv, free_buffers = <<>>, i = 0, Len(buffers) < BatchSize
    PROVE  created + 1 \in 0..MaxBuffers
  <1>1. created \in Nat /\ KeptBuffers \in SUBSET (1..created) /\ Len(buffers) \in Nat
    BY Zenon, Numbers
  <1>2. /\ buffers \in Seq(1..created) /\ free_buffers \in Seq(1..created)
        /\ i \in 0 .. Len(buffers)
        /\ Owned(free_buffers, buffers, i, KeptBuffers, created)
    BY Zenon DEF UdpInv, BatchInv, OwnerInv
  <1>3. Counted(free_buffers, SubSeq(buffers, i + 1, Len(buffers)), KeptBuffers, created)
    BY Zenon, <1>1, <1>2, OwnedCount
  <1> DEFINE l == Len(SubSeq(buffers, i + 1, Len(buffers)))
             n == Len(buffers)
             u == Cardinality(KeptBuffers)
             z == Len(free_buffers)
  <1>4. l = n - i
    BY Zenon, <1>2, Ending
  <1>5. z + l + u = created
    BY Zenon, <1>3 DEF Counted
  <1>6. z = 0 /\ u \in Nat /\ n \in Nat /\ i = 0 /\ u <= Len(passed) /\ Len(passed) \in Nat
    BY Zenon, Numbers DEF UdpInv, CountInv
  <1>7. u <= MaxDatagrams
    <2> DEFINE p == Len(passed)
               s == Len(socket)
    <2>1. u <= p /\ p + WaitingCount + s <= arrived /\ arrived \in 0..MaxDatagrams
      BY Zenon DEF UdpInv, CountInv
    <2>2. u \in Nat /\ p \in Nat /\ s \in Nat /\ WaitingCount \in Nat
      BY Zenon, Numbers
    <2> HIDE DEF p, s, u
    <2> QED
      BY <2>1, <2>2, ReceiverAssumption
  <1>8. n < MaxPerRead
    <2>1. packets_read \in Nat
      BY Zenon DEF UdpInv, ControlInv
    <2> QED
      BY <1>6, <2>1, ReceiverAssumption DEF BatchSize, SmallerOf
  <1> HIDE DEF l, n, u, z
  <1>9. created = n + u
    BY <1>4, <1>5, <1>6
  <1> QED
    BY SMTT(30), <1>6, <1>7, <1>8, <1>9, ReceiverAssumption DEF MaxBuffers

LEMMA AcquireStep ==
    ASSUME UdpInv, Acquire
    PROVE  UdpInv'
  <1> USE DEF Acquire, object, memory
  <1>1. pc = "acquire" /\ pc' = "acquire" /\ ~Passing /\ ~Passing'
    BY Zenon DEF Passing
  <1>2. i = 0 /\ i' = 0
    BY Zenon, <1>1 DEF UdpInv, BatchInv
  <1>3. created \in Nat /\ KeptBuffers \in SUBSET (1..created)
    BY Zenon, Numbers
  <1>4. KeptBuffers' = KeptBuffers
    BY Zenon DEF KeptBuffers
  <1>5. buffers \in Seq(1..created) /\ free_buffers \in Seq(1..created)
    BY Zenon DEF UdpInv, BatchInv
  <1>6. /\ created' \in 0..MaxBuffers
        /\ (created' = created \/ created' = created + 1)
        /\ (buffers \in Seq(1..created))' /\ (free_buffers \in Seq(1..created))'
        /\ Owned(free_buffers', buffers', 0, KeptBuffers, created')
    <2>1. CASE free_buffers = <<>>
      <3>1. buffers' = Append(buffers, created + 1) /\ created' = created + 1
        BY Zenon, <2>1
      <3>2. free_buffers' = <<>>
        BY Zenon, <2>1
      <3>3. created + 1 \in 0..MaxBuffers
        BY Zenon, <2>1, <1>2, RoomForOne
      <3>4. Owned(<<>>, buffers, 0, KeptBuffers, created)
        BY Zenon, <2>1, <1>2 DEF UdpInv, OwnerInv
      <3>5. /\ Append(buffers, created + 1) \in Seq(1 .. created + 1)
            /\ Owned(<<>>, Append(buffers, created + 1), 0, KeptBuffers, created + 1)
        BY Zenon, <3>4, <1>3, <1>5, OwnedNew
      <3>6. <<>> \in Seq(1 .. created + 1)
        OBVIOUS
      <3> QED
        BY Zenon, <3>1, <3>2, <3>3, <3>5, <3>6
    <2>2. CASE free_buffers # <<>>
      <3>1. /\ buffers' = Append(buffers, free_buffers[Len(free_buffers)])
            /\ free_buffers' = SubSeq(free_buffers, 1, Len(free_buffers) - 1)
            /\ created' = created
        BY Zenon, <2>2
      <3>2. Owned(free_buffers, buffers, 0, KeptBuffers, created)
        BY Zenon, <1>2 DEF UdpInv, OwnerInv
      <3>3. /\ SubSeq(free_buffers, 1, Len(free_buffers) - 1) \in Seq(1..created)
            /\ Append(buffers, free_buffers[Len(free_buffers)]) \in Seq(1..created)
            /\ Owned(SubSeq(free_buffers, 1, Len(free_buffers) - 1),
                     Append(buffers, free_buffers[Len(free_buffers)]), 0, KeptBuffers, created)
        BY Zenon, <2>2, <3>2, <1>3, <1>5, OwnedAcquired
      <3>4. created \in 0..MaxBuffers
        BY Zenon DEF UdpInv, BatchInv
      <3> QED
        BY Zenon, <3>1, <3>3, <3>4
    <2> QED
      BY Zenon, <2>1, <2>2
  <1>7. OwnerInv'
    BY Zenon, <1>2, <1>4, <1>6 DEF OwnerInv
  <1>8. BatchInv'
    <2>1. Len(buffers') \in Nat
      BY <1>6
    <2>2. (i \in 0 .. Len(buffers))'
      BY <2>1, <1>2
    <2>3. pc' \notin {"poll", "active"}
      BY Zenon, <1>1
    <2> QED
      BY Zenon, <2>2, <2>3, <1>1, <1>2, <1>6 DEF BatchInv
  <1>9. KeptInv'
    <2>1. \A b \in 1..created : b \in 1..created'
      BY <1>3, <1>6
    <2> QED
      BY Zenon, <2>1 DEF UdpInv, KeptInv, KeptIsStable
  <1> QED
    BY Zenon, <1>1, <1>7, <1>8, <1>9, Frames DEF UdpInv

(* The vector of datagrams ends its life.                                  *)
LEMMA BatchGoes ==
    ASSUME UdpInv, NEW next \in {"poll", "acquire"}, ReleaseBatch(next), i' = 0,
           UNCHANGED <<created, kept>>
    PROVE  BatchInv' /\ OwnerInv' /\ ~Passing'
  <1> USE DEF ReleaseBatch, NotMoved
  <1>1. created \in Nat /\ KeptBuffers' = KeptBuffers
    BY Zenon, Numbers DEF KeptBuffers
  <1>2. /\ buffers \in Seq(1..created) /\ free_buffers \in Seq(1..created)
        /\ i \in 0 .. Len(buffers)
        /\ Owned(free_buffers, buffers, i, KeptBuffers, created)
    BY Zenon DEF UdpInv, BatchInv, OwnerInv
  <1>3. /\ free_buffers' \in Seq(1..created)
        /\ Owned(free_buffers', <<>>, 0, KeptBuffers, created)
    BY Zenon, <1>1, <1>2, OwnedReleased
  <1>4. OwnerInv'
    BY Zenon, <1>1, <1>3 DEF OwnerInv
  <1>5. ~Passing'
    BY Zenon DEF Passing
  <1>6. BatchInv'
    <2>1. <<>> \in Seq(1..created) /\ 0 \in 0 .. Len(<<>>)
      OBVIOUS
    <2> QED
      BY Zenon, <2>1, <1>3, <1>5 DEF UdpInv, BatchInv
  <1> QED
    BY Zenon, <1>4, <1>5, <1>6

LEMMA FailedReadStep ==
    ASSUME UdpInv, Interrupted \/ ReceiveError \/ ReceiveNothing
    PROVE  UdpInv'
  <1> USE DEF Interrupted, ReceiveError, ReceiveNothing, Full, object, memory
  <1>1. PICK next \in {"poll", "acquire"} : ReleaseBatch(next)
    BY Zenon
  <1>2. pc = "acquire" /\ pc' = next
    BY Zenon, <1>1 DEF ReleaseBatch
  <1>3. i' = 0
    BY Zenon, <1>2 DEF UdpInv, BatchInv, Passing
  <1>4. UNCHANGED <<life, fd_, started_, registered, packets_read, got, created, memory, kept,
                    socket, arrived, passed, late>>
    BY Zenon
  <1>5. BatchInv' /\ OwnerInv' /\ ~Passing'
    BY Zenon, <1>1, <1>3, <1>4, BatchGoes
  <1>6. ControlInv'
    BY Zenon, <1>2, <1>4 DEF UdpInv, ControlInv
  <1> QED
    BY Zenon, <1>4, <1>5, <1>6, Frames DEF UdpInv

LEMMA BatchDoneStep ==
    ASSUME UdpInv, BatchDone
    PROVE  UdpInv'
  <1> USE DEF BatchDone, object, memory
  <1>1. PICK next \in {"poll", "acquire"} : ReleaseBatch(next)
    BY Zenon
  <1>2. pc = "pass" /\ pc' = next
    BY Zenon, <1>1 DEF ReleaseBatch
  <1>3. BatchInv' /\ OwnerInv' /\ ~Passing'
    BY Zenon, <1>1, BatchGoes
  <1>4. UNCHANGED <<life, fd_, started_, registered, packets_read, got, late>>
    BY Zenon
  <1>5. ControlInv'
    <2> USE <1>2, <1>4
    <2> QED
      BY DEF UdpInv, ControlInv
  <1> QED
    BY Zenon, <1>3, <1>5, Frames DEF UdpInv

LEMMA CallbackReturnsStep ==
    ASSUME UdpInv, CallbackReturns
    PROVE  UdpInv'
  <1> USE DEF CallbackReturns, GoesOn, object, memory
  <1>1. UNCHANGED <<life, fd_, started_, registered, packets_read, got, created, memory, kept,
                    socket, arrived, passed, late>>
    BY Zenon
  <1>2. CASE started_
    <2>1. pc' = "pass" /\ i' = i /\ UNCHANGED <<free_buffers, buffers>>
      BY Zenon, <1>2
    <2>2. Passing /\ Passing'
      BY Zenon, <2>1 DEF Passing
    <2>3. ControlInv'
      BY <1>1, <1>2, <2>1 DEF UdpInv, ControlInv
    <2>4. BatchInv'
      BY Zenon, <1>1, <2>1, <2>2 DEF UdpInv, BatchInv
    <2>5. WaitingCount' = WaitingCount /\ Waiting' = Waiting /\ Batch' = Batch
      BY Zenon, <1>1, <2>1, <2>2 DEF WaitingCount, Waiting, Batch
    <2>6. KeptBuffers' = KeptBuffers
      BY Zenon, <1>1 DEF KeptBuffers
    <2>7. CountInv' /\ OrderInv'
      BY Zenon, <1>1, <2>5, <2>6 DEF UdpInv, CountInv, OrderInv
    <2> QED
      BY Zenon, <1>1, <2>1, <2>3, <2>4, <2>7, Frames DEF UdpInv
  <1>3. CASE ~started_
    <2>1. ReleaseBatch("poll") /\ i' = 0
      BY Zenon, <1>3
    <2>2. BatchInv' /\ OwnerInv' /\ ~Passing'
      BY Zenon, <1>1, <2>1, BatchGoes
    <2>3. pc' = "poll"
      BY Zenon, <2>1 DEF ReleaseBatch
    <2>4. ControlInv'
      BY <1>1, <1>3, <2>3 DEF UdpInv, ControlInv
    <2> QED
      BY Zenon, <1>1, <2>2, <2>4, Frames DEF UdpInv
  <1> QED
    BY Zenon, <1>2, <1>3

(* recvmmsg fills the first buffers of the batch, which the user does not  *)
(* hold.                                                                   *)
LEMMA ReceiveStep ==
    ASSUME UdpInv, Receive
    PROVE  UdpInv'
  <1> DEFINE l == Len(buffers)
             s == Len(socket)
  <1>0. /\ pc = "acquire" /\ pc' = "pass" /\ i' = 0
        /\ got' = SmallerOf(l, s)
        /\ socket' = SubSeq(socket, got' + 1, Len(socket))
        /\ packets_read' = packets_read + got'
        /\ UNCHANGED <<life, fd_, started_, registered, buffers, free_buffers, created, size_,
                       kept, arrived, passed, late>>
    BY Zenon DEF Receive, Full, object, pool
  <1>1. pc = "acquire" /\ pc' = "pass" /\ ~Passing /\ Passing'
    BY Zenon, <1>0 DEF Passing
  <1>2. i = 0 /\ i' = 0
    BY Zenon, <1>0, <1>1 DEF UdpInv, BatchInv
  <1>3. got' \in 0..l /\ got' \in 0..s /\ got' \in Nat
    <2>1. l \in Nat /\ s \in Nat /\ got' = SmallerOf(l, s)
      BY Zenon, <1>0, Numbers
    <2> HIDE DEF l, s
    <2> QED
      BY <2>1 DEF SmallerOf
  <1>4. \A m \in 1..got' : m \in 1..l /\ m \in 0 + 1 .. l /\ m \in 1..s
    BY <1>3, Numbers
  <1>5. /\ \A m \in 1..l : buffers[m] \in 1..created /\ buffers[m] \in Slots
        /\ \A m \in 1..s : socket[m] \in 1..MaxDatagrams
        /\ \A m \in 1..s : socket[m] \in 0..MaxDatagrams
    <2>1. buffers \in Seq(1..created) /\ socket \in Seq(1..MaxDatagrams)
      BY Zenon DEF UdpInv, BatchInv, CountInv
    <2>2. /\ \A m \in 1..l : buffers[m] \in 1..created
          /\ \A m \in 1..s : socket[m] \in 1..MaxDatagrams
      BY Zenon, <2>1, ElementOfSeq
    <2>3. \A x \in 1..MaxDatagrams : x \in 0..MaxDatagrams
      BY ReceiverAssumption
    <2> QED
      BY Zenon, <2>2, <2>3, Numbers
  <1>6. /\ \A m, n \in 0 + 1 .. l : buffers[m] = buffers[n] => m = n
        /\ \A m \in 0 + 1 .. l : buffers[m] \notin KeptBuffers
    BY Zenon, <1>2 DEF UdpInv, OwnerInv, Owned
  <1>7. DOMAIN content = Slots /\ \A b \in Slots : content[b] \in 0..MaxDatagrams
    BY Zenon DEF UdpInv, MemoryInv
  <1>8. /\ \A m \in 1..got' : content'[buffers[m]] = socket[m]
        /\ \A b \in Slots : (\A m \in 1..got' : buffers[m] # b) => content'[b] = content[b]
        /\ content' \in [Slots -> 0..MaxDatagrams]
    <2>1. content' = [b \in Slots |->
                        IF \E k \in 1..got' : buffers[k] = b
                        THEN socket[CHOOSE k \in 1..got' : buffers[k] = b] ELSE content[b]]
      BY Zenon, <1>7 DEF Receive
    <2>2. ASSUME NEW m \in 1..got'
          PROVE  (CHOOSE k \in 1..got' : buffers[k] = buffers[m]) = m
      BY Zenon, <1>4, <1>6
    <2>3. ASSUME NEW m \in 1..got'
          PROVE  content'[buffers[m]] = socket[m]
      <3>1. buffers[m] \in Slots
        BY Zenon, <1>4, <1>5
      <3>2. content'[buffers[m]] = socket[CHOOSE k \in 1..got' : buffers[k] = buffers[m]]
        BY Zenon, <2>1, <3>1
      <3> QED
        BY Zenon, <3>2, <2>2
    <2>4. ASSUME NEW b \in Slots, \A m \in 1..got' : buffers[m] # b
          PROVE  content'[b] = content[b]
      BY Zenon, <2>1, <2>4
    <2>5. ASSUME NEW b \in Slots
          PROVE  content'[b] \in 0..MaxDatagrams
      <3>1. CASE \E m \in 1..got' : buffers[m] = b
        <4>1. PICK m \in 1..got' : buffers[m] = b
          BY Zenon, <3>1
        <4>2. content'[buffers[m]] = socket[m] /\ socket[m] \in 0..MaxDatagrams
          BY Zenon, <2>3, <1>4, <1>5
        <4> QED
          BY Zenon, <4>1, <4>2
      <3>2. CASE \A m \in 1..got' : buffers[m] # b
        BY Zenon, <3>2, <2>4, <1>7
      <3> QED
        BY Zenon, <3>1, <3>2
    <2>6. content' \in [Slots -> 0..MaxDatagrams]
      <3>1. DOMAIN content' = Slots /\ content' = [b \in Slots |-> content'[b]]
        BY Zenon, <2>1
      <3> QED
        BY Zenon, <3>1, <2>5
    <2> QED
      BY Zenon, <2>3, <2>4, <2>6
  <1>9. ControlInv'
    <2>1. packets_read' \in Nat
      BY SMTT(30), <1>0, <1>3 DEF UdpInv, ControlInv
    <2> HIDE DEF l, s
    <2>2. UNCHANGED <<life, fd_, started_, registered, late>>
      BY Zenon, <1>0
    <2> QED
      BY Zenon, <1>1, <1>3, <2>1, <2>2 DEF UdpInv, ControlInv
  <1>10. BatchInv'
    <2>1. UNCHANGED <<created, buffers, free_buffers>>
      BY Zenon, <1>0
    <2>2. 0 \in 0..l /\ 0 <= got' /\ got' <= l /\ l \in Nat
      BY <1>3, Numbers
    <2> QED
      BY Zenon, <1>1, <1>2, <2>1, <2>2 DEF UdpInv, BatchInv
  <1>11. OwnerInv'
    <2>1. UNCHANGED <<created, buffers, free_buffers, kept>> /\ i' = i
      BY Zenon, <1>0, <1>2
    <2> QED
      BY Zenon, <2>1, Frames
  <1>12. KeptInv'
    <2>1. UNCHANGED <<life, kept, created, size_>>
      BY Zenon, <1>0
    <2>2. ASSUME NEW d \in kept
          PROVE  content'[d.buffer] = content[d.buffer]
      <3>1. d.buffer \in KeptBuffers
        BY Zenon DEF KeptBuffers
      <3>2. d.buffer \in Slots
        BY Zenon, <3>1, Numbers
      <3>3. \A m \in 1..got' : buffers[m] # d.buffer
        BY Zenon, <3>1, <1>4, <1>6
      <3> QED
        BY Zenon, <3>2, <3>3, <1>8
    <2> QED
      BY Zenon, <2>1, <2>2 DEF UdpInv, KeptInv, KeptIsStable
  <1>13. MemoryInv'
    BY Zenon, <1>0, <1>8 DEF UdpInv, MemoryInv
  <1>14. CountInv'
    <2>1. KeptBuffers' = KeptBuffers
      BY Zenon, <1>0 DEF KeptBuffers
    <2>2. WaitingCount = 0 /\ WaitingCount' = got' - 0
      BY Zenon, <1>1, <1>2 DEF WaitingCount
    <2>3. socket \in Seq(1..MaxDatagrams)
      BY Zenon DEF UdpInv, CountInv
    <2>4. socket' \in Seq(1..MaxDatagrams) /\ Len(socket') = s - got'
      <3>1. /\ SubSeq(socket, got' + 1, Len(socket)) \in Seq(1..MaxDatagrams)
            /\ Len(SubSeq(socket, got' + 1, Len(socket))) = s - got'
        BY Zenon, <1>3, <2>3, Ending
      <3> QED
        BY Zenon, <1>0, <3>1
    <2>5. Len(passed) + WaitingCount + s <= arrived
      BY Zenon DEF UdpInv, CountInv
    <2>6. s \in Nat /\ Len(passed) \in Nat /\ arrived \in Nat
      BY Zenon, Numbers
    <2> HIDE DEF s, l
    <2>7. Len(passed) + (got' - 0) + (s - got') <= arrived
      BY <1>3, <2>2, <2>5, <2>6
    <2> QED
      BY Zenon, <1>0, <2>1, <2>2, <2>4, <2>7 DEF UdpInv, CountInv
  <1>15. OrderInv'
    <2>1. Waiting = {} /\ Waiting' = 0 + 1 .. got' /\ 0 + 1 = 1
      BY <1>1, <1>2 DEF Waiting
    <2>2. \A m \in 1..got' : Batch'[m] = socket[m]
      <3>1. Batch' = [m \in 1..l |-> content'[buffers[m]]]
        BY Zenon, <1>0 DEF Batch
      <3> QED
        BY Zenon, <3>1, <1>4, <1>8
    <2>3. Ordered(passed, {}, Batch, socket, arrived)
      BY Zenon, <2>1 DEF UdpInv, OrderInv
    <2>4. socket \in Seq(1..MaxDatagrams)
      BY Zenon DEF UdpInv, CountInv
    <2>5. Ordered(passed, 1..got', Batch', SubSeq(socket, got' + 1, Len(socket)), arrived)
      BY Zenon, <1>3, <2>2, <2>3, <2>4, OrderedReceived
    <2> QED
      BY Zenon, <1>0, <2>1, <2>5 DEF OrderInv
  <1> QED
    BY Zenon, <1>9, <1>10, <1>11, <1>12, <1>13, <1>14, <1>15 DEF UdpInv

(* The next datagram of the batch is moved to the user.                    *)
LEMMA PassOnStep ==
    ASSUME UdpInv, PassOn
    PROVE  UdpInv'
  <1> USE DEF PassOn, Received, object, pool
  <1> DEFINE b == buffers[i + 1]
             d == UdpDatagram(b, 1)
  <1>1. pc = "pass" /\ pc' = "callback" /\ Passing /\ Passing'
    BY Zenon DEF Passing
  <1>2. /\ i \in Nat /\ got \in Nat /\ i < got /\ got <= Len(buffers) /\ Len(buffers) \in Nat
        /\ i < Len(buffers) /\ i + 1 \in 1 .. Len(buffers) /\ i + 1 \in i + 1 .. got
    <2> DEFINE l == Len(buffers)
    <2>1. i \in Nat /\ got \in Nat /\ l \in Nat /\ i < got /\ got <= l
      BY Zenon, <1>1, Numbers DEF UdpInv, BatchInv
    <2> HIDE DEF l
    <2>2. i < l /\ i + 1 \in 1..l /\ i + 1 \in i + 1 .. got
      BY <2>1
    <2> QED
      BY Zenon, <2>1, <2>2 DEF l
  <1>3. b \in 1..created /\ b \in Slots
    <2>1. buffers \in Seq(1..created)
      BY Zenon DEF UdpInv, BatchInv
    <2>2. b \in 1..created
      BY Zenon, <1>2, <2>1, ElementOfSeq
    <2> QED
      BY Zenon, <2>2, Numbers
  <1>4. content[b] \in 0..MaxDatagrams /\ content[b] \in Nat
    BY <1>3, ReceiverAssumption DEF UdpInv, MemoryInv
  <1>5. /\ SizeOf(content[b]) \in Nat /\ ReadableSize(b) \in 0..Capacity
        /\ ReadableSize(b) = IF SizeOf(content[b]) > Capacity THEN Capacity
                             ELSE SizeOf(content[b])
    <2> DEFINE c == content[b]
               z == SizeOf(c)
    <2>1. c \in Nat /\ Capacity \in Nat
      BY Zenon, <1>4, ReceiverAssumption
    <2>2. ReadableSize(b) = SmallerOf(z, Capacity)
      BY Zenon DEF ReadableSize
    <2> HIDE DEF c
    <2>3. z \in Nat
      BY <2>1 DEF SizeOf
    <2> HIDE DEF z
    <2>4. /\ SmallerOf(z, Capacity) \in 0..Capacity
          /\ SmallerOf(z, Capacity) = IF z > Capacity THEN Capacity ELSE z
      BY <2>1, <2>3 DEF SmallerOf
    <2> QED
      BY Zenon, <2>2, <2>3, <2>4 DEF c, z
  <1>6. b \notin KeptBuffers /\ Owned(free_buffers, buffers, i + 1, KeptBuffers \cup {b}, created)
    <2>1. Owned(free_buffers, buffers, i, KeptBuffers, created)
      BY Zenon DEF UdpInv, OwnerInv
    <2> QED
      BY Zenon, <1>2, <2>1, Numbers, OwnedPassed
  <1>7. /\ d = [buffer |-> b, id |-> content[b], copy |-> 1,
                original_size |-> SizeOf(content[b]),
                truncated |-> SizeOf(content[b]) > Capacity]
        /\ kept' = kept \cup {d}
    BY Zenon DEF UdpDatagram
  <1>8. /\ d.buffer = b /\ d.id = content[b] /\ d.original_size = SizeOf(content[b])
        /\ d.truncated <=> SizeOf(content[b]) > Capacity
    BY Zenon DEF UdpDatagram
  <1>9. KeptBuffers' = KeptBuffers \cup {b}
    <2>1. d.buffer = b /\ kept' = kept \cup {d}
      BY Zenon, <1>7, <1>8
    <2> HIDE DEF b, d
    <2> QED
      BY Zenon, <2>1 DEF KeptBuffers
  <1>10. size_' = [size_ EXCEPT ![b] = ReadableSize(b)]
    BY Zenon DEF set_size
  <1>11. /\ size_'[b] = ReadableSize(b)
         /\ \A x \in Slots : x # b => size_'[x] = size_[x]
         /\ size_' \in [Slots -> 0..Capacity]
    <2> HIDE DEF b
    <2> QED
      BY Zenon, <1>3, <1>5, <1>10 DEF UdpInv, MemoryInv
  <1> HIDE DEF b
  <1>12. ControlInv'
    <2>1. UNCHANGED <<life, fd_, started_, registered, packets_read, got>>
      BY Zenon
    <2>2. late = 0
      BY <1>1 DEF UdpInv, ControlInv
    <2>3. late' \in 0..1 /\ (started_ => late' = 0)
      BY <2>2
    <2>4. life = "alive"
      BY Zenon, <1>1 DEF UdpInv, ControlInv
    <2> QED
      BY SMTT(30), <1>1, <2>1, <2>3, <2>4 DEF UdpInv, ControlInv
  <1>13. BatchInv'
    <2>1. UNCHANGED <<created, buffers, free_buffers, got>> /\ i' = i + 1
      BY Zenon
    <2>2. i + 1 \in 0 .. Len(buffers) /\ i + 1 <= got
      BY <1>2
    <2>3. pc' \notin {"poll", "active"}
      BY Zenon, <1>1
    <2> QED
      BY Zenon, <1>1, <1>2, <2>1, <2>2, <2>3 DEF UdpInv, BatchInv
  <1>14. OwnerInv'
    BY Zenon, <1>6, <1>9 DEF OwnerInv
  <1>15. KeptInv'
    <2> DEFINE R == [buffer : 1..created, id : 0..MaxDatagrams, copy : {1, 2},
                     original_size : Nat, truncated : BOOLEAN]
    <2>1. UNCHANGED <<life, created, content>>
      BY Zenon
    <2>2. d \in R
      <3> DEFINE c == content[b]
                 z == SizeOf(c)
                 t == z > Capacity
      <3>1. t \in BOOLEAN
        OBVIOUS
      <3>2. d = [buffer |-> b, id |-> c, copy |-> 1, original_size |-> z, truncated |-> t]
        BY Zenon, <1>7
      <3>3. c \in 0..MaxDatagrams /\ z \in Nat
        BY Zenon, <1>4, <1>5
      <3> HIDE DEF c, z, t, d
      <3> QED
        BY <1>3, <3>1, <3>2, <3>3
    <2>3. kept \subseteq R
      BY Zenon DEF UdpInv, KeptInv
    <2>4. life = "alive"
      BY <1>1 DEF UdpInv, ControlInv
    <2>5. content'[d.buffer] = d.id
      BY Zenon, <1>8, <2>1
    <2>6. size_'[d.buffer] = IF d.truncated THEN Capacity ELSE d.original_size
      BY Zenon, <1>5, <1>8, <1>11
    <2>7. ASSUME NEW e \in kept
          PROVE  /\ content'[e.buffer] = e.id
                 /\ size_'[e.buffer] = IF e.truncated THEN Capacity ELSE e.original_size
      <3>1. e.buffer \in KeptBuffers
        BY Zenon DEF KeptBuffers
      <3>2. e.buffer \in Slots /\ e.buffer # b
        BY Zenon, <3>1, <1>6, Numbers
      <3>3. size_'[e.buffer] = size_[e.buffer]
        BY Zenon, <3>2, <1>11
      <3>4. /\ content[e.buffer] = e.id
            /\ size_[e.buffer] = IF e.truncated THEN Capacity ELSE e.original_size
        BY Zenon DEF UdpInv, KeptInv, KeptIsStable
      <3> QED
        BY Zenon, <3>3, <3>4, <2>1
    <2> HIDE DEF d
    <2>8. KeptIsStable'
      BY Zenon, <1>7, <2>5, <2>6, <2>7 DEF KeptIsStable
    <2>9. kept' \subseteq R
      BY Zenon, <1>7, <2>2, <2>3
    <2> QED
      BY Zenon, <2>1, <2>4, <2>8, <2>9 DEF KeptInv
  <1> HIDE DEF d
  <1>16. MemoryInv'
    BY Zenon, <1>11 DEF UdpInv, MemoryInv
  <1>17. CountInv'
    <2> DEFINE u == Cardinality(KeptBuffers)
               p == Len(passed)
               s == Len(socket)
    <2>1. passed \in Seq(0..MaxDatagrams) /\ passed' = Append(passed, content[b])
      BY Zenon DEF UdpInv, CountInv, b
    <2>2. passed' \in Seq(0..MaxDatagrams) /\ Len(passed') = p + 1
      <3>1. /\ Append(passed, content[b]) \in Seq(0..MaxDatagrams)
            /\ Len(Append(passed, content[b])) = p + 1
        <4>1. passed \in Seq(0..MaxDatagrams) /\ content[b] \in 0..MaxDatagrams
          BY Zenon, <1>4, <2>1
        <4> QED
          BY Zenon, <4>1, AppendProperties
      <3> QED
        BY Zenon, <2>1, <3>1
    <2>3. Cardinality(KeptBuffers') = u + 1
      BY Zenon, <1>6, <1>9, Numbers, FS_AddElement
    <2>4. WaitingCount = got - i /\ WaitingCount' = got - (i + 1)
      BY Zenon, <1>1 DEF WaitingCount
    <2>5. u <= p /\ p + WaitingCount + s <= arrived
      BY Zenon DEF UdpInv, CountInv
    <2>6. u \in Nat /\ p \in Nat /\ s \in Nat /\ arrived \in Nat
      BY Zenon, Numbers
    <2> HIDE DEF u, p, s
    <2>7. u + 1 <= p + 1 /\ (p + 1) + (got - (i + 1)) + s <= arrived
      BY <1>2, <2>4, <2>5, <2>6
    <2>8. UNCHANGED <<socket, arrived>>
      BY Zenon
    <2> QED
      BY Zenon, <2>2, <2>3, <2>4, <2>7, <2>8 DEF UdpInv, CountInv, s
  <1>18. OrderInv'
    <2>1. Waiting = i + 1 .. got /\ Waiting' = (i + 1) + 1 .. got
      BY Zenon, <1>1 DEF Waiting
    <2>2. Batch[i + 1] = content[b]
      BY Zenon, <1>2 DEF Batch, b
    <2>3. Batch[i + 1] \in 0..MaxDatagrams
      BY Zenon, <1>4, <2>2
    <2>4. Ordered(passed, i + 1 .. got, Batch, socket, arrived)
      BY Zenon, <2>1 DEF UdpInv, OrderInv
    <2>5. passed \in Seq(0..MaxDatagrams)
      BY Zenon DEF UdpInv, CountInv
    <2>6. Ordered(Append(passed, Batch[i + 1]), (i + 1) + 1 .. got, Batch, socket, arrived)
      BY Zenon, <1>2, <2>3, <2>4, <2>5, OrderedPassed
    <2>7. passed' = Append(passed, Batch[i + 1])
      BY Zenon, <2>2 DEF b
    <2>8. Batch' = Batch /\ UNCHANGED <<socket, arrived>>
      BY Zenon DEF Batch
    <2> QED
      BY Zenon, <2>1, <2>6, <2>7, <2>8 DEF OrderInv
  <1> QED
    BY Zenon, <1>12, <1>13, <1>14, <1>15, <1>16, <1>17, <1>18 DEF UdpInv

-----------------------------------------------------------------------------
(* What the user does with the datagrams.                                  *)

LEMMA CopyStep ==
    ASSUME UdpInv, NEW d \in kept, Copy(d)
    PROVE  UdpInv'
  <1> USE DEF Copy, object, batch, pool, memory
  <1> DEFINE R == [buffer : 1..created, id : 0..MaxDatagrams, copy : {1, 2},
                   original_size : Nat, truncated : BOOLEAN]
             e == [d EXCEPT !.copy = 2]
  <1>1. kept \subseteq R /\ d \in R
    BY Zenon DEF UdpInv, KeptInv
  <1>2. /\ e \in R /\ e.buffer = d.buffer /\ e.id = d.id /\ e.truncated = d.truncated
        /\ e.original_size = d.original_size
    BY Zenon, <1>1
  <1>3. kept' = kept \cup {e}
    BY Zenon
  <1> HIDE DEF e
  <1>4. KeptBuffers' = KeptBuffers
    BY Zenon, <1>2, <1>3 DEF KeptBuffers
  <1>5. KeptInv'
    <2>1. kept' \subseteq R
      BY Zenon, <1>1, <1>2, <1>3
    <2>2. KeptIsStable'
      BY Zenon, <1>2, <1>3 DEF UdpInv, KeptInv, KeptIsStable
    <2>3. life \in {"alive", "destroyed"}
      BY Zenon DEF UdpInv, KeptInv
    <2> QED
      BY Zenon, <2>1, <2>2, <2>3 DEF KeptInv
  <1>6. OwnerInv'
    BY Zenon, <1>4 DEF UdpInv, OwnerInv
  <1>7. WaitingCount' = WaitingCount
    BY Zenon DEF WaitingCount, Passing
  <1>8. CountInv'
    BY Zenon, <1>4, <1>7 DEF UdpInv, CountInv
  <1> QED
    BY Zenon, <1>5, <1>6, <1>8, Frames DEF UdpInv

(* The last copy returns the buffer, to the pool if that still exists.     *)
LEMMA ReleaseStep ==
    ASSUME UdpInv, NEW d \in kept, Release(d)
    PROVE  UdpInv'
  <1> USE DEF Release, object, batch
  <1> DEFINE R == [buffer : 1..created, id : 0..MaxDatagrams, copy : {1, 2},
                   original_size : Nat, truncated : BOOLEAN]
             b == d.buffer
  <1>1. kept \subseteq R /\ d \in R
    BY Zenon DEF UdpInv, KeptInv
  <1>2. kept' = kept \ {d}
    BY Zenon
  <1>3. b \in KeptBuffers /\ b \in 1..created /\ b \in Slots
    <2>1. b \in KeptBuffers
      BY Zenon DEF KeptBuffers
    <2> QED
      BY Zenon, <2>1, Numbers
  <1>4. life \in {"alive", "destroyed"}
    BY Zenon DEF UdpInv, KeptInv
  <1>5. WaitingCount' = WaitingCount
    BY Zenon DEF WaitingCount, Passing
  <1>6. KeptBuffers' \subseteq KeptBuffers
    BY Zenon, <1>2 DEF KeptBuffers
  <1>7. CountInv'
    <2> DEFINE u == Cardinality(KeptBuffers)
               v == Cardinality(KeptBuffers')
    <2>1. v <= u /\ v \in Nat
      BY Zenon, <1>6, Numbers, FS_Subset, FS_CardinalityType
    <2>2. u <= Len(passed) /\ u \in Nat /\ Len(passed) \in Nat
      BY Zenon, Numbers DEF UdpInv, CountInv
    <2> HIDE DEF u, v
    <2>3. v <= Len(passed)
      BY <2>1, <2>2
    <2> QED
      BY Zenon, <1>5, <2>3 DEF UdpInv, CountInv, v
  <1>8. /\ \A e \in kept : /\ content[e.buffer] = e.id
                           /\ size_[e.buffer] = IF e.truncated THEN Capacity
                                                ELSE e.original_size
    BY Zenon DEF UdpInv, KeptInv, KeptIsStable
  <1>9. CASE ~LastCopy(d)
    <2>1. UNCHANGED <<free_buffers, created, size_, content>>
      BY Zenon, <1>9 DEF pool
    <2>2. KeptBuffers' = KeptBuffers
      <3>1. PICK e \in kept \ {d} : e.buffer = b
        BY Zenon, <1>9 DEF LastCopy
      <3> QED
        BY Zenon, <3>1, <1>2 DEF KeptBuffers
    <2>3. OwnerInv'
      BY Zenon, <2>1, <2>2 DEF UdpInv, OwnerInv
    <2>4. KeptInv'
      BY Zenon, <1>1, <1>2, <1>4, <1>8, <2>1 DEF KeptInv, KeptIsStable
    <2> QED
      BY Zenon, <1>7, <2>1, <2>3, <2>4, Frames DEF UdpInv
  <1>10. CASE LastCopy(d) /\ life = "destroyed" /\ kept' = {}
    <2>1. free_buffers' = <<>> /\ created' = 0 /\ UNCHANGED size_
      BY Zenon, <1>10 DEF DropPoolUnless
    <2>2. pc \in {"poll", "active"}
      BY Zenon, <1>10 DEF UdpInv, ControlInv
    <2>3. BatchInv' /\ OwnerInv' /\ KeptInv'
      BY Zenon, <1>10, <2>1, <2>2, PoolGoes
    <2> QED
      BY Zenon, <1>7, <2>1, <2>3, Frames DEF UdpInv
  <1>11. CASE LastCopy(d) /\ ~(life = "destroyed" /\ kept' = {})
    <2>1. /\ size_' = [size_ EXCEPT ![b] = 0]
          /\ free_buffers' = Append(free_buffers, b)
          /\ created' = created
      BY Zenon, <1>11 DEF set_size
    <2>2. KeptBuffers' = KeptBuffers \ {b}
      BY Zenon, <1>2, <1>11 DEF KeptBuffers, LastCopy
    <2>3. created \in Nat /\ free_buffers \in Seq(1..created)
      BY Zenon, Numbers DEF UdpInv, BatchInv
    <2>4. Owned(free_buffers, buffers, i, KeptBuffers, created)
      BY Zenon DEF UdpInv, OwnerInv
    <2>5. /\ Append(free_buffers, b) \in Seq(1..created)
          /\ Owned(Append(free_buffers, b), buffers, i, KeptBuffers \ {b}, created)
      BY Zenon, <1>3, <2>3, <2>4, OwnedReturned
    <2>6. OwnerInv'
      BY Zenon, <2>1, <2>2, <2>5 DEF OwnerInv
    <2>7. Passing' <=> Passing
      BY Zenon DEF Passing
    <2>8. BatchInv'
      BY Zenon, <2>1, <2>5, <2>7 DEF UdpInv, BatchInv
    <2> HIDE DEF b
    <2>9. /\ size_' \in [Slots -> 0..Capacity]
          /\ \A x \in Slots : x # b => size_'[x] = size_[x]
      BY <1>3, <2>1, ReceiverAssumption DEF UdpInv, MemoryInv
    <2>10. MemoryInv'
      BY Zenon, <2>9 DEF UdpInv, MemoryInv
    <2>11. KeptInv'
      <3>1. ASSUME NEW e \in kept'
            PROVE  size_'[e.buffer] = size_[e.buffer]
        <4>1. e \in kept /\ e # d
          BY Zenon, <1>2
        <4>2. e.buffer # b
          BY Zenon, <4>1, <1>11 DEF LastCopy, b
        <4>3. e.buffer \in KeptBuffers
          BY Zenon, <4>1 DEF KeptBuffers
        <4>4. e.buffer \in Slots
          BY Zenon, <4>3, Numbers
        <4> QED
          BY Zenon, <4>2, <4>4, <2>9
      <3>2. KeptIsStable'
        BY Zenon, <3>1, <1>2, <1>8 DEF KeptIsStable
      <3>3. kept' \subseteq R /\ created' = created /\ life' = life
        BY Zenon, <1>1, <1>2, <2>1
      <3> QED
        BY Zenon, <3>2, <3>3, <1>4 DEF KeptInv
    <2> QED
      BY Zenon, <1>7, <2>6, <2>8, <2>10, <2>11, Frames DEF UdpInv
  <1> QED
    BY Zenon, <1>9, <1>10, <1>11

-----------------------------------------------------------------------------
LEMMA UdpKeeps ==
    ASSUME UdpInv, [Next]_vars
    PROVE  UdpInv'
  <1>1. CASE LoopStep
    <2>1. CASE Poll \/ HandleRead
      BY Zenon, <2>1, PollStep
    <2>2. CASE Acquire
      BY Zenon, <2>2, AcquireStep
    <2>3. CASE Interrupted \/ ReceiveError \/ ReceiveNothing
      BY Zenon, <2>3, FailedReadStep
    <2>4. CASE Receive
      BY Zenon, <2>4, ReceiveStep
    <2>5. CASE PassOn
      BY Zenon, <2>5, PassOnStep
    <2>6. CASE CallbackReturns
      BY Zenon, <2>6, CallbackReturnsStep
    <2>7. CASE BatchDone
      BY Zenon, <2>7, BatchDoneStep
    <2> QED
      BY Zenon, <1>1, <2>1, <2>2, <2>3, <2>4, <2>5, <2>6, <2>7 DEF LoopStep
  <1>2. CASE OpenSocket \/ MakePool \/ ConstructorThrows \/ Constructed \/ Destroy
    BY Zenon, <1>2, OpenSocketStep, MakePoolStep, ConstructorThrowsStep, ConstructedStep,
       DestroyStep
  <1>3. CASE Start \/ Stop
    BY Zenon, <1>3, StartStep
  <1>4. ASSUME NEW d \in kept, Copy(d) \/ Release(d)
        PROVE  UdpInv'
    BY Zenon, <1>4, CopyStep, ReleaseStep
  <1>5. CASE Arrive
    BY Zenon, <1>5, ArriveStep
  <1>6. CASE UNCHANGED vars
    BY Zenon, <1>6, StutterStep
  <1> QED
    BY Zenon, <1>1, <1>2, <1>3, <1>4, <1>5, <1>6 DEF Next

LEMMA UdpAlways == Spec => []UdpInv
  BY UdpInit, UdpKeeps, PTL DEF Spec

(* On every path out of the constructor, HandleRead and the destructor,    *)
(* also with datagrams that outlive the receiver, every buffer has one     *)
(* owner, and the descriptor is open only while the receiver is being made *)
(* or exists.                                                              *)
THEOREM NoBufferIsLost == Spec => []NothingLost
  BY UdpAlways, InvLosesNothing, PTL

(* While a copy of a UdpDatagram exists its buffer holds the datagram that *)
(* it was made for, and as much of it as was stored: recvmmsg fills only   *)
(* buffers that no datagram of the user refers to.                         *)
THEOREM KeptDatagramsStay == Spec => []KeptIsStable
  <1>1. UdpInv => KeptIsStable
    BY Zenon DEF UdpInv, KeptInv
  <1> QED
    BY UdpAlways, <1>1, PTL

(* message_callback_ gets the datagrams in the order of their arrival and  *)
(* each one once, whatever was dropped between them.                       *)
THEOREM DatagramsComeInOrder == Spec => []PassedInOrder
  <1>1. UdpInv => PassedInOrder
    BY Zenon DEF UdpInv, OrderInv, Ordered, PassedInOrder
  <1> QED
    BY UdpAlways, <1>1, PTL

(* After Stop at most one more datagram reaches message_callback_, also    *)
(* when HandleRead was already due.                                        *)
THEOREM AtMostOneAfterStop == Spec => []StopIsPrompt
  <1>1. UdpInv => StopIsPrompt
    BY DEF UdpInv, ControlInv, StopIsPrompt
  <1> QED
    BY UdpAlways, <1>1, PTL
=============================================================================
