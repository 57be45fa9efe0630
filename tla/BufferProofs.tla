---------------------------- MODULE BufferProofs ----------------------------
(***************************************************************************)
(* Proofs about module Buffer, for any initial size, any size of extra_buf *)
(* and any length of the stream.                                           *)
(***************************************************************************)
EXTENDS Buffer, TLAPS

Vec(s, d, r, w) == [size |-> s, data |-> d, read |-> r, write |-> w]

(* A value that a Buffer object can have: two indexes into its vector, the *)
(* read index not behind the write index.                                  *)
Indexes(b) ==
    /\ b.size \in Nat /\ b.read \in Nat /\ b.write \in Nat
    /\ b.read <= b.write /\ b.write <= b.size

IsBuffer(b) ==
    /\ b = Vec(b.size, b.data, b.read, b.write)
    /\ Indexes(b)
    /\ b.data \in [0 .. b.size - 1 -> Nat]

(* The i-th readable byte of b.                                            *)
Readable(b, i) == b.data[b.read + i]

(* c holds what b holds, and after it len bytes of the stream from first.  *)
Extends(c, b, first, len) ==
    /\ ReadableBytes(c) = ReadableBytes(b) + len
    /\ \A i \in 0 .. ReadableBytes(b) - 1 : Readable(c, i) = Readable(b, i)
    /\ \A i \in 0 .. len - 1 : Readable(c, ReadableBytes(b) + i) = first + i

-----------------------------------------------------------------------------
(* The helpers of Buffer.h.                                                *)

LEMMA Members ==
    ASSUME NEW s, NEW d, NEW r, NEW w, NEW c, c = Vec(s, d, r, w)
    PROVE  /\ c.size = s /\ c.data = d /\ c.read = r /\ c.write = w
           /\ c = Vec(c.size, c.data, c.read, c.write)
  BY Zenon DEF Vec

(* A copy behind the write index changes no readable byte.                 *)
LEMMA StoreBehind ==
    ASSUME NEW b, IsBuffer(b), NEW first \in Nat, NEW len \in Nat
    PROVE  LET c == Store(b, b.write, first, len)
           IN  /\ IsBuffer(c)
               /\ c.size = b.size /\ c.read = b.read /\ c.write = b.write
               /\ \A i \in 0 .. b.write - 1 : c.data[i] = b.data[i]
               /\ \A i \in 0 .. b.size - 1 :
                    b.write <= i /\ i < b.write + len => c.data[i] = first + (i - b.write)
<1> DEFINE d == [i \in 0 .. b.size - 1 |->
                   IF b.write <= i /\ i < b.write + len THEN first + (i - b.write)
                   ELSE b.data[i]]
           c == Store(b, b.write, first, len)
<1>1. c = Vec(b.size, d, b.read, b.write)
  <2>1. c = [b EXCEPT !.data = d]
    BY Zenon DEF Store
  <2> HIDE DEF d, c
  <2> QED
    BY Zenon, <2>1 DEF IsBuffer, Vec
<1>2. d \in [0 .. b.size - 1 -> Nat]
  BY DEF IsBuffer, Indexes
<1>3. /\ \A i \in 0 .. b.write - 1 : d[i] = b.data[i]
      /\ \A i \in 0 .. b.size - 1 :
           b.write <= i /\ i < b.write + len => d[i] = first + (i - b.write)
  BY DEF IsBuffer, Indexes
<1> HIDE DEF d, c
<1>4. /\ c.size = b.size /\ c.data = d /\ c.read = b.read /\ c.write = b.write
      /\ c = Vec(c.size, c.data, c.read, c.write)
  BY <1>1, Members
<1>5. IsBuffer(c)
  BY Zenon, <1>2, <1>4 DEF IsBuffer, Indexes
<1> QED
  BY Zenon, <1>3, <1>4, <1>5 DEF c

(* MakeSpace leaves room for len bytes and keeps what is readable, whether *)
(* it grows the vector or moves its contents to the front.                 *)
LEMMA MakeSpaceKeeps ==
    ASSUME NEW b, IsBuffer(b), NEW len \in Nat, WriteableBytes(b) < len
    PROVE  LET c == MakeSpace(b, len)
           IN  /\ IsBuffer(c)
               /\ WriteableBytes(c) >= len
               /\ ReadableBytes(c) = ReadableBytes(b)
               /\ \A i \in 0 .. ReadableBytes(b) - 1 : Readable(c, i) = Readable(b, i)
               /\ c.size = b.size \/ c.size < 2 * (ReadableBytes(b) + len)
<1> DEFINE c == MakeSpace(b, len)
<1>1. CASE len > FreeSize(b)
  <2> DEFINE n == b.write + len
             d == [i \in 0 .. n - 1 |-> IF i < b.size THEN b.data[i] ELSE 0]
  <2>1. c = Vec(n, d, b.read, b.write)
    <3>1. c = Resize(b, n)
      BY Zenon, <1>1 DEF MakeSpace
    <3> HIDE DEF n, c
    <3>2. Resize(b, n) = [b EXCEPT !.size = n, !.data = d]
      BY Zenon DEF Resize
    <3> HIDE DEF d
    <3> QED
      BY Zenon, <3>1, <3>2 DEF IsBuffer, Vec
  <2>2. d \in [0 .. n - 1 -> Nat]
    BY DEF IsBuffer, Indexes
  <2>3. \A i \in 0 .. ReadableBytes(b) - 1 : d[b.read + i] = b.data[b.read + i]
    <3>1. \A i \in 0 .. ReadableBytes(b) - 1 : b.read + i \in 0 .. n - 1 /\ b.read + i < b.size
      BY DEF IsBuffer, Indexes, ReadableBytes
    <3> QED
      BY Zenon, <3>1
  <2> HIDE DEF d, c
  <2>4. /\ c.size = n /\ c.data = d /\ c.read = b.read /\ c.write = b.write
        /\ c = Vec(c.size, c.data, c.read, c.write)
    BY <2>1, Members
  <2>5. IsBuffer(c)
    BY <2>2, <2>4 DEF IsBuffer, Indexes
  <2>6. ReadableBytes(c) = ReadableBytes(b) /\ WriteableBytes(c) >= len
    BY <2>4 DEF IsBuffer, Indexes, ReadableBytes, WriteableBytes
  <2>7. c.size < 2 * (ReadableBytes(b) + len)
    BY <1>1, <2>4 DEF IsBuffer, Indexes, ReadableBytes, FreeSize
  <2>8. \A i \in 0 .. ReadableBytes(b) - 1 : Readable(c, i) = Readable(b, i)
    BY <2>3, <2>4 DEF Readable
  <2> QED
    BY Zenon, <2>5, <2>6, <2>7, <2>8 DEF c
<1>2. CASE ~(len > FreeSize(b))
  <2> DEFINE d == [i \in 0 .. b.size - 1 |->
                     IF i < ReadableBytes(b) THEN b.data[b.read + i] ELSE b.data[i]]
  <2>1. c = Vec(b.size, d, 0, b.write - b.read)
    <3>1. c = [b EXCEPT !.data = d, !.write = b.write - b.read, !.read = 0]
      BY <1>2, Zenon DEF MakeSpace, Compact
    <3> HIDE DEF d, c
    <3>2. b = Vec(b.size, b.data, b.read, b.write)
      BY Zenon DEF IsBuffer
    <3> QED
      BY <3>1, <3>2, Zenon DEF Vec
  <2>2. d \in [0 .. b.size - 1 -> Nat]
    <3>1. Indexes(b) /\ b.data \in [0 .. b.size - 1 -> Nat]
      BY Zenon DEF IsBuffer
    <3>2. \A i \in 0 .. b.size - 1 : i < ReadableBytes(b) => b.read + i \in 0 .. b.size - 1
      BY <3>1 DEF Indexes, ReadableBytes
    <3> QED
      BY Zenon, <3>1, <3>2
  <2>3. \A i \in 0 .. ReadableBytes(b) - 1 : d[0 + i] = b.data[b.read + i]
    BY DEF IsBuffer, Indexes, ReadableBytes
  <2> HIDE DEF d, c
  <2>4. /\ c.size = b.size /\ c.data = d /\ c.read = 0 /\ c.write = b.write - b.read
        /\ c = Vec(c.size, c.data, c.read, c.write)
    BY <2>1, Members
  <2>5. IsBuffer(c)
    BY <2>2, <2>4 DEF IsBuffer, Indexes
  <2>6. ReadableBytes(c) = ReadableBytes(b) /\ WriteableBytes(c) >= len
    BY <1>2, <2>4 DEF IsBuffer, Indexes, ReadableBytes, WriteableBytes, FreeSize
  <2>7. \A i \in 0 .. ReadableBytes(b) - 1 : Readable(c, i) = Readable(b, i)
    BY Zenon, <2>3, <2>4 DEF Readable
  <2> QED
    BY Zenon, <2>4, <2>5, <2>6, <2>7 DEF c
<1> QED
  BY Zenon, <1>1, <1>2

(* Append adds its bytes behind the readable ones.  The vector that it may *)
(* have to grow stays below twice what the buffer then holds.              *)
LEMMA AppendExtends ==
    ASSUME NEW b, IsBuffer(b), NEW first \in Nat, NEW len \in Nat
    PROVE  LET c == AppendTo(b, first, len)
           IN  /\ IsBuffer(c)
               /\ Extends(c, b, first, len)
               /\ c.size = b.size \/ c.size < 2 * ReadableBytes(c)
<1> DEFINE roomy == IF WriteableBytes(b) < len THEN MakeSpace(b, len) ELSE b
           s == Store(roomy, roomy.write, first, len)
           c == [s EXCEPT !.write = @ + len]
<1>1. AppendTo(b, first, len) = c
  BY Zenon DEF AppendTo
<1>2. /\ IsBuffer(roomy)
      /\ WriteableBytes(roomy) >= len
      /\ ReadableBytes(roomy) = ReadableBytes(b)
      /\ \A i \in 0 .. ReadableBytes(b) - 1 : Readable(roomy, i) = Readable(b, i)
      /\ roomy.size = b.size \/ roomy.size < 2 * (ReadableBytes(b) + len)
  <2>1. CASE WriteableBytes(b) < len
    BY Zenon, <2>1, MakeSpaceKeeps
  <2>2. CASE ~(WriteableBytes(b) < len)
    <3>1. WriteableBytes(b) >= len /\ roomy = b
      BY <2>2 DEF WriteableBytes, IsBuffer, Indexes
    <3> QED
      BY Zenon, <3>1
  <2> QED
    BY Zenon, <2>1, <2>2
<1> HIDE DEF roomy
<1>3. /\ IsBuffer(s)
      /\ s.size = roomy.size /\ s.read = roomy.read /\ s.write = roomy.write
      /\ \A i \in 0 .. roomy.write - 1 : s.data[i] = roomy.data[i]
      /\ \A i \in 0 .. roomy.size - 1 :
           roomy.write <= i /\ i < roomy.write + len => s.data[i] = first + (i - roomy.write)
  BY Zenon, <1>2, StoreBehind
<1> HIDE DEF s
<1>4. c = Vec(s.size, s.data, s.read, s.write + len)
  BY <1>3 DEF IsBuffer, Vec
<1> HIDE DEF c
<1>5. /\ c.size = s.size /\ c.data = s.data /\ c.read = s.read /\ c.write = s.write + len
      /\ c = Vec(c.size, c.data, c.read, c.write)
  BY <1>4, Members
<1>6. IsBuffer(c) /\ ReadableBytes(c) = ReadableBytes(b) + len
  <2>1. Indexes(roomy) /\ Indexes(b)
    BY Zenon, <1>2 DEF IsBuffer
  <2>2. ReadableBytes(c) = ReadableBytes(b) + len /\ Indexes(c)
    BY <1>2, <1>3, <1>5, <2>1 DEF Indexes, ReadableBytes, WriteableBytes
  <2> QED
    BY Zenon, <1>3, <1>5, <2>2 DEF IsBuffer
<1>7. \A i \in 0 .. ReadableBytes(b) - 1 : Readable(c, i) = Readable(b, i)
  <2> SUFFICES ASSUME NEW i \in 0 .. ReadableBytes(b) - 1
               PROVE  c.data[c.read + i] = Readable(b, i)
    BY Zenon DEF Readable
  <2>1. roomy.read + i \in 0 .. roomy.write - 1
    BY SMTT(30), <1>2 DEF IsBuffer, Indexes, ReadableBytes
  <2> QED
    BY Zenon, <1>2, <1>3, <1>5, <2>1 DEF Readable
<1>8. \A i \in 0 .. len - 1 : Readable(c, ReadableBytes(b) + i) = first + i
  <2> SUFFICES ASSUME NEW i \in 0 .. len - 1
               PROVE  c.data[c.read + (ReadableBytes(b) + i)] = first + i
    BY Zenon DEF Readable
  <2>0. Indexes(roomy) /\ Indexes(b)
    BY Zenon, <1>2 DEF IsBuffer
  <2>1. /\ roomy.read + (ReadableBytes(b) + i) = roomy.write + i
        /\ roomy.write + i \in 0 .. roomy.size - 1
        /\ roomy.write + i < roomy.write + len /\ roomy.write <= roomy.write + i
        /\ first + ((roomy.write + i) - roomy.write) = first + i
    BY <1>2, <2>0 DEF Indexes, ReadableBytes, WriteableBytes
  <2> QED
    BY Zenon, <1>3, <1>5, <2>1
<1>9. c.size = b.size \/ c.size < 2 * ReadableBytes(c)
  BY Zenon, <1>2, <1>3, <1>5, <1>6
<1> QED
  BY <1>1, <1>6, <1>7, <1>8, <1>9, Zenon DEF Extends

(* ReadFd without a spill adds all n bytes.  With one, the bytes that went *)
(* behind the write index are overwritten by those of extra_buf: what is   *)
(* added is the end of what arrived.                                       *)
LEMMA ReadExtends ==
    ASSUME NEW b, IsBuffer(b), NEW first \in Nat, NEW n \in Nat
    PROVE  LET c == ReadInto(b, first, n)
               lost == IF n <= WriteableBytes(b) THEN 0 ELSE WriteableBytes(b)
           IN  /\ IsBuffer(c)
               /\ Extends(c, b, first + lost, n - lost)
               /\ c.size = b.size \/ c.size < 2 * ReadableBytes(c)
<1> DEFINE s == Store(b, b.write, first, n)
           w == WriteableBytes(b)
<1>1. /\ IsBuffer(s)
      /\ s.size = b.size /\ s.read = b.read /\ s.write = b.write
      /\ \A i \in 0 .. b.write - 1 : s.data[i] = b.data[i]
      /\ \A i \in 0 .. b.size - 1 :
           b.write <= i /\ i < b.write + n => s.data[i] = first + (i - b.write)
  BY Zenon, StoreBehind
<1> HIDE DEF s
<1>2. w \in Nat
  BY DEF IsBuffer, Indexes, WriteableBytes
<1>3. ReadableBytes(s) = ReadableBytes(b)
      /\ \A i \in 0 .. ReadableBytes(b) - 1 : Readable(s, i) = Readable(b, i)
  <2>1. \A i \in 0 .. ReadableBytes(b) - 1 : b.read + i \in 0 .. b.write - 1
    BY DEF IsBuffer, Indexes, ReadableBytes
  <2> QED
    BY <1>1, <2>1 DEF ReadableBytes, Readable
<1>4. CASE n <= w
  <2> DEFINE c == [s EXCEPT !.write = @ + n]
  <2>1. ReadInto(b, first, n) = c
    BY Zenon, <1>4 DEF ReadInto, s
  <2>2. c = Vec(s.size, s.data, s.read, s.write + n)
    BY <1>1 DEF IsBuffer, Vec
  <2> HIDE DEF c
  <2>3. /\ c.size = s.size /\ c.data = s.data /\ c.read = s.read /\ c.write = s.write + n
        /\ c = Vec(c.size, c.data, c.read, c.write)
    BY <2>2, Members
  <2>4. IsBuffer(c) /\ ReadableBytes(c) = ReadableBytes(b) + n
    BY <1>1, <1>4, <2>3 DEF IsBuffer, Indexes, ReadableBytes, WriteableBytes
  <2>5. \A i \in 0 .. ReadableBytes(b) - 1 : Readable(c, i) = Readable(b, i)
    BY Zenon, <1>3, <2>3 DEF Readable
  <2>6. \A i \in 0 .. n - 1 : Readable(c, ReadableBytes(b) + i) = first + i
    <3> SUFFICES ASSUME NEW i \in 0 .. n - 1
                 PROVE  c.data[c.read + (ReadableBytes(b) + i)] = first + i
      BY Zenon DEF Readable
    <3>0. Indexes(b)
      BY Zenon DEF IsBuffer
    <3>1. /\ b.read + (ReadableBytes(b) + i) = b.write + i
          /\ b.write + i \in 0 .. b.size - 1
          /\ b.write + i < b.write + n /\ b.write <= b.write + i
          /\ first + ((b.write + i) - b.write) = first + i
      BY <1>4, <3>0 DEF Indexes, ReadableBytes, WriteableBytes
    <3> QED
      BY Zenon, <1>1, <2>3, <3>1
  <2>7. first + 0 = first /\ n - 0 = n
    OBVIOUS
  <2> QED
    BY Zenon, <1>1, <1>4, <2>1, <2>3, <2>4, <2>5, <2>6, <2>7 DEF Extends
<1>5. CASE ~(n <= w)
  <2> DEFINE c == AppendTo(s, first + w, n - w)
  <2>1. ReadInto(b, first, n) = c
    BY Zenon, <1>5 DEF ReadInto, s
  <2>2. first + w \in Nat /\ n - w \in Nat
    BY <1>2, <1>5
  <2>3. /\ IsBuffer(c)
        /\ Extends(c, s, first + w, n - w)
        /\ c.size = s.size \/ c.size < 2 * ReadableBytes(c)
    BY Zenon, <1>1, <2>2, AppendExtends
  <2> HIDE DEF c
  <2>4. Extends(c, b, first + w, n - w)
    BY Zenon, <1>3, <2>3 DEF Extends
  <2> QED
    BY Zenon, <1>1, <1>5, <2>1, <2>3, <2>4
<1> QED
  BY Zenon, <1>4, <1>5

(* retrieve takes bytes off the front.                                     *)
LEMMA RetrieveDrops ==
    ASSUME NEW b, IsBuffer(b), NEW len \in Nat, len <= ReadableBytes(b)
    PROVE  LET c == RetrieveFrom(b, len)
           IN  /\ IsBuffer(c)
               /\ c.size = b.size
               /\ ReadableBytes(c) = ReadableBytes(b) - len
               /\ \A i \in 0 .. ReadableBytes(c) - 1 : Readable(c, i) = Readable(b, len + i)
<1> DEFINE c == RetrieveFrom(b, len)
<1>1. CASE len < ReadableBytes(b)
  <2>1. c = Vec(b.size, b.data, b.read + len, b.write)
    BY Zenon, <1>1 DEF RetrieveFrom, IsBuffer, Vec
  <2> HIDE DEF c
  <2>2. /\ c.size = b.size /\ c.data = b.data /\ c.read = b.read + len /\ c.write = b.write
        /\ c = Vec(c.size, c.data, c.read, c.write)
    BY <2>1, Members
  <2>3. IsBuffer(c) /\ ReadableBytes(c) = ReadableBytes(b) - len
    BY <1>1, <2>2 DEF IsBuffer, Indexes, ReadableBytes
  <2>4. \A i \in 0 .. ReadableBytes(c) - 1 : (b.read + len) + i = b.read + (len + i)
    BY DEF IsBuffer, Indexes
  <2> QED
    BY Zenon, <2>2, <2>3, <2>4 DEF Readable, c
<1>2. CASE ~(len < ReadableBytes(b))
  <2>1. c = Vec(b.size, b.data, 0, 0)
    BY Zenon, <1>2 DEF RetrieveFrom, IsBuffer, Vec
  <2>2. len = ReadableBytes(b) /\ ReadableBytes(b) \in Nat
    BY <1>2 DEF ReadableBytes, IsBuffer, Indexes
  <2> HIDE DEF c
  <2>3. /\ c.size = b.size /\ c.data = b.data /\ c.read = 0 /\ c.write = 0
        /\ c = Vec(c.size, c.data, c.read, c.write)
    BY <2>1, Members
  <2>4. IsBuffer(c) /\ ReadableBytes(c) = 0
    BY <2>3 DEF IsBuffer, Indexes, ReadableBytes
  <2> QED
    BY <2>2, <2>3, <2>4 DEF c
<1> QED
  BY Zenon, <1>1, <1>2
-----------------------------------------------------------------------------
(* The inductive invariant: besides what InOrder, LosslessWithoutSpill and *)
(* GrowthBounded say, that the buffer is a record with its indexes in      *)
(* order, and that peak is not behind the number of readable bytes.        *)
BufferInv ==
    /\ IsBuffer(buffer)
    /\ InOrder
    /\ LosslessWithoutSpill
    /\ ReadableBytes(buffer) <= peak
    /\ GrowthBounded

LEMMA BufferInit == Init => BufferInv
<1> SUFFICES ASSUME Init PROVE BufferInv
  OBVIOUS
<1> DEFINE d == [i \in 0 .. InitialSize - 1 |-> 0]
<1>1. /\ buffer = Vec(InitialSize, d, 0, 0)
      /\ arrived = 0 /\ taken = 0 /\ peak = 0 /\ spilled = FALSE
  BY Zenon DEF Init, Vec
<1>2. d \in [0 .. InitialSize - 1 -> Nat]
  OBVIOUS
<1> HIDE DEF d
<1>3. /\ buffer.size = InitialSize /\ buffer.data = d /\ buffer.read = 0 /\ buffer.write = 0
      /\ buffer = Vec(buffer.size, buffer.data, buffer.read, buffer.write)
  BY <1>1, Members
<1>4. IsBuffer(buffer) /\ TypeOK
  <2>1. spilled \in BOOLEAN
    BY <1>1, Zenon
  <2>2. Indexes(buffer)
    BY <1>3, BufferAssumption DEF Indexes
  <2>3. arrived \in 0 .. MaxBytes /\ taken \in 0 .. arrived /\ peak \in Nat
    BY <1>1, BufferAssumption
  <2> QED
    BY Zenon, <1>2, <1>3, <2>1, <2>2, <2>3 DEF IsBuffer, Indexes, TypeOK
<1>5. ReadableBytes(buffer) = 0
  BY <1>3 DEF ReadableBytes
<1>6. GrowthBounded /\ ReadableBytes(buffer) <= peak
  BY <1>1, <1>3, <1>5, BufferAssumption DEF GrowthBounded
<1>7. InOrder /\ Lossless
  BY <1>1, <1>4, <1>5 DEF InOrder, Lossless
<1> QED
  BY Zenon, <1>4, <1>6, <1>7 DEF BufferInv, LosslessWithoutSpill

(* Bytes come in, the first lost of them without getting into the buffer.  *)
LEMMA FilledKeeps ==
    ASSUME BufferInv, NEW c, NEW len \in Nat, NEW lost \in 0 .. len,
           Filled(c, len), IsBuffer(c),
           Extends(c, buffer, arrived + 1 + lost, len - lost),
           c.size = buffer.size \/ c.size < 2 * ReadableBytes(c),
           spilled' \in BOOLEAN, spilled => spilled', ~spilled' => lost = 0
    PROVE  BufferInv'
<1> DEFINE n == ReadableBytes(buffer)
           m == len - lost
<1>1. /\ arrived + len <= MaxBytes /\ buffer' = c /\ arrived' = arrived + len
      /\ peak' = IF ReadableBytes(c) > peak THEN ReadableBytes(c) ELSE peak
      /\ taken' = taken
  BY Zenon DEF Filled
<1>2. /\ Indexes(buffer) /\ n \in Nat /\ arrived \in Nat /\ taken \in 0 .. arrived
      /\ peak \in Nat /\ n <= peak
  BY BufferAssumption DEF BufferInv, IsBuffer, InOrder, TypeOK, Indexes, ReadableBytes
<1>3. /\ Indexes(c) /\ ReadableBytes(c) = n + m /\ n + m \in Nat
      /\ m \in Nat /\ lost \in Nat /\ lost + m = len
  BY <1>2 DEF IsBuffer, Extends
<1>4. /\ \A i \in 0 .. n - 1 : Readable(c, i) = Byte(i)
      /\ \A i \in 0 .. m - 1 : Readable(c, n + i) = arrived + 1 + lost + i
  BY Zenon DEF Extends, Readable, Byte
<1>5. /\ \A i \in 0 .. n - 1 : Readable(c, i) = Byte(i)
      /\ \A i \in n .. n + m - 1 : Readable(c, i) = arrived + 1 + lost + (i - n)
  <2> SUFFICES ASSUME NEW i \in n .. n + m - 1
               PROVE  Readable(c, i) = arrived + 1 + lost + (i - n)
    BY Zenon, <1>4
  <2>1. i - n \in 0 .. m - 1 /\ n + (i - n) = i
    BY <1>2
  <2>2. Readable(c, n + (i - n)) = arrived + 1 + lost + (i - n)
    BY Zenon, <1>4, <2>1
  <2> QED
    BY Zenon, <2>1, <2>2
<1>6. /\ ReadableBytes(buffer)' = n + m
      /\ \A i \in 0 .. n + m - 1 : Byte(i)' = Readable(c, i)
  BY Zenon, <1>1, <1>3 DEF ReadableBytes, Byte, Readable
<1>7. IsBuffer(buffer)'
  BY Zenon, <1>1 DEF IsBuffer, Indexes
<1>8. /\ peak' \in Nat /\ ReadableBytes(buffer)' <= peak' /\ peak <= peak'
  BY <1>1, <1>2, <1>3, <1>6
<1>9. TypeOK'
  BY <1>1, <1>2, <1>7, <1>8, BufferAssumption DEF TypeOK, IsBuffer, Indexes
<1>10. InOrder'
  <2>1. \A i \in 0 .. n - 1 : /\ Byte(i) \in Nat /\ taken < Byte(i) /\ Byte(i) <= arrived
                              /\ \A j \in 0 .. i - 1 : Byte(j) < Byte(i)
    <3>1. \A i \in 0 .. n - 1 : buffer.read + i \in 0 .. buffer.size - 1
      BY <1>2 DEF Indexes, ReadableBytes
    <3> QED
      BY Zenon, <3>1 DEF BufferInv, InOrder, IsBuffer, Byte
  <2> HIDE DEF n, m
  <2>2. \A i \in 0 .. n + m - 1 :
           /\ taken < Readable(c, i) /\ Readable(c, i) <= arrived + len
           /\ \A j \in 0 .. i - 1 : Readable(c, j) < Readable(c, i)
    <3> SUFFICES ASSUME NEW i \in 0 .. n + m - 1
                 PROVE  /\ taken < Readable(c, i) /\ Readable(c, i) <= arrived + len
                        /\ \A j \in 0 .. i - 1 : Readable(c, j) < Readable(c, i)
      OBVIOUS
    <3>1. CASE i < n
      BY <1>2, <1>5, <2>1, <3>1
    <3>2. CASE i >= n
      <4>1. Readable(c, i) = arrived + 1 + lost + (i - n) /\ i - n < m
        BY <1>2, <1>3, <1>5, <3>2
      <4>2. \A j \in 0 .. i - 1 : Readable(c, j) < Readable(c, i)
        <5> TAKE j \in 0 .. i - 1
        <5>1. CASE j < n
          BY <1>2, <1>5, <2>1, <3>2, <4>1, <5>1
        <5>2. CASE j >= n
          BY <1>2, <1>3, <1>5, <3>2, <4>1, <5>2
        <5> QED
          BY <1>2, <5>1, <5>2
      <4>3. i - n \in Nat
        BY <1>2, <3>2
      <4> QED
        BY <1>2, <1>3, <4>1, <4>2, <4>3
    <3> QED
      BY <1>2, <3>1, <3>2
  <2>3. arrived' = arrived + len /\ taken' = taken
    BY Zenon, <1>1
  <2>4. \A i \in 0 .. ReadableBytes(buffer)' - 1 :
           /\ taken' < Byte(i)' /\ Byte(i)' <= arrived'
           /\ \A j \in 0 .. i - 1 : Byte(j)' < Byte(i)'
    <3> TAKE i \in 0 .. ReadableBytes(buffer)' - 1
    <3>0. i \in 0 .. n + m - 1
      BY <1>2, <1>3, <1>6
    <3>1. \A j \in 0 .. i - 1 : j \in 0 .. n + m - 1
      BY <1>2, <1>3, <3>0
    <3> QED
      BY Zenon, <1>6, <2>2, <2>3, <3>0, <3>1
  <2> QED
    BY <1>9, <2>4, Zenon DEF InOrder
<1>11. LosslessWithoutSpill'
  <2> SUFFICES ASSUME ~spilled'
               PROVE  Lossless'
    BY Zenon DEF LosslessWithoutSpill
  <2>1. lost = 0 /\ m = len /\ n = arrived - taken
        /\ \A i \in 0 .. n - 1 : Byte(i) = taken + 1 + i
    BY DEF BufferInv, LosslessWithoutSpill, Lossless
  <2> HIDE DEF n, m
  <2>2. \A i \in 0 .. n + m - 1 : Readable(c, i) = taken + 1 + i
    BY <1>2, <1>5, <2>1
  <2>3. n + m = (arrived + len) - taken
    BY <1>2, <2>1
  <2>4. /\ ReadableBytes(buffer)' = arrived' - taken'
        /\ \A i \in 0 .. ReadableBytes(buffer)' - 1 : Byte(i)' = taken' + 1 + i
    <3>1. arrived' = arrived + len /\ taken' = taken
      BY Zenon, <1>1
    <3> QED
      BY <1>2, <1>3, <1>6, <2>2, <2>3, <3>1
  <2> QED
    BY <2>4, Zenon DEF Lossless
<1>12. GrowthBounded'
  BY <1>1, <1>2, <1>3, <1>6, <1>8, BufferAssumption DEF BufferInv, GrowthBounded, Indexes
<1> QED
  BY Zenon, <1>7, <1>8, <1>10, <1>11, <1>12 DEF BufferInv

(* Bytes go out.                                                           *)
LEMMA RetrieveKeeps ==
    ASSUME BufferInv, NEW len \in Nat, retrieve(len)
    PROVE  BufferInv'
<1> DEFINE n == ReadableBytes(buffer)
           c == RetrieveFrom(buffer, len)
<1>1. /\ len <= n /\ buffer' = c
      /\ taken' = IF len = 0 THEN taken ELSE buffer.data[buffer.read + len - 1]
      /\ arrived' = arrived /\ peak' = peak /\ spilled' = spilled
  BY Zenon DEF retrieve
<1>2. /\ Indexes(buffer) /\ n \in Nat /\ arrived \in Nat /\ taken \in 0 .. arrived
      /\ peak \in Nat /\ n <= peak /\ arrived \in 0 .. MaxBytes /\ IsBuffer(buffer)
  BY BufferAssumption DEF BufferInv, IsBuffer, InOrder, TypeOK, Indexes, ReadableBytes
<1>3. /\ IsBuffer(c) /\ c.size = buffer.size /\ ReadableBytes(c) = n - len
      /\ \A i \in 0 .. n - len - 1 : Readable(c, i) = Byte(len + i)
  BY <1>1, <1>2, RetrieveDrops DEF Byte, Readable
<1>4. taken' = IF len = 0 THEN taken ELSE Byte(len - 1)
  <2>1. buffer.read + len - 1 = buffer.read + (len - 1)
    BY Zenon, <1>2 DEF Indexes
  <2> QED
    BY Zenon, <1>1, <2>1 DEF Byte
<1> HIDE DEF c
<1>5. ReadableBytes(buffer)' = n - len
      /\ \A i : Byte(i)' = Readable(c, i)
  BY Zenon, <1>1, <1>3 DEF ReadableBytes, Byte, Readable
<1>6. \A i \in 0 .. n - 1 : /\ Byte(i) \in Nat /\ taken < Byte(i) /\ Byte(i) <= arrived
                            /\ \A j \in 0 .. i - 1 : Byte(j) < Byte(i)
  <2>1. \A i \in 0 .. n - 1 : buffer.read + i \in 0 .. buffer.size - 1
    BY <1>2 DEF Indexes, ReadableBytes
  <2> QED
    BY Zenon, <2>1 DEF BufferInv, InOrder, IsBuffer, Byte
<1>7. IsBuffer(buffer)'
  BY Zenon, <1>1, <1>3 DEF IsBuffer, Indexes
<1>8. taken' \in 0 .. arrived
  BY <1>1, <1>2, <1>4, <1>6
<1>9. spilled' \in BOOLEAN
  BY <1>1, Zenon DEF BufferInv, InOrder, TypeOK
<1>10. TypeOK'
  BY Zenon, <1>1, <1>2, <1>7, <1>8, <1>9 DEF TypeOK, IsBuffer, Indexes
<1> HIDE DEF n
<1>11. InOrder'
  <2>1. \A i \in 0 .. n - len - 1 :
           /\ taken' < Readable(c, i) /\ Readable(c, i) <= arrived
           /\ \A j \in 0 .. i - 1 : Readable(c, j) < Readable(c, i)
    <3> SUFFICES ASSUME NEW i \in 0 .. n - len - 1
                 PROVE  /\ taken' < Readable(c, i) /\ Readable(c, i) <= arrived
                        /\ \A j \in 0 .. i - 1 : Readable(c, j) < Readable(c, i)
      OBVIOUS
    <3>1. len + i \in 0 .. n - 1 /\ Readable(c, i) = Byte(len + i)
      BY <1>1, <1>2, <1>3
    <3>2. taken' < Byte(len + i)
      BY <1>2, <1>4, <1>6, <3>1
    <3>3. \A j \in 0 .. i - 1 : Readable(c, j) = Byte(len + j) /\ len + j \in 0 .. (len + i) - 1
      BY <1>1, <1>2, <1>3
    <3> QED
      BY Zenon, <1>6, <3>1, <3>2, <3>3
  <2> QED
    BY Zenon, <1>1, <1>5, <1>10, <2>1 DEF InOrder
<1>12. LosslessWithoutSpill'
  <2> SUFFICES ASSUME ~spilled
               PROVE  Lossless'
    BY Zenon, <1>1 DEF LosslessWithoutSpill
  <2>1. n = arrived - taken /\ \A i \in 0 .. n - 1 : Byte(i) = taken + 1 + i
    BY Zenon DEF BufferInv, LosslessWithoutSpill, Lossless, n
  <2>2. taken' = taken + len
    BY <1>1, <1>2, <1>4, <2>1
  <2>3. \A i \in 0 .. n - len - 1 : Readable(c, i) = (taken + len) + 1 + i
    <3> TAKE i \in 0 .. n - len - 1
    <3>1. len + i \in 0 .. n - 1 /\ taken + 1 + (len + i) = (taken + len) + 1 + i
      BY <1>1, <1>2
    <3> QED
      BY Zenon, <1>3, <2>1, <3>1
  <2>4. n - len = arrived - (taken + len)
    BY <1>2, <2>1
  <2> QED
    BY Zenon, <1>1, <1>5, <2>2, <2>3, <2>4 DEF Lossless
<1>13. ReadableBytes(buffer)' <= peak'
  BY <1>1, <1>2, <1>5
<1>14. GrowthBounded'
  BY Zenon, <1>1, <1>3 DEF BufferInv, GrowthBounded
<1> QED
  BY Zenon, <1>7, <1>11, <1>12, <1>13, <1>14 DEF BufferInv

LEMMA BufferAlways == Spec => []BufferInv
<1>1. ASSUME BufferInv, [Next]_vars PROVE BufferInv'
  <2>0. /\ IsBuffer(buffer) /\ arrived + 1 \in Nat /\ arrived \in Nat /\ spilled \in BOOLEAN
        /\ WriteableBytes(buffer) \in Nat
    BY <1>1 DEF BufferInv, InOrder, TypeOK, IsBuffer, Indexes, WriteableBytes
  <2>1. ASSUME NEW len \in 0 .. MaxLen, Append(len) PROVE BufferInv'
    <3> DEFINE c == AppendTo(buffer, arrived + 1, len)
    <3>1. len \in Nat /\ 0 \in 0 .. len /\ (arrived + 1) + 0 = arrived + 1 /\ len - 0 = len
      BY <2>0, BufferAssumption
    <3>2. /\ IsBuffer(c) /\ Extends(c, buffer, arrived + 1, len)
          /\ c.size = buffer.size \/ c.size < 2 * ReadableBytes(c)
      BY Zenon, <2>0, <3>1, AppendExtends
    <3>3. Filled(c, len) /\ spilled' = spilled
      BY Zenon, <2>1 DEF Append
    <3> HIDE DEF c
    <3>4. Extends(c, buffer, (arrived + 1) + 0, len - 0)
      BY Zenon, <3>1, <3>2
    <3>5. spilled' \in BOOLEAN /\ (spilled => spilled')
      BY <2>0, <3>3, Zenon
    <3> QED
      BY Zenon, <1>1, <3>1, <3>2, <3>3, <3>4, <3>5, FilledKeeps
  <2>2. ASSUME NEW n \in 0 .. MaxBytes, ReadFd(n) PROVE BufferInv'
    <3> DEFINE c == ReadInto(buffer, arrived + 1, n)
               lost == IF n <= WriteableBytes(buffer) THEN 0 ELSE WriteableBytes(buffer)
    <3>1. n \in Nat /\ lost \in 0 .. n
      BY <2>0, BufferAssumption
    <3>2. /\ IsBuffer(c) /\ Extends(c, buffer, arrived + 1 + lost, n - lost)
          /\ c.size = buffer.size \/ c.size < 2 * ReadableBytes(c)
      BY Zenon, <2>0, <3>1, ReadExtends
    <3>3. Filled(c, n) /\ spilled' = (spilled \/ n > WriteableBytes(buffer))
      BY Zenon, <2>2 DEF ReadFd
    <3>4. spilled' \in BOOLEAN /\ (spilled => spilled')
      BY <3>3, Zenon
    <3>5. ~spilled' => lost = 0
      <4>1. ~spilled' => ~(n > WriteableBytes(buffer))
        BY <3>3, Zenon
      <4> QED
        BY <2>0, <3>1, <4>1
    <3> HIDE DEF c, lost
    <3> QED
      BY Zenon, <1>1, <3>1, <3>2, <3>3, <3>4, <3>5, FilledKeeps
  <2>3. ASSUME NEW len \in 0 .. MaxBytes, retrieve(len) PROVE BufferInv'
    <3>1. len \in Nat
      BY BufferAssumption
    <3> QED
      BY Zenon, <1>1, <2>3, <3>1, RetrieveKeeps
  <2>4. CASE UNCHANGED vars
    BY Zenon, <1>1, <2>4 DEF vars, BufferInv, IsBuffer, Indexes, InOrder, TypeOK, Byte, ReadableBytes,
                      LosslessWithoutSpill, Lossless, GrowthBounded
  <2> QED
    BY Zenon, <1>1, <2>1, <2>2, <2>3, <2>4 DEF Next
<1> QED
  BY <1>1, BufferInit, PTL DEF Spec

-----------------------------------------------------------------------------
(* Whatever is appended, read and retrieved, in whatever portions: the     *)
(* indexes stay in bounds, and what Peek shows is in the order of the      *)
(* stream and follows what retrieve took before.                           *)
THEOREM PeekIsInOrder == Spec => []InOrder
<1>1. BufferInv => InOrder
  BY Zenon DEF BufferInv
<1> QED
  BY <1>1, BufferAlways, PTL

(* A Buffer whose ReadFd never needed extra_buf, as is every output buffer,*)
(* holds exactly the bytes that went in and were not retrieved.            *)
THEOREM NothingLostWithoutSpill == Spec => []LosslessWithoutSpill
<1>1. BufferInv => LosslessWithoutSpill
  BY Zenon DEF BufferInv
<1> QED
  BY <1>1, BufferAlways, PTL

(* MakeSpace grows the vector only when the free bytes on both sides do    *)
(* not suffice, so it stays below twice the most it ever held.             *)
THEOREM VectorStaysSmall == Spec => []GrowthBounded
<1>1. BufferInv => GrowthBounded
  BY Zenon DEF BufferInv
<1> QED
  BY <1>1, BufferAlways, PTL
=============================================================================
