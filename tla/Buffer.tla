------------------------------- MODULE Buffer -------------------------------
(***************************************************************************)
(* mini_muduo::Buffer: a vector of bytes with a read and a write index,    *)
(* filled by Append (a connection's output) or by ReadFd (its input) and   *)
(* emptied by retrieve.                                                    *)
(*                                                                         *)
(* The bytes that go in are numbered 1, 2, 3, ... in the order of the      *)
(* stream; 0 is what a byte of the vector holds before anything is stored  *)
(* there.  A buffer is a value b with fields size, data (a function on     *)
(* 0..size-1), read and write; the methods are operators on such values.   *)
(***************************************************************************)
EXTENDS Integers

CONSTANTS
    InitialSize,    \* kInitialSize
    ExtraSize,      \* sizeof(extra_buf) in ReadFd
    MaxBytes,       \* bound on the length of the stream
    MaxLen          \* bound on one Append

ASSUME BufferAssumption ==
    /\ InitialSize \in Nat /\ ExtraSize \in Nat
    /\ MaxBytes \in Nat /\ MaxLen \in Nat

VARIABLES
    buffer,     \* buffer_, read_index_ and write_index_
    arrived,    \* history: the last byte of the stream given to the buffer
    taken,      \* history: the last byte retrieved from it
    peak,       \* history: the most bytes that were ever readable
    spilled     \* history: did a ReadFd ever need extra_buf?

vars == <<buffer, arrived, taken, peak, spilled>>

ReadableBytes(b) == b.write - b.read
WriteableBytes(b) == b.size - b.write
FreeSize(b) == b.size - b.write + b.read

(* std::copy of len consecutive bytes of the stream, from byte first on.   *)
Store(b, at, first, len) ==
    [b EXCEPT !.data = [i \in 0 .. b.size - 1 |->
                            IF at <= i /\ i < at + len THEN first + (i - at) ELSE b.data[i]]]

Resize(b, n) ==
    [b EXCEPT !.size = n,
              !.data = [i \in 0 .. n - 1 |-> IF i < b.size THEN b.data[i] ELSE 0]]

\* Mutated form: the last readable byte is not moved to the front.
CompactShort(b) ==
    [b EXCEPT !.data = [i \in 0 .. b.size - 1 |->
                            IF i < ReadableBytes(b) - 1 THEN b.data[b.read + i] ELSE b.data[i]],
              !.write = b.write - b.read,
              !.read = 0]

Compact(b) ==
    [b EXCEPT !.data = [i \in 0 .. b.size - 1 |->
                            IF i < ReadableBytes(b) THEN b.data[b.read + i] ELSE b.data[i]],
              !.write = b.write - b.read,
              !.read = 0]

\* Mutated form: the vector is doubled whenever it is too small.
MakeSpaceDoubling(b, len) ==
    IF len > FreeSize(b) THEN Resize(b, 2 * (b.size + len)) ELSE Compact(b)

MakeSpace(b, len) ==
    IF len > FreeSize(b) THEN Resize(b, b.write + len) ELSE Compact(b)

AppendTo(b, first, len) ==
    LET roomy == IF WriteableBytes(b) < len THEN MakeSpace(b, len) ELSE b
    IN  [Store(roomy, roomy.write, first, len) EXCEPT !.write = @ + len]

\* Mutated form: a partial retrieve empties the buffer.
RetrieveEverything(b, len) == [b EXCEPT !.read = 0, !.write = 0]

RetrieveFrom(b, len) ==
    IF len < ReadableBytes(b) THEN [b EXCEPT !.read = b.read + len]
    ELSE [b EXCEPT !.read = 0, !.write = 0]

(* readv of n bytes of the stream: what fits goes behind write_index_, the *)
(* rest through extra_buf and Append, before which write_index_ has not    *)
(* moved.                                                                  *)
ReadInto(b, first, n) ==
    LET writable == WriteableBytes(b)
        inPlace == Store(b, b.write, first, n)
    IN  IF n <= writable THEN [inPlace EXCEPT !.write = @ + n]
        ELSE AppendTo(inPlace, first + writable, n - writable)

-----------------------------------------------------------------------------
Init ==
    /\ buffer = [size |-> InitialSize, data |-> [i \in 0 .. InitialSize - 1 |-> 0],
                 read |-> 0, write |-> 0]
    /\ arrived = 0
    /\ taken = 0
    /\ peak = 0
    /\ spilled = FALSE

Filled(b, len) ==
    /\ arrived + len <= MaxBytes
    /\ buffer' = b
    /\ arrived' = arrived + len
    /\ peak' = IF ReadableBytes(b) > peak THEN ReadableBytes(b) ELSE peak
    /\ UNCHANGED taken

Append(len) ==
    /\ Filled(AppendTo(buffer, arrived + 1, len), len)
    /\ UNCHANGED spilled

(* A failing readv (n < 0, which the unsigned comparison sends to the      *)
(* second branch) leaves the buffer alone, as n = 0 does.                  *)
ReadFd(n) ==
    /\ n <= WriteableBytes(buffer) + ExtraSize
    /\ Filled(ReadInto(buffer, arrived + 1, n), n)
    /\ spilled' = (spilled \/ n > WriteableBytes(buffer))

retrieve(len) ==
    /\ len <= ReadableBytes(buffer)
    /\ buffer' = RetrieveFrom(buffer, len)
    /\ taken' = IF len = 0 THEN taken ELSE buffer.data[buffer.read + len - 1]
    /\ UNCHANGED <<arrived, peak, spilled>>

Next ==
    \/ \E len \in 0..MaxLen : Append(len)
    \/ \E n \in 0..MaxBytes : ReadFd(n)
    \/ \E len \in 0..MaxBytes : retrieve(len)

Spec == Init /\ [][Next]_vars

-----------------------------------------------------------------------------
(* Types, and the order of the two indexes inside the vector on which all  *)
(* the unsigned subtractions of Buffer.h rest.                             *)
TypeOK ==
    /\ buffer.size \in Nat /\ buffer.read \in Nat /\ buffer.write \in Nat
    /\ buffer.data \in [0 .. buffer.size - 1 -> Nat]
    /\ buffer.read <= buffer.write
    /\ buffer.write <= buffer.size
    /\ arrived \in 0..MaxBytes
    /\ taken \in 0..arrived
    /\ peak \in Nat
    /\ spilled \in BOOLEAN

Byte(i) == buffer.data[buffer.read + i]

(* What can be read is always in the order of the stream, without repeats  *)
(* or bytes that were never received, and follows what was read before,    *)
(* through every growth, compaction and overflow of the vector, whose      *)
(* indexes stay in bounds (TypeOK).                                        *)
InOrder ==
    /\ TypeOK
    /\ \A i \in 0 .. ReadableBytes(buffer) - 1 :
         /\ taken < Byte(i) /\ Byte(i) <= arrived
         /\ \A j \in 0 .. i - 1 : Byte(j) < Byte(i)

(* "Suck all the data out of the kernel with ReadFd of the self-growing    *)
(* Buffer" (TcpConnection.cc:46): nothing that was received is missing.    *)
Lossless ==
    /\ ReadableBytes(buffer) = arrived - taken
    /\ \A i \in 0 .. ReadableBytes(buffer) - 1 : Byte(i) = taken + 1 + i

(* As long as every readv fits behind write_index_, this is so.            *)
LosslessWithoutSpill == ~spilled => Lossless

(* The vector stays below twice what it ever had to hold, although         *)
(* MakeSpace grows it without reclaiming the bytes in front of read_index_.*)
GrowthBounded == buffer.size <= InitialSize \/ buffer.size < 2 * peak
=============================================================================
