------------------------------ MODULE LogStream ------------------------------
(***************************************************************************)
(* mini_muduo::LogStream and the FixedBuffer it writes to: what each       *)
(* operator<< appends, which assertion it runs into when the buffer is     *)
(* nearly full, and how numbers become text.                               *)
(*                                                                         *)
(* Text is a sequence of characters.  A string literal of the program (a   *)
(* file name, a level's name, an escape sequence) is one character of its  *)
(* own, a number is formatted digit by digit; SIZE and kMaxNumericSize     *)
(* count these characters.  cur_ - data_ is the length of the text.        *)
(***************************************************************************)
EXTENDS Integers, Sequences, Functions

CONSTANTS
    SIZE,               \* of the FixedBuffer (kSmallBuffer)
    kMaxNumericSize,    \* the room every number must find
    MaxInt,             \* the largest value of the signed integer type
    Char                \* the characters

ASSUME LogStreamAssumption ==
    /\ SIZE \in Nat /\ kMaxNumericSize \in Nat \ {0}
    /\ MaxInt \in Nat

Signed == -MaxInt - 1 .. MaxInt
Unsigned == 0 .. 2 * MaxInt + 1
Value == Signed \cup Unsigned

-----------------------------------------------------------------------------
(* Integers.  % and / of C++ round toward zero, so the remainder of a      *)
(* negative number is negative; the table of digits is mirrored for it.    *)
Rem(i, n) == IF i < 0 THEN -((-i) % n) ELSE i % n
Quo(i, n) == IF i < 0 THEN -((-i) \div n) ELSE i \div n

digits == <<"9", "8", "7", "6", "5", "4", "3", "2", "1", "0",
            "1", "2", "3", "4", "5", "6", "7", "8", "9">>
digitsHex == <<"0", "1", "2", "3", "4", "5", "6", "7", "8", "9", "A", "B", "C", "D", "E", "F">>
zero(lsd) == digits[lsd + 10]

\* Mutated form: the loop goes on while something positive is left.
MoreIfPositive(i) == i > 0

More(i) == i # 0

(* What the loops of convert and convertHex have written, last digit first.*)
lsds[i \in Value] ==
    <<zero(Rem(i, 10))>> \o (IF More(Quo(i, 10)) THEN lsds[Quo(i, 10)] ELSE <<>>)

lsdsHex[i \in Unsigned] ==
    <<digitsHex[(i % 16) + 1]>> \o (IF More(i \div 16) THEN lsdsHex[i \div 16] ELSE <<>>)

(* std::reverse.                                                           *)
Reverse(s) == [i \in 1 .. Len(s) |-> s[Len(s) - i + 1]]

convert(value) == Reverse(lsds[value] \o (IF value < 0 THEN <<"-">> ELSE <<>>))
convertHex(value) == Reverse(lsdsHex[value])

-----------------------------------------------------------------------------
(* What a program can stream.  A double is known by the length of its      *)
(* "%.12f" form.                                                           *)
Str(s)     == [kind |-> "string", text |-> s]
Integer(v) == [kind |-> "integer", value |-> v]
Double(n)  == [kind |-> "double", length |-> n]
Pointer(a) == [kind |-> "pointer", address |-> a]

Item ==
    [kind : {"string"}, text : Seq(Char)]
    \cup [kind : {"integer"}, value : Value]
    \cup [kind : {"double"}, length : Nat]
    \cup [kind : {"pointer"}, address : Unsigned]

(* Memory behind the characters that snprintf wrote.                       *)
Junk == "?"

ASSUME CharAssumption == Range(digitsHex) \cup {"-", "x", "d", Junk} \subseteq Char

(* The text an item puts behind cur_.  snprintf writes no more than        *)
(* kMaxNumericSize - 1 characters and returns the length of them all.      *)
TextOf(x) ==
    CASE x.kind = "string"  -> x.text
      [] x.kind = "integer" -> convert(x.value)
      [] x.kind = "double"  -> [i \in 1 .. x.length |-> IF i < kMaxNumericSize THEN "d" ELSE Junk]
      [] x.kind = "pointer" -> <<"0", "x">> \o convertHex(x.address)

(* The room a number finds is enough for any number of the types (48       *)
(* characters for 64 bits), a pointer with its prefix and its NUL.         *)
ASSUME NumeralAssumption ==
    /\ \A v \in Value : Len(convert(v)) <= kMaxNumericSize
    /\ \A a \in Unsigned : Len(convertHex(a)) + 3 <= kMaxNumericSize

avail(text) == SIZE - Len(text)

(* append compares sizes, and a negative avail() is a huge size_t.         *)
StringFits(text, s) == avail(text) < 0 \/ avail(text) >= Len(s)

\* Mutated form: any room at all will do for a number.
NumberFitsIfAnyRoom(text) == avail(text) > 0

NumberFits(text) == avail(text) >= kMaxNumericSize

(* The test that append and the number operators make first.               *)
Fits(text, x) == IF x.kind = "string" THEN StringFits(text, x.text) ELSE NumberFits(text)

(* Without room a pointer is left out; everything else asserts, and        *)
(* without assertions a string is left out and a number is written.        *)
Asserts(text, x) == ~Fits(text, x) /\ x.kind # "pointer"

Writes(text, x) == Fits(text, x) \/ x.kind \in {"integer", "double"}

Put(text, x) == IF Writes(text, x) THEN text \o TextOf(x) ELSE text

(* The text an item stands for, and whether snprintf cuts it.              *)
Meant(x) == IF x.kind = "double" THEN [i \in 1 .. x.length |-> "d"] ELSE TextOf(x)
Cuts(x) == x.kind = "double" /\ x.length >= kMaxNumericSize

(* snprintf and convertHex write a NUL behind the digits, which cur_ does  *)
(* not count; in a double that is cut it is one of the characters counted. *)
EndsInNul(x) == x.kind = "pointer" \/ (x.kind = "double" /\ ~Cuts(x))
Extent(x) == Len(TextOf(x)) + IF EndsInNul(x) THEN 1 ELSE 0

Overruns(text, x) == Writes(text, x) /\ Len(text) + Extent(x) > SIZE

(* A stream is the text in its buffer with what has become of it: the text *)
(* it stands for, whether one of its assertions did not hold, whether      *)
(* snprintf has cut a double, and whether a write or cur_ has gone past    *)
(* the end of the buffer.                                                  *)
Stream == [text : Seq(Char), meant : Seq(Char), failed : BOOLEAN, cut : BOOLEAN, over : BOOLEAN]

NewStream == [text |-> <<>>, meant |-> <<>>, failed |-> FALSE, cut |-> FALSE, over |-> FALSE]

Streamed(s, x) ==
    [text |-> Put(s.text, x), meant |-> s.meant \o Meant(x),
     failed |-> s.failed \/ Asserts(s.text, x), cut |-> s.cut \/ Cuts(x),
     over |-> s.over \/ Overruns(s.text, x)]

(* operator<<.                                                             *)
s ++ x == Streamed(s, x)

-----------------------------------------------------------------------------
(* The number a text denotes, read from left to right.                     *)
DigitValue(c) == CHOOSE n \in 0..15 : digitsHex[n + 1] = c
Reads(text, base) ==
    LET value[i \in 0 .. Len(text)] ==
            IF i = 0 THEN 0 ELSE base * value[i - 1] + DigitValue(text[i])
    IN  value[Len(text)]

Plain(text, base) ==
    /\ \A i \in DOMAIN text : \E n \in 0 .. base - 1 : text[i] = digitsHex[n + 1]
    /\ Len(text) > 1 => text[1] # "0"

(* Every value of the types has its usual numeral: the right digits, none  *)
(* in front that is not needed, a minus sign exactly for negative values.  *)
DecimalsAreExact ==
    \A v \in Value :
        LET text == convert(v)
            body == IF v < 0 THEN Tail(text) ELSE text
        IN  /\ v < 0 => Head(text) = "-"
            /\ Plain(body, 10)
            /\ Reads(body, 10) = (IF v < 0 THEN -v ELSE v)

PointersAreExact ==
    \A a \in Unsigned :
        /\ Plain(convertHex(a), 16)
        /\ Reads(convertHex(a), 16) = a
=============================================================================
