------------------------------- MODULE RdbLen -------------------------------
(***************************************************************************)
(* The length codec of the dump file: writeLen and readLen of Rdb.cpp.     *)
(* A length below 2^6 takes one byte and a length below 2^14 two; the two  *)
(* highest bits of the first byte tell the reader which.                   *)
(***************************************************************************)
EXTENDS Integers, Sequences

CONSTANT MaxLen   \* largest length tried

ASSUME RdbLenAssumption == MaxLen \in Nat

\* Bit i of n.
Bit(n, i) == (n \div 2^i) % 2

\* The value of an exception, thrown by the writer or by the reader.
Error == [ok |-> FALSE]

\* (1 << 6) | (len & 0x3FFF), low byte first: the mark is bit 6 of the LOW
\* byte, where it falls on a bit of the length.
Marked(len) == IF Bit(len, 6) = 1 THEN len ELSE len + 64

writeLen_HighByteFirst(len) ==
    IF len < 64 THEN [ok |-> TRUE, bytes |-> <<len>>]
    ELSE IF len < 2^14
    THEN [ok |-> TRUE, bytes |-> <<Marked(len) \div 256, Marked(len) % 256>>]
    ELSE Error

writeLen(len) ==
    IF len < 64 THEN [ok |-> TRUE, bytes |-> <<len>>]
    ELSE IF len < 2^14
    THEN [ok |-> TRUE, bytes |-> <<Marked(len) % 256, Marked(len) \div 256>>]
    ELSE Error

readLen_Unmasked(bytes) ==
    IF bytes[1] \div 64 = 0
    THEN [ok |-> TRUE, len |-> bytes[1], used |-> 1]
    ELSE IF bytes[1] \div 64 = 1
    THEN [ok |-> TRUE, len |-> bytes[1] + 256 * bytes[2], used |-> 2]
    ELSE Error

\* Reads a length off the front of a sequence of bytes that is long enough.
readLen(bytes) ==
    IF bytes[1] \div 64 = 0
    THEN [ok |-> TRUE, len |-> bytes[1] % 64, used |-> 1]
    ELSE IF bytes[1] \div 64 = 1
    THEN [ok |-> TRUE, len |-> (bytes[1] % 64) + 256 * bytes[2], used |-> 2]
    ELSE Error

\* The lengths that survive a save and a load.
Faithful(len) == len < 64 \/ (len < 2^14 /\ (len \div 64) % 4 = 0)

-----------------------------------------------------------------------------
(* The lengths one after the other, as those of a growing string. *)

VARIABLE length

InitLength == length = 0

Grow == length < MaxLen /\ length' = length + 1

LengthSpec == InitLength /\ [][Grow]_length

-----------------------------------------------------------------------------
Read(n) == readLen(writeLen(n).bytes)

RoundTrip(n) ==
    Faithful(n) =>
        /\ writeLen(n).ok
        /\ Read(n) = [ok |-> TRUE, len |-> n, used |-> Len(writeLen(n).bytes)]

(* A faithful length is written, and read back with as many bytes as were
   written: the string after it starts where it should.  *)
FaithfulRoundTrip == RoundTrip(length)

Damage(n) ==
    writeLen(n).ok /\ ~ Faithful(n) =>
        \/ ~ Read(n).ok
        \/ Read(n).len < n /\ Read(n).used = Len(writeLen(n).bytes)

(* Any other length that is written ends the load with an exception or is
   read as a smaller one, never as a larger one that would run on past the
   string: the two bytes of the length are consumed in either case.  *)
DamageIsShort == Damage(length)

(* Rdb.cpp:31 says that only strings of more than 16KB are not supported.  *)
SupportedUpTo16KB == writeLen(length).ok => Read(length).ok /\ Read(length).len = length
=============================================================================
