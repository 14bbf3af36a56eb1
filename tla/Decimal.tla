------------------------------ MODULE Decimal ------------------------------
(***************************************************************************)
(* Decimal numbers, as the library prints and reads them (std::to_string,  *)
(* std::atoi, std::strtoll): sequences of bytes, a byte a string.          *)
(***************************************************************************)
EXTENDS Integers, Sequences, SequencesExt

Digits == <<"0", "1", "2", "3", "4", "5", "6", "7", "8", "9">>

\* The digits of a number that is not negative.
Printed[n \in Nat] ==
    IF n < 10 THEN <<Digits[n + 1]>> ELSE Append(Printed[n \div 10], Digits[(n % 10) + 1])

\* One digit more.
Shift(n, b) == 10 * n + SelectInSeq(Digits, LAMBDA d : d = b) - 1

\* The number that digits stand for, 0 if there is none.
Number(digits) == FoldLeft(LAMBDA n, b : Shift(n, b), 0, digits)
=============================================================================
