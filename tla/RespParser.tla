----------------------------- MODULE RespParser -----------------------------
(***************************************************************************)
(* RespParser::parse of Protocol.cpp, byte by byte.  The server calls it   *)
(* on the whole read buffer after every read, so it meets every prefix of  *)
(* what a client sends: a request that may be wrong in one place, the same *)
(* one again behind it, byte after byte.                                   *)
(*                                                                         *)
(* A byte is a string; positions count from 1.  atoi is given numbers too  *)
(* short to overflow.                                                      *)
(***************************************************************************)
EXTENDS Integers, Sequences, SequencesExt, Decimal

CONSTANTS
    Byte,
    Word,      \* the arguments clients send, sequences of bytes
    MaxArgs,   \* arguments of a request
    Noise      \* what can be wrong at one place of a message, a few bytes

ASSUME ParserAssumption == Word \cup Noise \subseteq Seq(Byte) /\ MaxArgs \in Nat

CR == "\r"
LF == "\n"
CRLF == <<CR, LF>>
Space == {" ", CR, LF}

-----------------------------------------------------------------------------
(* The parser. *)

\* The first position from pos on whose byte is not in B; Len(s) + 1 if none.
Skip(s, pos, B) ==
    CHOOSE i \in pos .. Len(s) + 1 :
        /\ i = Len(s) + 1 \/ s[i] \notin B
        /\ \A j \in pos .. i - 1 : s[j] \in B

\* input.find("\r\n", pos), 0 for npos.
Find(s, pos) ==
    SelectInSeq([i \in 1 .. Len(s) - 1 |-> i],
                LAMBDA i : i >= pos /\ SubSeq(s, i, i + 1) = CRLF)

\* std::atoi: white space, also the end of a line, a minus sign (nobody sends
\* a plus), digits.
atoi(s, pos) ==
    LET start  == Skip(s, pos, Space)
        first  == IF start <= Len(s) /\ s[start] = "-" THEN start + 1 ELSE start
        number == SubSeq(s, first, Skip(s, first, ToSet(Digits)) - 1)
    IN IF first = start THEN Number(number) ELSE -Number(number)

At(result, args, pos) == [result |-> result, args |-> args, pos |-> pos]

Trailer_HalfOfIt(s, i) ==
    IF i > Len(s) THEN "INCOMPLETE" ELSE IF s[i] = CR THEN "COMPLETE" ELSE "ERROR"

Trailer_NotWaited(s, i) ==
    IF i + 1 <= Len(s) /\ SubSeq(s, i, i + 1) = CRLF THEN "COMPLETE" ELSE "ERROR"

\* The "\r\n" that should be at position i, behind an argument.
Trailer(s, i) ==
    IF i + 1 > Len(s) THEN "INCOMPLETE"
    ELSE IF SubSeq(s, i, i + 1) = CRLF THEN "COMPLETE" ELSE "ERROR"

\* One turn of the loop over the arguments.  A length of -1 is an argument
\* too, the empty one, with no data behind it.
ReadBulk(s, p) ==
    LET end  == Find(s, p.pos)
        len  == atoi(s, p.pos + 1)
        next == end + 2 + len
    IN IF p.pos > Len(s) THEN [p EXCEPT !.result = "INCOMPLETE"]
       ELSE IF s[p.pos] # "$" THEN [p EXCEPT !.result = "ERROR"]
       ELSE IF end = 0 THEN [p EXCEPT !.result = "INCOMPLETE"]
       ELSE IF len < -1 THEN [p EXCEPT !.result = "ERROR"]
       ELSE IF len = -1 THEN At("COMPLETE", Append(p.args, <<>>), end + 2)
       ELSE IF next - 1 > Len(s) THEN [p EXCEPT !.result = "INCOMPLETE"]
       ELSE At(Trailer(s, next), Append(p.args, SubSeq(s, end + 2, next - 1)), next + 2)

\* A count that is no number is 0, and a request without arguments complete.
parse(s) ==
    LET pos  == Skip(s, 1, Space)
        end  == Find(s, pos)
        argc == atoi(s, pos + 1)
        Loop(p, i) == IF p.result = "COMPLETE" THEN ReadBulk(s, p) ELSE p
    IN IF pos > Len(s) THEN At("INCOMPLETE", <<>>, pos)
       ELSE IF s[pos] # "*" THEN At("ERROR", <<>>, pos)
       ELSE IF end = 0 THEN At("INCOMPLETE", <<>>, pos)
       ELSE IF argc < 0 THEN At("ERROR", <<>>, pos)
       ELSE FoldLeft(Loop, At("COMPLETE", <<>>, end + 2), [i \in 1 .. argc |-> i])

-----------------------------------------------------------------------------
(* The client: a request, or one with noise before a byte or in its place,
   maybe once more.  *)

Header(mark, n) == <<mark>> \o Printed[n] \o CRLF

Bulk(word) == Header("$", Len(word)) \o word \o CRLF

Encode(args) == FoldLeft(LAMBDA m, word : m \o Bulk(word), Header("*", Len(args)), args)

Requests == UNION {[1 .. n -> Word] : n \in 0 .. MaxArgs}

Edits(m) ==
    {SubSeq(m, 1, i) \o n \o SubSeq(m, i + k, Len(m)) :
        i \in 0 .. Len(m), k \in {1, 2}, n \in Noise \cup {<<>>}}

VARIABLES
    request,   \* the arguments the client means
    message,   \* the bytes it sends
    input      \* those of them in the read buffer

vars == <<request, message, input>>

ParserInit ==
    /\ request \in Requests
    /\ \E rest \in {<<>>, Encode(request)} :
          message \in {m \o rest : m \in Edits(Encode(request))}
    /\ input = <<>>

Receive ==
    /\ Len(input) < Len(message)
    /\ input' = Append(input, message[Len(input) + 1])
    /\ UNCHANGED <<request, message>>

ParserSpec == ParserInit /\ [][Receive]_vars

-----------------------------------------------------------------------------
\* atoi does not stop at the end of the line: of a header without a number it
\* reads the next one.
Numbered(s) ==
    \A i \in 1 .. Len(s) - 1 : s[i] \in {"*", "$"} => s[i + 1] \notin Space

(* Once the parser has found a buffer complete or wrong, whatever arrives
   behind it changes neither that nor the arguments: how TCP cuts a message
   decides nothing, provided that every count is there.  *)
VerdictIsFinal ==
    [][parse(input).result # "INCOMPLETE" /\ Numbered(input') => parse(input') = parse(input)]_vars

(* A request, whatever bytes its arguments hold, is incomplete until its last
   byte is there, never wrong, and then gives back its arguments.  *)
RequestsSurviveCuts ==
    LET whole == Encode(request)
    IN /\ IsStrictPrefix(input, whole) => parse(input).result = "INCOMPLETE"
       /\ IsPrefix(whole, input) => parse(input).result = "COMPLETE" /\ parse(input).args = request
=============================================================================
