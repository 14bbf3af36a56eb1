----------------------------- MODULE DataProofs -----------------------------
(***************************************************************************)
(* What the program keeps or reads as sequences of bytes: decimal numbers, *)
(* the ascending vector of module SetObject, what a search in it finds and *)
(* what its members are; the elements a list keeps in module ListObject;   *)
(* the requests module RespParser cuts and reads.                          *)
(***************************************************************************)
EXTENDS SetObject, ListObject, RespParser, SequenceTheorems, FiniteSetTheorems, TLAPS

INSTANCE VectorLemmas WITH Combine <- LAMBDA value, w, x : Walk(w, x, value)

\* One turn of the parser's loop, and one argument more of a request.
Turn(s, p, i) == IF p.result = "COMPLETE" THEN ReadBulk(s, p) ELSE p

Attach(any, m, word) == m \o Bulk(word)

Num == INSTANCE VectorLemmas WITH Combine <- LAMBDA p, n, b : Shift(n, b)
Par == INSTANCE VectorLemmas WITH Combine <- Turn
Enc == INSTANCE VectorLemmas WITH Combine <- Attach

-----------------------------------------------------------------------------
(* Decimal numbers. *)

\* The equation that defines Printed, for the numbers up to n.
Prints(f, n) ==
    f = [i \in 0 .. n |->
           IF i < 10 THEN <<Digits[i + 1]>> ELSE Append(f[i \div 10], Digits[(i % 10) + 1])]

LEMMA Tenth ==
    ASSUME NEW n \in Nat
    PROVE  /\ n \div 10 \in 0 .. n /\ n % 10 \in 0 .. 9 /\ 10 * (n \div 10) + (n % 10) = n
           /\ n >= 10 => n \div 10 \in 0 .. n - 1
OBVIOUS

LEMMA PrintsExists == ASSUME NEW n \in Nat PROVE \E f : Prints(f, n)
<1> DEFINE G == {m \in 0 .. n : \E f : Prints(f, m)}
           One(f, i) == IF i < 10 THEN <<Digits[i + 1]>> ELSE Append(f[i \div 10], Digits[(i % 10) + 1])
<1>1. 0 \in G
  <2> DEFINE f == [i \in 0 .. 0 |-> <<Digits[i + 1]>>]
  <2>1. Prints(f, 0)
    BY DEF Prints
  <2> HIDE DEF f
  <2> QED BY <2>1
<1>2. ASSUME NEW m \in 1 .. n, m - 1 \in G PROVE m \in G
  <2>1. PICK f : Prints(f, m - 1)
    BY <1>2
  <2>2. f = [i \in 0 .. m - 1 |-> One(f, i)]
    BY <2>1 DEF Prints
  <2> DEFINE g == [i \in 0 .. m |-> One(f, i)]
  <2> HIDE DEF One
  <2>3. \A i \in 0 .. m - 1 : g[i] = f[i]
    BY <2>2
  <2>4. \A i \in 0 .. m : i >= 10 => i \div 10 \in 0 .. m - 1
    BY Tenth
  <2> HIDE DEF g
  <2>5. \A i \in 0 .. m : One(g, i) = One(f, i)
    BY <2>3, <2>4 DEF One
  <2>6. g = [i \in 0 .. m |-> One(g, i)]
    BY <2>5 DEF g
  <2>7. Prints(g, m)
    BY <2>6 DEF Prints, One
  <2> QED BY <2>7
<1> HIDE DEF G
<1>3. 0 .. n \subseteq G
  BY <1>1, <1>2, Num!UpTo
<1>4. n \in G
  BY <1>3
<1> QED BY <1>4 DEF G

LEMMA PrintsUnique ==
    ASSUME NEW n \in Nat, NEW k \in 0 .. n, NEW f, NEW g, Prints(f, n), Prints(g, k)
    PROVE  \A i \in 0 .. k : f[i] = g[i]
<1> DEFINE G == {m \in 0 .. k : \A i \in 0 .. m : f[i] = g[i]}
           One(h, i) == IF i < 10 THEN <<Digits[i + 1]>> ELSE Append(h[i \div 10], Digits[(i % 10) + 1])
<1>1. k \in Nat /\ \A i \in 0 .. k : i \in 0 .. n
  OBVIOUS
<1>2. \A i \in 0 .. k : f[i] = One(f, i) /\ g[i] = One(g, i)
  BY <1>1 DEF Prints
<1>3. 0 \in G
  <2>1. \A i \in 0 .. 0 : i \in 0 .. k /\ One(f, i) = One(g, i)
    BY <1>1
  <2> HIDE DEF One
  <2>2. \A i \in 0 .. 0 : f[i] = g[i]
    BY <1>2, <2>1
  <2> QED BY <1>1, <2>2
<1>4. ASSUME NEW m \in 1 .. k, m - 1 \in G PROVE m \in G
  <2>1. m \in 0 .. k /\ m \in Nat /\ \A i \in 0 .. m - 1 : f[i] = g[i]
    BY <1>1, <1>4
  <2>2. m >= 10 => m \div 10 \in 0 .. m - 1
    BY <2>1, Tenth
  <2>3. One(f, m) = One(g, m)
    BY <2>1, <2>2
  <2> HIDE DEF One
  <2>4. f[m] = g[m]
    BY <1>2, <2>1, <2>3
  <2>5. \A i \in 0 .. m : i \in 0 .. m - 1 \/ i = m
    BY <2>1
  <2> QED BY <2>1, <2>4, <2>5
<1> HIDE DEF G
<1>5. 0 .. k \subseteq G
  BY <1>1, <1>3, <1>4, Num!UpTo
<1>6. k \in G
  BY <1>1, <1>5
<1> QED BY <1>6 DEF G

(* A number is printed digit by digit.  *)
LEMMA PrintedIs ==
    ASSUME NEW n \in Nat
    PROVE  Printed[n] = IF n < 10 THEN <<Digits[n + 1]>>
                        ELSE Append(Printed[n \div 10], Digits[(n % 10) + 1])
<1> DEFINE One(f, i) == IF i < 10 THEN <<Digits[i + 1]>> ELSE Append(f[i \div 10], Digits[(i % 10) + 1])
           fun(m) == CHOOSE f : Prints(f, m)
           g == [m \in Nat |-> fun(m)[m]]
<1>1. \A m \in Nat : Prints(fun(m), m)
  BY PrintsExists
<1>2. ASSUME NEW m \in Nat PROVE g[m] = One(g, m)
  <2>1. m \in 0 .. m
    OBVIOUS
  <2>2. fun(m)[m] = One(fun(m), m)
    <3> DEFINE f == fun(m)
    <3>1. Prints(f, m)
      BY <1>1
    <3> HIDE DEF f
    <3>2. f[m] = One(f, m)
      BY <2>1, <3>1 DEF Prints
    <3> QED BY <3>2 DEF f
  <2> HIDE DEF fun
  <2>3. ASSUME m >= 10 PROVE fun(m)[m \div 10] = g[m \div 10]
    <3> DEFINE k == m \div 10
    <3>1. k \in 0 .. m /\ k \in Nat /\ k \in 0 .. k
      BY <2>3, Tenth
    <3> HIDE DEF k
    <3>2. Prints(fun(m), m) /\ Prints(fun(k), k)
      BY <1>1, <3>1
    <3>3. fun(m)[k] = fun(k)[k]
      BY <3>1, <3>2, PrintsUnique
    <3>4. g[k] = fun(k)[k]
      BY <3>1
    <3> QED BY <3>3, <3>4 DEF k
  <2>4. g[m] = fun(m)[m]
    OBVIOUS
  <2> HIDE DEF g
  <2>5. One(fun(m), m) = One(g, m)
    BY <2>3
  <2> QED BY <2>2, <2>4, <2>5
<1> HIDE DEF One
<1>3. g = [m \in Nat |-> One(g, m)]
  <2> DEFINE h == g
  <2>1. h = [m \in Nat |-> h[m]]
    OBVIOUS
  <2>2. \A m \in Nat : h[m] = One(h, m)
    BY <1>2
  <2> HIDE DEF h
  <2>3. h = [m \in Nat |-> One(h, m)]
    BY <2>1, <2>2
  <2> QED BY <2>3 DEF h
<1>4. \E f : f = [m \in Nat |-> One(f, m)]
  <2> HIDE DEF g
  <2> QED BY <1>3
<1>5. Printed = CHOOSE f : f = [m \in Nat |-> One(f, m)]
  BY DEF Printed, One
<1>6. Printed = [m \in Nat |-> One(Printed, m)]
  BY <1>4, <1>5
<1>7. Printed[n] = One(Printed, n)
  BY <1>6
<1> QED BY <1>7 DEF One

LEMMA DigitsApart == \A i, j \in 1 .. 10 : Digits[i] = Digits[j] => i = j
BY DEF Digits

LEMMA DigitsSeq ==
    /\ Digits \in Seq(ToSet(Digits)) /\ Len(Digits) = 10
    /\ \A i \in 1 .. 10 : Digits[i] \in ToSet(Digits)
<1>1. Len(Digits) = 10 /\ DOMAIN Digits = 1 .. 10
  BY DEF Digits
<1>2. \A i \in 1 .. 10 : Digits[i] \in ToSet(Digits)
  BY <1>1 DEF ToSet
<1>3. Digits = [i \in 1 .. 10 |-> Digits[i]]
  BY DEF Digits
<1> QED BY <1>1, <1>2, <1>3

LEMMA ShiftIs ==
    ASSUME NEW v \in Nat, NEW k \in 0 .. 9
    PROVE  Shift(v, Digits[k + 1]) = 10 * v + k
<1> DEFINE I == {i \in 1 .. Len(Digits) : Digits[i] = Digits[k + 1]}
<1>1. k + 1 \in 1 .. 10 /\ Len(Digits) = 10
  BY DigitsSeq
<1>2. I = {k + 1}
  BY <1>1, DigitsApart
<1>3. Min(I) = k + 1
  <2>1. Min({k + 1}) = k + 1
    <3>1. \E x \in {k + 1} : \A y \in {k + 1} : x <= y
      BY <1>1
    <3> QED BY <3>1 DEF Min
  <2> QED BY <1>2, <2>1
<1>4. SelectInSeq(Digits, LAMBDA d : d = Digits[k + 1]) = k + 1
  <2>1. SelectInSeq(Digits, LAMBDA d : d = Digits[k + 1]) = IF I # {} THEN Min(I) ELSE 0
    BY DEF SelectInSeq
  <2> HIDE DEF I
  <2> QED BY <1>2, <1>3, <2>1
<1> QED BY <1>1, <1>4 DEF Shift

LEMMA NumberShifts ==
    ASSUME NEW S, NEW z \in Seq(S), NEW b \in S
    PROVE  Number(<<>>) = 0 /\ Number(Append(z, b)) = Shift(Number(z), b)
<1>1. \A s : Number(s) = Num!Fold(0, 0, s)
  BY DEF Number, Num!Fold, FoldLeft, Num!FoldLeft, MapThenFoldSet, Num!MapThenFoldSet, Max, Num!Max
<1>2. Num!Fold(0, 0, Append(z, b)) = Shift(Num!Fold(0, 0, z), b)
  BY Num!FoldOneMore
<1>3. Num!Fold(0, 0, <<>>) = 0
  BY Num!FoldNothing
<1> QED BY <1>1, <1>2, <1>3

(* A number printed is read back, from its digits only.  *)
LEMMA PrintedIsRead ==
    ASSUME NEW n \in Nat
    PROVE  /\ Printed[n] \in Seq(ToSet(Digits)) /\ Printed[n] # <<>>
           /\ Number(Printed[n]) = n
<1> DEFINE S == ToSet(Digits)
           Good(m) == Printed[m] \in Seq(S) /\ Printed[m] # <<>> /\ Number(Printed[m]) = m
           G == {m \in 0 .. n : \A k \in 0 .. m : Good(k)}
<1>1. ASSUME NEW m \in Nat, m >= 10 => Good(m \div 10)
      PROVE  Good(m)
  <2>1. CASE m < 10
    <3> DEFINE e == Digits[m + 1]
    <3>1. Printed[m] = <<e>> /\ m \in 0 .. 9 /\ e \in S
      <4>1. Printed[m] = <<e>>
        BY <2>1, PrintedIs
      <4>2. m \in 0 .. 9 /\ m + 1 \in 1 .. 10
        BY <2>1
      <4>3. e \in S
        BY <4>2, DigitsSeq
      <4> QED BY <4>1, <4>2, <4>3
    <3>2. <<e>> = Append(<<>>, e) /\ <<>> \in Seq(S) /\ <<e>> \in Seq(S) /\ <<e>> # <<>>
      BY <3>1
    <3>3. Number(<<e>>) = Shift(0, e)
      BY <3>1, <3>2, NumberShifts
    <3>4. Shift(0, e) = 10 * 0 + m
      BY <3>1, ShiftIs
    <3> HIDE DEF e, S
    <3> QED BY <3>1, <3>2, <3>3, <3>4
  <2>2. CASE m >= 10
    <3> DEFINE k == m \div 10
               j == m % 10
               e == Digits[j + 1]
               z == Printed[k]
    <3>1. k \in Nat /\ j \in 0 .. 9 /\ 10 * k + j = m
      <4>1. k \in 0 .. m /\ j \in 0 .. 9 /\ 10 * k + j = m
        BY Tenth
      <4> HIDE DEF k, j
      <4> QED BY <4>1
    <3>2. Printed[m] = Append(z, e) /\ e \in S
      <4>1. Printed[m] = Append(z, e)
        <5>1. Printed[m] = IF m < 10 THEN <<Digits[m + 1]>> ELSE Append(z, e)
          BY PrintedIs
        <5> QED BY <2>2, <5>1
      <4>2. j + 1 \in 1 .. 10
        BY <3>1
      <4>3. e \in S
        BY <4>2, DigitsSeq
      <4> QED BY <4>1, <4>3
    <3>3. z \in Seq(S) /\ Number(z) = k
      BY <1>1, <2>2
    <3> HIDE DEF k, j, z
    <3>4. Shift(k, e) = 10 * k + j
      BY <3>1, ShiftIs
    <3> HIDE DEF e, S
    <3>5. Number(Append(z, e)) = Shift(k, e)
      BY <3>2, <3>3, NumberShifts
    <3>6. Append(z, e) \in Seq(S) /\ Append(z, e) # <<>>
      BY <3>2, <3>3
    <3> QED BY <3>1, <3>2, <3>4, <3>5, <3>6
  <2> QED BY <2>1, <2>2
<1> HIDE DEF Good
<1>2. 0 \in G
  <2>1. Good(0)
    BY <1>1
  <2>2. \A k \in 0 .. 0 : Good(k)
    BY <2>1
  <2> QED BY <2>2
<1>3. ASSUME NEW m \in 1 .. n, m - 1 \in G PROVE m \in G
  <2>1. m \in Nat /\ \A k \in 0 .. m - 1 : Good(k)
    BY <1>3
  <2>2. Good(m)
    <3>1. m >= 10 => m \div 10 \in 0 .. m - 1
      BY <2>1, Tenth
    <3> QED BY <1>1, <2>1, <3>1
  <2>3. \A k \in 0 .. m : k \in 0 .. m - 1 \/ k = m
    BY <2>1
  <2> QED BY <2>1, <2>2, <2>3
<1> HIDE DEF G
<1>4. 0 .. n \subseteq G
  BY <1>2, <1>3, Num!UpTo
<1>5. n \in G
  BY <1>4
<1>6. Good(n)
  BY <1>5 DEF G
<1> QED BY <1>6 DEF Good

LEMMA SignsApart == "+" \notin ToSet(Digits) /\ "-" \notin ToSet(Digits)
<1>1. \A i \in 1 .. 10 : Digits[i] # "+" /\ Digits[i] # "-"
  BY DEF Digits
<1>2. DOMAIN Digits = 1 .. 10
  BY DEF Digits
<1> QED BY <1>1, <1>2 DEF ToSet

(* strtoll reads the number that to_string printed, whatever the width:
   promoting a set of numbers loses none of them.  *)
THEOREM NumbersRoundTrip == RoundTrips
<1> SUFFICES ASSUME NEW n \in int64_t PROVE tryParseInt(to_string(n)) = n
  BY DEF RoundTrips
<1> DEFINE S == ToSet(Digits)
           k == IF n < 0 THEN -n ELSE n
           z == Printed[k]
           s == to_string(n)
<1>1. n \in Int /\ k \in Nat
  BY SetObjectAssumption DEF int64_t
<1>2. z \in Seq(S) /\ z # <<>> /\ Number(z) = k
  BY <1>1, PrintedIsRead
<1>3. s = IF n < 0 THEN <<"-">> \o z ELSE z
  BY DEF to_string
<1> HIDE DEF s
<1>4. (n < 0 => k = -n) /\ (~ n < 0 => k = n)
  OBVIOUS
<1> HIDE DEF S, z, k
<1>5. ToSet(z) \subseteq S
  BY <1>2 DEF ToSet
<1>6. "+" \notin S /\ "-" \notin S
  BY SignsApart DEF S
<1>7. CASE ~ n < 0
  <2>1. s = z /\ k = n
    BY <1>3, <1>4, <1>7
  <2>2. z[1] \in S
    BY <1>2
  <2>3. ~ (z # <<>> /\ z[1] \in {"+", "-"}) /\ z[1] # "-"
    BY <1>6, <2>2
  <2>4. tryParseInt(z) = Number(z)
    BY <1>2, <1>5, <2>1, <2>3 DEF tryParseInt, S
  <2> QED BY <1>2, <2>1, <2>4 DEF s
<1>8. CASE n < 0
  <2>1. s = <<"-">> \o z /\ k = -n
    BY <1>3, <1>4, <1>8
  <2>2. s # <<>> /\ s[1] = "-" /\ Tail(s) = z
    <3>1. s = [i \in 1 .. 1 + Len(z) |-> IF i = 1 THEN "-" ELSE z[i - 1]]
      BY <1>2, <2>1
    <3> HIDE DEF s
    <3>2. Len(s) = 1 + Len(z) /\ Len(z) \in Nat /\ z = [i \in 1 .. Len(z) |-> z[i]]
      BY <1>2, <3>1
    <3>3. Tail(s) = [i \in 1 .. Len(z) |-> s[i + 1]]
      BY <1>2, <2>1, <3>2
    <3>4. \A i \in 1 .. Len(z) : s[i + 1] = z[i]
      BY <3>1, <3>2
    <3> QED BY <3>1, <3>2, <3>3, <3>4
  <2>3. -k = n
    BY <1>1, <2>1
  <2>4. tryParseInt(s) = -Number(z)
    BY <1>2, <1>5, <2>2, <2>3 DEF tryParseInt, S
  <2> QED BY <1>2, <2>3, <2>4 DEF s
<1> QED BY <1>7, <1>8

-----------------------------------------------------------------------------
(* The vector of a set. *)

(* The search ends at the first element that is not smaller.  *)
LEMMA LowerBound ==
    ASSUME NEW data \in Seq(Int), NEW n \in Int
    PROVE  LET i == binary_search(data, n)
           IN /\ i \in 1 .. Len(data) + 1
              /\ i = Len(data) + 1 \/ data[i] >= n
              /\ \A j \in 1 .. i - 1 : data[j] < n
<1> DEFINE T == {i \in 1 .. Len(data) + 1 : i = Len(data) + 1 \/ data[i] >= n}
<1>1. T \in SUBSET Nat /\ Len(data) + 1 \in T
  OBVIOUS
<1>2. PICK i \in T : \A j \in T : i <= j
  BY <1>1, Least
<1>3. \A j \in 1 .. i - 1 : data[j] < n
  <2> TAKE j \in 1 .. i - 1
  <2>1. j \in 1 .. Len(data) /\ j \notin T
    BY <1>2
  <2>2. data[j] \in Int
    BY <2>1, ElementOfSeq
  <2> QED BY <2>1, <2>2
<1>4. \E k \in 1 .. Len(data) + 1 :
         /\ k = Len(data) + 1 \/ data[k] >= n
         /\ \A j \in 1 .. k - 1 : data[j] < n
  BY <1>2, <1>3
<1> QED BY <1>4 DEF binary_search

(* In an ascending vector it finds what is there.  *)
LEMMA Search ==
    ASSUME NEW data \in Seq(Int), Ascending(data), NEW n \in Int
    PROVE  Has(data, n) <=> \E i \in 1 .. Len(data) : data[i] = n
<1> DEFINE b == binary_search(data, n)
<1>1. /\ b \in 1 .. Len(data) + 1
      /\ b = Len(data) + 1 \/ data[b] >= n
      /\ \A j \in 1 .. b - 1 : data[j] < n
  BY LowerBound
<1>2. ASSUME NEW i \in 1 .. Len(data), data[i] = n
      PROVE  b <= Len(data) /\ data[b] = n
  <2>1. b <= i
    BY <1>1, <1>2
  <2>2. data[b] \in Int /\ data[i] \in Int
    BY <1>1, <2>1, ElementOfSeq
  <2>3. b < i => data[b] < data[i]
    BY <1>1, <2>1 DEF Ascending
  <2> QED BY <1>1, <1>2, <2>1, <2>2, <2>3
<1> QED BY <1>1, <1>2 DEF Has

-----------------------------------------------------------------------------
(* The vector stays ascending. *)

(* Every number of the width has its place; a new one goes where the search
   ends, behind the smaller ones and in front of the larger.  *)
LEMMA InsertAscending ==
    ASSUME NEW data \in Seq(int64_t), Ascending(data), NEW n \in int64_t
    PROVE  /\ insert(data, n) \in Seq(int64_t) /\ Ascending(insert(data, n))
           /\ Len(insert(data, n)) \in {Len(data), Len(data) + 1}
           /\ \A k \in int64_t : Has(insert(data, n), k) <=> k = n \/ Has(data, k)
<1> DEFINE i == binary_search(data, n)
           new == InsertAt(data, i, n)
<1>0. int64_t \subseteq Int /\ data \in Seq(Int) /\ n \in Int
  BY SetObjectAssumption, SeqMonotonic DEF int64_t
<1>1. CASE Has(data, n)
  <2>1. insert(data, n) = data
    BY <1>1 DEF insert
  <2> QED BY <1>1, <2>1
<1>2. CASE ~ Has(data, n)
  <2>1. /\ i \in 1 .. Len(data) + 1
        /\ i = Len(data) + 1 \/ data[i] >= n
        /\ \A j \in 1 .. i - 1 : data[j] < n
    BY <1>0, LowerBound
  <2>2. i <= Len(data) => data[i] # n
    BY <1>2 DEF Has
  <2> HIDE DEF i
  <2>3. /\ new \in Seq(int64_t)
        /\ Len(new) = Len(data) + 1
        /\ \A j \in 1 .. i - 1 : new[j] = data[j]
        /\ new[i] = n
        /\ \A j \in i + 1 .. Len(data) + 1 : new[j] = data[j - 1]
    BY <2>1, Inserted
  <2> HIDE DEF new
  <2>4. \A j \in 1 .. Len(data) : data[j] \in Int
    BY <1>0, ElementOfSeq
  <2>5. \A j \in i .. Len(data) : n < data[j]
    <3> TAKE j \in i .. Len(data)
    <3>1. n < data[i]
      BY <1>0, <2>1, <2>2, <2>4
    <3>2. i < j => data[i] < data[j]
      BY <2>1 DEF Ascending
    <3> QED BY <1>0, <2>1, <2>4, <3>1, <3>2
  <2>6. Ascending(new)
    <3> SUFFICES ASSUME NEW j \in 1 .. Len(data) + 1, NEW k \in 1 .. Len(data) + 1, j < k
                 PROVE  new[j] < new[k]
      BY <2>3 DEF Ascending
    <3>1. CASE k < i
      <4>1. new[j] = data[j] /\ new[k] = data[k]
        BY <2>1, <2>3, <3>1
      <4> QED BY <2>1, <3>1, <4>1 DEF Ascending
    <3>2. CASE k = i
      <4>1. new[j] = data[j] /\ data[j] < n
        BY <2>1, <2>3, <3>2
      <4> QED BY <2>3, <3>2, <4>1
    <3>3. CASE i < k /\ j = i
      <4>1. new[k] = data[k - 1] /\ k - 1 \in i .. Len(data)
        BY <2>1, <2>3, <3>3
      <4> QED BY <2>3, <2>5, <3>3, <4>1
    <3>4. CASE i < k /\ j < i
      <4>1. new[k] = data[k - 1] /\ k - 1 \in i .. Len(data) /\ new[j] = data[j] /\ data[j] < n
        BY <2>1, <2>3, <3>4
      <4>2. j \in 1 .. Len(data) /\ j < k - 1
        BY <2>1, <3>4
      <4> QED BY <4>1, <4>2 DEF Ascending
    <3>5. CASE i < j
      <4>1. /\ new[k] = data[k - 1] /\ k - 1 \in 1 .. Len(data)
            /\ new[j] = data[j - 1] /\ j - 1 \in 1 .. Len(data)
        BY <2>1, <2>3, <3>5
      <4> QED BY <4>1 DEF Ascending
    <3> QED BY <2>1, <3>1, <3>2, <3>3, <3>4, <3>5
  <2>7. ASSUME NEW k \in int64_t
        PROVE  (\E j \in 1 .. Len(new) : new[j] = k)
                  <=> k = n \/ \E j \in 1 .. Len(data) : data[j] = k
    <3>1. ASSUME NEW j \in 1 .. Len(new), new[j] = k, k # n
          PROVE  \E h \in 1 .. Len(data) : data[h] = k
      <4>1. CASE j < i
        BY <2>1, <2>3, <3>1, <4>1
      <4>2. CASE i < j
        <5>1. j - 1 \in 1 .. Len(data) /\ data[j - 1] = k
          BY <2>1, <2>3, <3>1, <4>2
        <5> QED BY <5>1
      <4> QED BY <2>1, <2>3, <3>1, <4>1, <4>2
    <3>2. ASSUME NEW j \in 1 .. Len(data), data[j] = k
          PROVE  \E h \in 1 .. Len(new) : new[h] = k
      <4>1. CASE j < i
        BY <2>1, <2>3, <3>2, <4>1
      <4>2. CASE i <= j
        <5>1. j + 1 \in i + 1 .. Len(data) + 1 /\ (j + 1) - 1 = j
          BY <2>1, <4>2
        <5>2. new[j + 1] = k /\ j + 1 \in 1 .. Len(new)
          BY <2>1, <2>3, <3>2, <5>1
        <5> QED BY <5>2
      <4> QED BY <2>1, <4>1, <4>2
    <3>3. i \in 1 .. Len(new) /\ new[i] = n
      BY <2>1, <2>3
    <3> QED BY <3>1, <3>2, <3>3
  <2>8. \A k \in int64_t : Has(new, k) <=> k = n \/ Has(data, k)
    <3>1. new \in Seq(Int)
      BY <1>0, <2>3, SeqMonotonic
    <3> QED BY <1>0, <2>6, <2>7, <3>1, Search
  <2>9. insert(data, n) = new
    BY <1>2 DEF insert, new, i
  <2> QED BY <2>3, <2>6, <2>8, <2>9
<1> QED BY <1>1, <1>2

LEMMA InsertLength ==
    ASSUME NEW data \in Seq(int64_t), Ascending(data), NEW n \in int64_t
    PROVE  Len(insert(data, n)) = IF Has(data, n) THEN Len(data) ELSE Len(data) + 1
<1>1. CASE Has(data, n)
  BY <1>1 DEF insert
<1>2. CASE ~ Has(data, n)
  <2>1. int64_t \subseteq Int /\ data \in Seq(Int) /\ n \in Int
    BY SetObjectAssumption, SeqMonotonic DEF int64_t
  <2> DEFINE i == binary_search(data, n)
  <2>2. i \in 1 .. Len(data) + 1
    BY <2>1, LowerBound
  <2>3. insert(data, n) = InsertAt(data, i, n)
    BY <1>2 DEF insert
  <2> HIDE DEF i
  <2>4. Len(InsertAt(data, i, n)) = Len(data) + 1
    BY <2>2, Inserted
  <2> QED BY <1>2, <2>3, <2>4
<1> QED BY <1>1, <1>2

LEMMA EraseAscending ==
    ASSUME NEW data \in Seq(int64_t), Ascending(data), NEW n \in int64_t
    PROVE  /\ erase(data, n) \in Seq(int64_t) /\ Ascending(erase(data, n))
           /\ Len(erase(data, n)) <= Len(data)
           /\ \A k \in int64_t : Has(erase(data, n), k) <=> k # n /\ Has(data, k)
<1> DEFINE i == binary_search(data, n)
           new == RemoveAt(data, i)
<1>0. int64_t \subseteq Int /\ data \in Seq(Int) /\ n \in Int
  BY SetObjectAssumption, SeqMonotonic DEF int64_t
<1>1. CASE ~ Has(data, n)
  <2>1. erase(data, n) = data
    BY <1>1 DEF erase
  <2> QED BY <1>1, <2>1
<1>2. CASE Has(data, n)
  <2>1. i \in 1 .. Len(data) /\ data[i] = n
    BY <1>0, <1>2, LowerBound DEF Has
  <2> HIDE DEF i
  <2>2. /\ new \in Seq(int64_t)
        /\ Len(new) = Len(data) - 1
        /\ \A j \in 1 .. i - 1 : new[j] = data[j]
        /\ \A j \in i .. Len(data) - 1 : new[j] = data[j + 1]
    BY <2>1, Erased
  <2> HIDE DEF new
  <2> DEFINE from(j) == IF j < i THEN j ELSE j + 1
  <2>3. \A j \in 1 .. Len(new) :
           /\ from(j) \in (1 .. Len(data)) \ {i}
           /\ new[j] = data[from(j)]
    BY <2>1, <2>2
  <2>4. Ascending(new)
    <3> SUFFICES ASSUME NEW j \in 1 .. Len(new), NEW k \in 1 .. Len(new), j < k
                 PROVE  new[j] < new[k]
      BY <2>2 DEF Ascending
    <3>1. from(j) < from(k)
      BY <2>1
    <3>2. new[j] = data[from(j)] /\ new[k] = data[from(k)]
      BY <2>3
    <3>3. from(j) \in 1 .. Len(data) /\ from(k) \in 1 .. Len(data)
      BY <2>3
    <3> HIDE DEF from
    <3> QED BY <3>1, <3>2, <3>3 DEF Ascending
  <2>5. \A j \in 1 .. Len(data) : data[j] \in Int
    BY <1>0, ElementOfSeq
  <2>6. \A j \in (1 .. Len(data)) \ {i} : data[j] # n
    <3> TAKE j \in (1 .. Len(data)) \ {i}
    <3>1. j < i => data[j] < data[i]
      BY <2>1 DEF Ascending
    <3>2. i < j => data[i] < data[j]
      BY <2>1 DEF Ascending
    <3> QED BY <2>1, <2>5, <3>1, <3>2
  <2>7. ASSUME NEW k \in int64_t
        PROVE  (\E j \in 1 .. Len(new) : new[j] = k)
                  <=> k # n /\ \E j \in 1 .. Len(data) : data[j] = k
    <3>1. ASSUME NEW j \in 1 .. Len(new), new[j] = k
          PROVE  k # n /\ \E h \in 1 .. Len(data) : data[h] = k
      BY <2>3, <2>6, <3>1
    <3>2. ASSUME NEW j \in 1 .. Len(data), data[j] = k, k # n
          PROVE  \E h \in 1 .. Len(new) : new[h] = k
      <4>1. CASE j < i
        <5>1. j \in 1 .. Len(new) /\ new[j] = k
          BY <2>1, <2>2, <3>2, <4>1
        <5> QED BY <5>1
      <4>2. CASE i < j
        <5>1. j - 1 \in i .. Len(data) - 1 /\ (j - 1) + 1 = j
          BY <2>1, <4>2
        <5>2. j - 1 \in 1 .. Len(new) /\ new[j - 1] = k
          BY <2>1, <2>2, <3>2, <5>1
        <5> QED BY <5>2
      <4> QED BY <2>1, <3>2, <4>1, <4>2
    <3> QED BY <3>1, <3>2
  <2>8. \A k \in int64_t : Has(new, k) <=> k # n /\ Has(data, k)
    <3>1. new \in Seq(Int)
      BY <1>0, <2>2, SeqMonotonic
    <3> QED BY <1>0, <2>4, <2>7, <3>1, Search
  <2>9. erase(data, n) = new
    BY <1>2 DEF erase, new, i
  <2>10. Len(data) \in Nat
    OBVIOUS
  <2> QED BY <2>2, <2>4, <2>8, <2>9, <2>10
<1> QED BY <1>1, <1>2

-----------------------------------------------------------------------------
(* The operations. *)

LEMMA Parsed ==
    ASSUME NEW m
    PROVE  tryParseInt(m) \in int64_t \/ tryParseInt(m) = NoInt
BY Zenon DEF tryParseInt

LEMMA NoIntIsNone == NoInt \notin int64_t
BY SetObjectAssumption DEF NoInt, int64_t

\* SetTypeOK, of any object.
IsSet(o) ==
    /\ o = [encoding |-> o.encoding, intset |-> o.intset, strset |-> o.strset]
    /\ \/ o.encoding = "INTSET" /\ o.strset = {} /\ Len(o.intset) <= INTSET_MAX_ENTRIES
       \/ o.encoding = "STRSET" /\ o.intset = <<>>
    /\ o.intset \in Seq(int64_t) /\ Ascending(o.intset)

LEMMA EmptyVector == <<>> \in Seq(int64_t) /\ Ascending(<<>>) /\ Len(<<>>) = 0
BY DEF Ascending

LEMMA PromoteSound ==
    ASSUME NEW o, IsSet(o)
    PROVE  /\ IsSet(promote_to_strset(o))
           /\ promote_to_strset(o).encoding = "STRSET"
<1>1. CASE o.encoding = "INTSET"
  BY <1>1, EmptyVector DEF promote_to_strset, IsSet
<1>2. CASE o.encoding # "INTSET"
  BY <1>2 DEF promote_to_strset, IsSet
<1> QED BY <1>1, <1>2

LEMMA AddSound ==
    ASSUME NEW o, IsSet(o), NEW m
    PROVE  IsSet(add(o, m)) /\ contains(add(o, m), m)
<1> DEFINE n == tryParseInt(m)
           p == promote_to_strset(o)
<1>1. CASE n # NoInt /\ should_use_intset(o)
  <2>1. add(o, m) = [o EXCEPT !.intset = insert(@, n)]
    BY <1>1 DEF add
  <2>2. n \in int64_t
    BY <1>1, Parsed
  <2>3. o.encoding = "INTSET" /\ Len(o.intset) < INTSET_MAX_ENTRIES
    BY <1>1 DEF should_use_intset
  <2> HIDE DEF n
  <2>4. o.intset \in Seq(int64_t) /\ Ascending(o.intset)
    BY DEF IsSet
  <2>5. /\ insert(o.intset, n) \in Seq(int64_t) /\ Ascending(insert(o.intset, n))
        /\ Len(insert(o.intset, n)) \in {Len(o.intset), Len(o.intset) + 1}
        /\ Has(insert(o.intset, n), n)
    BY <2>2, <2>4, InsertAscending
  <2>6. Len(insert(o.intset, n)) <= INTSET_MAX_ENTRIES
    <3>1. Len(o.intset) \in Nat
      BY <2>4
    <3> QED BY <2>3, <2>5, <3>1, SetObjectAssumption
  <2>7. /\ add(o, m).encoding = "INTSET"
        /\ add(o, m).intset = insert(o.intset, n)
        /\ add(o, m).strset = {}
        /\ add(o, m) = [encoding |-> "INTSET", intset |-> insert(o.intset, n), strset |-> {}]
    BY <2>1, <2>3 DEF IsSet
  <2>8. IsSet(add(o, m))
    BY <2>5, <2>6, <2>7 DEF IsSet
  <2>9. contains(add(o, m), m)
    BY <1>1, <2>5, <2>7 DEF contains, n
  <2> QED BY <2>8, <2>9
<1>2. CASE ~ (n # NoInt /\ should_use_intset(o))
  <2>1. add(o, m) = [p EXCEPT !.strset = @ \cup {m}]
    BY <1>2 DEF add
  <2>2. IsSet(p) /\ p.encoding = "STRSET"
    BY PromoteSound
  <2> HIDE DEF p
  <2>3. /\ add(o, m) = [encoding |-> "STRSET", intset |-> p.intset, strset |-> p.strset \cup {m}]
        /\ p.intset = <<>>
    BY <2>1, <2>2 DEF IsSet
  <2>4. IsSet(add(o, m))
    BY <2>3, EmptyVector DEF IsSet
  <2>5. contains(add(o, m), m)
    BY <2>3 DEF contains
  <2> QED BY <2>4, <2>5
<1> QED BY <1>1, <1>2

LEMMA RemoveSound ==
    ASSUME NEW o, IsSet(o), NEW m
    PROVE  IsSet(remove(o, m)) /\ ~ contains(remove(o, m), m)
<1> DEFINE n == tryParseInt(m)
<1>1. CASE o.encoding # "INTSET"
  <2>1. /\ remove(o, m) = [encoding |-> "STRSET", intset |-> <<>>, strset |-> o.strset \ {m}]
    BY <1>1 DEF remove, IsSet
  <2>2. IsSet(remove(o, m))
    BY <2>1, EmptyVector DEF IsSet
  <2>3. ~ contains(remove(o, m), m)
    BY <2>1 DEF contains
  <2> QED BY <2>2, <2>3
<1>2. CASE o.encoding = "INTSET" /\ n = NoInt
  BY <1>2 DEF remove, contains
<1>3. CASE o.encoding = "INTSET" /\ n # NoInt
  <2>1. n \in int64_t
    BY <1>3, Parsed
  <2>2. remove(o, m) = [encoding |-> "INTSET", intset |-> erase(o.intset, n), strset |-> {}]
    BY <1>3 DEF remove, IsSet
  <2> HIDE DEF n
  <2>3. o.intset \in Seq(int64_t) /\ Ascending(o.intset) /\ Len(o.intset) <= INTSET_MAX_ENTRIES
    BY <1>3 DEF IsSet
  <2>4. /\ erase(o.intset, n) \in Seq(int64_t) /\ Ascending(erase(o.intset, n))
        /\ Len(erase(o.intset, n)) <= Len(o.intset)
        /\ ~ Has(erase(o.intset, n), n)
    BY <2>1, <2>3, EraseAscending
  <2>5. Len(erase(o.intset, n)) <= INTSET_MAX_ENTRIES
    <3>1. Len(o.intset) \in Nat /\ Len(erase(o.intset, n)) \in Nat
      BY <2>3, <2>4
    <3> QED BY <2>3, <2>4, <3>1, SetObjectAssumption
  <2>6. IsSet(remove(o, m))
    BY <2>2, <2>4, <2>5 DEF IsSet
  <2>7. ~ contains(remove(o, m), m)
    BY <2>2, <2>4 DEF contains, n
  <2> QED BY <2>6, <2>7
<1> QED BY <1>1, <1>2, <1>3

-----------------------------------------------------------------------------
(* In every state the vector is in ascending order and within its limit, so
   that the binary search of intset.cpp finds what is there.  *)
THEOREM VectorAscends == Spec => []SetTypeOK
<1>1. Init => IsSet(theSet)
  BY EmptyVector, SetObjectAssumption DEF Init, NewSet, IsSet
<1>2. IsSet(theSet) /\ [Next]_theSet => IsSet(theSet)'
  <2> SUFFICES ASSUME IsSet(theSet), [Next]_theSet
               PROVE  IsSet(theSet')
    BY DEF IsSet, Ascending
  <2>1. CASE \E m \in Member : AddMember(m)
    BY <2>1, AddSound DEF AddMember
  <2>2. CASE \E m \in Member : RemoveMember(m)
    BY <2>2, RemoveSound DEF RemoveMember
  <2>3. CASE UNCHANGED theSet
    BY <2>3
  <2> QED BY <2>1, <2>2, <2>3 DEF Next
<1>3. IsSet(theSet) <=> SetTypeOK
  BY DEF IsSet, SetTypeOK
<1> QED BY <1>1, <1>2, <1>3, PTL DEF Spec

(* Whatever the encoding and the spelling, add makes contains true and remove
   makes it false: no promotion in between can change that.  *)
THEOREM MembersAreRead == Spec => []SetReadYourWrite
<1>1. SetTypeOK => IsSet(theSet)
  BY DEF IsSet, SetTypeOK
<1>2. IsSet(theSet) => SetReadYourWrite
  BY AddSound, RemoveSound DEF SetReadYourWrite
<1> QED BY <1>1, <1>2, VectorAscends, PTL

-----------------------------------------------------------------------------
(* Other members. *)

LEMMA HasIsIn ==
    ASSUME NEW o, IsSet(o), NEW n \in int64_t
    PROVE  Has(o.intset, n) <=> n \in ToSet(o.intset)
<1>1. /\ o.intset \in Seq(int64_t) /\ Ascending(o.intset)
      /\ int64_t \subseteq Int
  BY SetObjectAssumption DEF IsSet, int64_t
<1>2. o.intset \in Seq(Int) /\ n \in Int
  BY <1>1, SeqMonotonic
<1>3. DOMAIN o.intset = 1 .. Len(o.intset)
  BY <1>1
<1> QED BY <1>1, <1>2, <1>3, Search DEF ToSet

\* Promotion changes neither what is contained nor what is not.
LEMMA PromoteKeeps ==
    ASSUME NEW o, IsSet(o), NEW k, Plain(k)
    PROVE  k \in promote_to_strset(o).strset <=> contains(o, k)
<1>1. CASE o.encoding # "INTSET"
  BY <1>1 DEF promote_to_strset, contains
<1>2. CASE o.encoding = "INTSET"
  <2>1. promote_to_strset(o).strset = {to_string(n) : n \in ToSet(o.intset)}
    BY <1>2 DEF promote_to_strset
  <2>2. ToSet(o.intset) \subseteq int64_t
    BY DEF IsSet, ToSet
  <2>3. ASSUME contains(o, k)
        PROVE  k \in promote_to_strset(o).strset
    <3>1. tryParseInt(k) # NoInt /\ Has(o.intset, tryParseInt(k))
      BY <1>2, <2>3 DEF contains
    <3>2. tryParseInt(k) \in int64_t
      BY <3>1, Parsed
    <3>3. tryParseInt(k) \in ToSet(o.intset)
      BY <3>1, <3>2, HasIsIn
    <3>4. to_string(tryParseInt(k)) = k
      BY <3>1 DEF Plain
    <3> QED BY <2>1, <3>3, <3>4
  <2>4. ASSUME k \in promote_to_strset(o).strset
        PROVE  contains(o, k)
    <3>1. PICK n \in ToSet(o.intset) : k = to_string(n)
      BY <2>1, <2>4
    <3>2. n \in int64_t /\ tryParseInt(k) = n
      BY <2>2, <3>1, NumbersRoundTrip DEF RoundTrips
    <3>3. Has(o.intset, n) /\ n # NoInt
      BY <3>1, <3>2, HasIsIn, NoIntIsNone
    <3> QED BY <1>2, <3>2, <3>3 DEF contains
  <2> QED BY <2>3, <2>4
<1> QED BY <1>1, <1>2

LEMMA AddMoves ==
    ASSUME NEW o, IsSet(o), NEW m, NEW k, Plain(k)
    PROVE  /\ contains(o, k) => contains(add(o, m), k)
           /\ ~ contains(o, k) /\ contains(add(o, m), k) => Alike(k, m)
<1>1. CASE tryParseInt(m) # NoInt /\ should_use_intset(o)
  <2>1. /\ o.encoding = "INTSET"
        /\ add(o, m).encoding = "INTSET"
        /\ add(o, m).intset = insert(o.intset, tryParseInt(m))
    BY <1>1 DEF add, should_use_intset, IsSet
  <2>2. o.intset \in Seq(int64_t) /\ Ascending(o.intset) /\ tryParseInt(m) \in int64_t
    BY <1>1, Parsed DEF IsSet
  <2>3. \A n \in int64_t : Has(add(o, m).intset, n) <=> n = tryParseInt(m) \/ Has(o.intset, n)
    <3>1. \A n \in int64_t :
            Has(insert(o.intset, tryParseInt(m)), n) <=> n = tryParseInt(m) \/ Has(o.intset, n)
      <4> DEFINE t == tryParseInt(m)
      <4>1. t \in int64_t
        BY <2>2
      <4> HIDE DEF t
      <4>2. \A n \in int64_t : Has(insert(o.intset, t), n) <=> n = t \/ Has(o.intset, n)
        BY <2>2, <4>1, InsertAscending
      <4> QED BY <4>2 DEF t
    <3> QED BY <2>1, <3>1
  <2>4. tryParseInt(k) # NoInt => tryParseInt(k) \in int64_t
    BY Parsed
  <2> QED BY <1>1, <2>1, <2>3, <2>4 DEF contains, Alike
<1>2. CASE ~ (tryParseInt(m) # NoInt /\ should_use_intset(o))
  <2>1. /\ add(o, m).encoding = "STRSET"
        /\ add(o, m).strset = promote_to_strset(o).strset \cup {m}
    BY <1>2, PromoteSound DEF add, IsSet
  <2> QED BY <2>1, PromoteKeeps DEF contains, Alike
<1> QED BY <1>1, <1>2

LEMMA RemoveMoves ==
    ASSUME NEW o, IsSet(o), NEW m, NEW k
    PROVE  /\ contains(remove(o, m), k) => contains(o, k)
           /\ contains(o, k) /\ ~ contains(remove(o, m), k) => Alike(k, m)
<1>1. CASE o.encoding # "INTSET"
  <2>1. /\ remove(o, m).encoding # "INTSET"
        /\ remove(o, m).strset = o.strset \ {m}
    BY <1>1 DEF remove, IsSet
  <2> QED BY <1>1, <2>1 DEF contains, Alike
<1>2. CASE o.encoding = "INTSET" /\ tryParseInt(m) = NoInt
  BY <1>2 DEF remove
<1>3. CASE o.encoding = "INTSET" /\ tryParseInt(m) # NoInt
  <2>1. /\ remove(o, m).encoding = "INTSET"
        /\ remove(o, m).intset = erase(o.intset, tryParseInt(m))
    BY <1>3 DEF remove, IsSet
  <2>2. o.intset \in Seq(int64_t) /\ Ascending(o.intset) /\ tryParseInt(m) \in int64_t
    BY <1>3, Parsed DEF IsSet
  <2>3. \A n \in int64_t :
           Has(remove(o, m).intset, n) <=> n # tryParseInt(m) /\ Has(o.intset, n)
    <3> DEFINE data == o.intset
               x    == tryParseInt(m)
    <3> HIDE DEF data, x
    <3>1. \A n \in int64_t : Has(erase(data, x), n) <=> n # x /\ Has(data, n)
      BY <2>2, EraseAscending DEF data, x
    <3> QED BY <2>1, <3>1 DEF data, x
  <2>4. tryParseInt(k) # NoInt => tryParseInt(k) \in int64_t
    BY Parsed
  <2> QED BY <1>3, <2>1, <2>3, <2>4 DEF contains, Alike
<1> QED BY <1>1, <1>2, <1>3

(* A member that means the same in both encodings comes and goes only by its
   own name, through any number of insertions in the middle of the vector and
   the promotion (SetObject::add, SetObject::remove), because a number printed
   is read back as itself.  *)
THEOREM MembersComeAndGo == Spec => MembersStay
<1>1. ASSUME IsSet(theSet), [Next]_theSet, NEW k \in Member, Plain(k)
      PROVE  /\ ~ contains(theSet, k) /\ contains(theSet', k) =>
                   \E n \in Member : Alike(k, n) /\ AddMember(n)
             /\ contains(theSet, k) /\ ~ contains(theSet', k) =>
                   \E n \in Member : Alike(k, n) /\ RemoveMember(n)
  <2>1. CASE \E m \in Member : AddMember(m)
    <3>1. PICK m \in Member : AddMember(m)
      BY <2>1
    <3>2. theSet' = add(theSet, m)
      BY <3>1 DEF AddMember
    <3> QED BY <1>1, <3>1, <3>2, AddMoves
  <2>2. CASE \E m \in Member : RemoveMember(m)
    <3>1. PICK m \in Member : RemoveMember(m)
      BY <2>2
    <3>2. theSet' = remove(theSet, m)
      BY <3>1 DEF RemoveMember
    <3> QED BY <1>1, <3>1, <3>2, RemoveMoves
  <2>3. CASE UNCHANGED theSet
    BY <2>3
  <2> QED BY <1>1, <2>1, <2>2, <2>3 DEF Next
<1>2. SetTypeOK => IsSet(theSet)
  BY DEF IsSet, SetTypeOK
<1> DEFINE Stay ==
      \A m \in Member :
          /\ Plain(m) /\ ~ contains(theSet, m) /\ contains(theSet', m) =>
                \E n \in Member : Alike(m, n) /\ AddMember(n)
          /\ Plain(m) /\ contains(theSet, m) /\ ~ contains(theSet', m) =>
                \E n \in Member : Alike(m, n) /\ RemoveMember(n)
<1>3. SetTypeOK /\ [Next]_theSet => [Stay]_theSet
  BY <1>1, <1>2
<1>4. MembersStay <=> [][Stay]_theSet
  BY DEF MembersStay
<1> QED BY <1>3, <1>4, VectorAscends, PTL DEF Spec

-----------------------------------------------------------------------------
(* How many members there are. *)

(* Numbers in ascending order are printed as as many strings.  *)
LEMMA PrintedApart ==
    ASSUME NEW data \in Seq(int64_t), Ascending(data)
    PROVE  LET S == {to_string(n) : n \in ToSet(data)}
           IN IsFiniteSet(S) /\ Cardinality(S) = Len(data)
<1> DEFINE N == Len(data)
           S == {to_string(n) : n \in ToSet(data)}
           f == [i \in 1 .. N |-> to_string(data[i])]
<1>1. /\ N \in Nat /\ ToSet(data) = {data[i] : i \in 1 .. N}
      /\ \A i \in 1 .. N : data[i] \in int64_t /\ data[i] \in Int
  BY SetObjectAssumption, ElementOfSeq DEF ToSet, int64_t
<1>2. ASSUME NEW i \in 1 .. N, NEW j \in 1 .. N, to_string(data[i]) = to_string(data[j])
      PROVE  i = j
  <2>1. data[i] = data[j]
    BY <1>1, <1>2, NumbersRoundTrip DEF RoundTrips
  <2>2. (i < j => data[i] < data[j]) /\ (j < i => data[j] < data[i])
    BY DEF Ascending
  <2> QED BY <1>1, <2>1, <2>2
<1>3. f \in Bijection(1 .. N, S)
  <2> HIDE DEF N
  <2>1. f \in [1 .. N -> S]
    BY <1>1
  <2>2. \A i, j \in 1 .. N : f[i] = f[j] => i = j
    BY <1>2
  <2>3. \A s \in S : \E i \in 1 .. N : f[i] = s
    BY <1>1
  <2> HIDE DEF f, S
  <2> QED BY <2>1, <2>2, <2>3 DEF Bijection, Injection, Surjection, IsInjective
<1>4. IsFiniteSet(1 .. N) /\ Cardinality(1 .. N) = N
  BY <1>1, OneTo
<1>5. ExistsBijection(1 .. N, S)
  BY <1>3 DEF ExistsBijection
<1> HIDE DEF S, N
<1>6. IsFiniteSet(S) /\ Cardinality(S) = N
  BY <1>4, <1>5, FS_Bijection
<1> QED BY <1>6 DEF S, N

\* What is true of an object besides its type: the unordered_set is finite.
IsCounted(o) == IsSet(o) /\ IsFiniteSet(o.strset)

(* A promotion keeps the number of members.  *)
LEMMA PromoteCounts ==
    ASSUME NEW o, IsCounted(o)
    PROVE  /\ IsFiniteSet(promote_to_strset(o).strset)
           /\ Cardinality(promote_to_strset(o).strset) = size(o)
           /\ promote_to_strset(o).strset = members(o)
<1>1. CASE o.encoding = "INTSET"
  <2>1. o.intset \in Seq(int64_t) /\ Ascending(o.intset)
    BY DEF IsCounted, IsSet
  <2>2. /\ promote_to_strset(o).strset = {to_string(n) : n \in ToSet(o.intset)}
        /\ members(o) = {to_string(n) : n \in ToSet(o.intset)}
        /\ size(o) = Len(o.intset)
    BY <1>1 DEF promote_to_strset, members, size
  <2> QED BY <2>1, <2>2, PrintedApart
<1>2. CASE o.encoding # "INTSET"
  BY <1>2 DEF promote_to_strset, members, size, IsCounted
<1> QED BY <1>1, <1>2

LEMMA AddCounts ==
    ASSUME NEW o, IsCounted(o), NEW m
    PROVE  /\ IsFiniteSet(add(o, m).strset)
           /\ size(add(o, m)) = size(o) + (IF added(o, m) THEN 1 ELSE 0)
<1> DEFINE n == tryParseInt(m)
           p == promote_to_strset(o)
<1>1. CASE n # NoInt /\ should_use_intset(o)
  <2>1. /\ o.encoding = "INTSET" /\ o.strset = {}
        /\ o.intset \in Seq(int64_t) /\ Ascending(o.intset)
    BY <1>1 DEF should_use_intset, IsCounted, IsSet
  <2>2. /\ add(o, m) = [o EXCEPT !.intset = insert(@, n)]
        /\ added(o, m) <=> ~ Has(o.intset, n)
    BY <1>1 DEF add, added
  <2>3. n \in int64_t
    BY <1>1, Parsed
  <2> HIDE DEF n
  <2>4. /\ add(o, m).encoding = "INTSET" /\ add(o, m).strset = {}
        /\ add(o, m).intset = insert(o.intset, n)
    BY <2>1, <2>2 DEF IsCounted, IsSet
  <2>5. Len(insert(o.intset, n)) = IF Has(o.intset, n) THEN Len(o.intset) ELSE Len(o.intset) + 1
    BY <2>1, <2>3, InsertLength
  <2>6. Len(o.intset) \in Nat
    BY <2>1
  <2>7. IsFiniteSet(add(o, m).strset)
    BY <2>4, FS_EmptySet
  <2>8. size(add(o, m)) = Len(insert(o.intset, n)) /\ size(o) = Len(o.intset)
    BY <2>1, <2>4 DEF size
  <2>9. size(add(o, m)) = size(o) + (IF added(o, m) THEN 1 ELSE 0)
    <3>1. CASE Has(o.intset, n)
      BY <2>2, <2>5, <2>6, <2>8, <3>1
    <3>2. CASE ~ Has(o.intset, n)
      BY <2>2, <2>5, <2>6, <2>8, <3>2
    <3> QED BY <3>1, <3>2
  <2> QED BY <2>7, <2>9
<1>2. CASE ~ (n # NoInt /\ should_use_intset(o))
  <2>1. /\ IsFiniteSet(p.strset) /\ Cardinality(p.strset) = size(o)
        /\ IsSet(p) /\ p.encoding = "STRSET"
    BY PromoteCounts, PromoteSound DEF IsCounted
  <2>2. /\ add(o, m).encoding = "STRSET" /\ add(o, m).strset = p.strset \cup {m}
        /\ added(o, m) <=> m \notin p.strset
    <3>1. add(o, m) = [p EXCEPT !.strset = @ \cup {m}] /\ (added(o, m) <=> m \notin p.strset)
      BY <1>2 DEF add, added
    <3> HIDE DEF p
    <3> QED BY <2>1, <3>1 DEF IsSet
  <2> HIDE DEF p
  <2>3. Cardinality(p.strset \cup {m}) = IF m \in p.strset THEN Cardinality(p.strset) ELSE Cardinality(p.strset) + 1
    BY <2>1, FS_AddElement
  <2>4. IsFiniteSet(p.strset \cup {m}) /\ Cardinality(p.strset) \in Nat
    BY <2>1, FS_AddElement, FS_CardinalityType
  <2> QED BY <2>1, <2>2, <2>3, <2>4 DEF size
<1> QED BY <1>1, <1>2

LEMMA RemoveIsFinite ==
    ASSUME NEW o, IsCounted(o), NEW m
    PROVE  IsFiniteSet(remove(o, m).strset)
<1>1. remove(o, m).strset \in {o.strset, o.strset \ {m}}
  BY DEF remove, IsCounted, IsSet
<1> QED BY <1>1, FS_RemoveElement DEF IsCounted

(* Because a number printed is read back as itself, no two members are alike,
   through promotions and under every spelling, so that size() is their number
   and the result of add is true exactly when it grows (SetObject::size,
   SetObject::add).  *)
THEOREM MembersAreCounted == Spec => []SizeCounts
<1>1. Init => IsCounted(theSet)
  <2>1. Init => IsSet(theSet)
    BY EmptyVector, SetObjectAssumption DEF Init, NewSet, IsSet
  <2>2. Init => theSet.strset = {}
    BY DEF Init, NewSet
  <2> QED BY <2>1, <2>2, FS_EmptySet DEF IsCounted
<1>2. IsCounted(theSet) /\ [Next]_theSet => IsCounted(theSet')
  <2> SUFFICES ASSUME IsCounted(theSet), [Next]_theSet
               PROVE  IsCounted(theSet')
    OBVIOUS
  <2>1. CASE \E m \in Member : AddMember(m)
    BY <2>1, AddSound, AddCounts DEF AddMember, IsCounted
  <2>2. CASE \E m \in Member : RemoveMember(m)
    BY <2>2, RemoveSound, RemoveIsFinite DEF RemoveMember, IsCounted
  <2>3. CASE UNCHANGED theSet
    BY <2>3
  <2> QED BY <2>1, <2>2, <2>3 DEF Next
<1>3. IsCounted(theSet) => SizeCounts
  BY PromoteCounts, AddCounts DEF SizeCounts
<1>4. IsCounted(theSet') <=> IsCounted(theSet)'
  BY DEF IsCounted, IsSet, Ascending
<1> QED BY <1>1, <1>2, <1>3, <1>4, PTL DEF Spec

-----------------------------------------------------------------------------
(* The elements of a list at given positions. *)

\* How many positions of P are in front of one.
Rank(P, p) == Cardinality({q \in P : q < p})

LEMMA FiniteUpTo ==
    ASSUME NEW n \in Nat, NEW P \in SUBSET (1 .. n)
    PROVE  /\ IsFiniteSet(P) /\ Cardinality(P) \in Nat /\ Cardinality(P) <= n
           /\ \A T \in SUBSET P : /\ IsFiniteSet(T) /\ Cardinality(T) \in Nat
                                  /\ Cardinality(T) <= Cardinality(P)
                                  /\ T # P => Cardinality(T) < Cardinality(P)
<1>1. IsFiniteSet(1 .. n) /\ Cardinality(1 .. n) = n
  BY OneTo
<1>2. IsFiniteSet(P) /\ Cardinality(P) <= n
  BY <1>1, FS_Subset
<1>3. Cardinality(P) \in Nat
  BY <1>2, FS_CardinalityType
<1>4. ASSUME NEW T \in SUBSET P
      PROVE  /\ IsFiniteSet(T) /\ Cardinality(T) \in Nat
             /\ Cardinality(T) <= Cardinality(P)
             /\ T # P => Cardinality(T) < Cardinality(P)
  <2>1. /\ IsFiniteSet(T) /\ Cardinality(T) <= Cardinality(P)
        /\ Cardinality(P) = Cardinality(T) => P = T
    BY <1>2, FS_Subset
  <2>2. Cardinality(T) \in Nat
    BY <2>1, FS_CardinalityType
  <2> QED BY <1>3, <2>1, <2>2
<1> QED BY <1>2, <1>3, <1>4

(* Every number below their number is the rank of one of the positions.  *)
LEMMA RankOnto ==
    ASSUME NEW n \in Nat, NEW P \in SUBSET (1 .. n)
    PROVE  /\ \A p \in P : Rank(P, p) \in 0 .. Cardinality(P) - 1
           /\ \A p, q \in P : Rank(P, p) = Rank(P, q) => p = q
           /\ \A r \in 0 .. Cardinality(P) - 1 : \E p \in P : Rank(P, p) = r
<1> DEFINE c == Cardinality(P)
           Before(p) == {q \in P : q < p}
<1>1. IsFiniteSet(P) /\ c \in Nat
  BY FiniteUpTo
<1>2. ASSUME NEW p \in P, NEW T, T = Before(p)
      PROVE  Cardinality(T) \in 0 .. c - 1
  <2>1. T \in SUBSET P /\ T # P
    BY <1>2
  <2>2. Cardinality(T) \in Nat /\ Cardinality(T) < c
    BY <2>1, FiniteUpTo
  <2> HIDE DEF c
  <2> QED BY <1>1, <2>2
<1>3. ASSUME NEW p \in P, NEW q \in P, p < q
      PROVE  Rank(P, p) < Rank(P, q)
  <2> DEFINE T == Before(q)
             U == Before(p)
  <2>1. T \in SUBSET (1 .. n) /\ U \in SUBSET T /\ p \in T /\ p \notin U
    <3>1. \A x \in P : x \in Int
      OBVIOUS
    <3>2. p \in T /\ p \notin U
      BY <1>3, <3>1
    <3>3. \A x \in P : x < p => x < q
      BY <1>3, <3>1
    <3> QED BY <3>2, <3>3
  <2>2. U # T
    BY <2>1
  <2>3. Rank(P, p) = Cardinality(U) /\ Rank(P, q) = Cardinality(T)
    BY DEF Rank
  <2> HIDE DEF T, U
  <2> QED BY <2>1, <2>2, <2>3, FiniteUpTo
<1>4. \A p \in P : Rank(P, p) \in 0 .. c - 1
  BY <1>2 DEF Rank
<1>5. \A p, q \in P : Rank(P, p) = Rank(P, q) => p = q
  <2> SUFFICES ASSUME NEW p \in P, NEW q \in P, Rank(P, p) = Rank(P, q) PROVE p = q
    OBVIOUS
  <2>1. p \in Nat /\ q \in Nat /\ Rank(P, p) \in Nat
    BY <1>1, <1>4
  <2>2. p < q \/ q < p \/ p = q
    BY <2>1
  <2> QED BY <1>3, <2>1, <2>2
<1> DEFINE f == [p \in P |-> Rank(P, p)]
           R == 0 .. c - 1
<1>6. f \in Surjection(P, R)
  <2>1. IsFiniteSet(R) /\ Cardinality(R) = c
    <3>1. 0 \in Int /\ c - 1 \in Int
      BY <1>1
    <3>2. IsFiniteSet(R) /\ Cardinality(R) = IF 0 > c - 1 THEN 0 ELSE (c - 1) - 0 + 1
      BY <3>1, FS_Interval
    <3> HIDE DEF R, c
    <3> QED BY <1>1, <3>2
  <2>2. f \in [P -> R]
    BY <1>4
  <2>3. \A p, q \in P : f[p] = f[q] => p = q
    BY <1>5
  <2> HIDE DEF f, R
  <2>4. f \in Injection(P, R)
    BY <2>2, <2>3 DEF Injection, IsInjective
  <2> QED BY <2>1, <2>4, FS_Injection
<1>7. \A r \in R : \E p \in P : f[p] = r
  <2> HIDE DEF f, R
  <2> QED BY <1>6 DEF Surjection
<1> QED BY <1>4, <1>5, <1>7

\* What ElementsAt(items, P) is, said without a choice.
IsElementsAt(z, items, P) ==
    /\ Len(z) = Cardinality(P)
    /\ \A p \in P : z[Rank(P, p) + 1] = items[p]

LEMMA ElementsAtIs ==
    ASSUME NEW S, NEW items \in Seq(S), NEW P \in SUBSET (1 .. Len(items))
    PROVE  /\ ElementsAt(items, P) \in Seq(S)
           /\ IsElementsAt(ElementsAt(items, P), items, P)
           /\ \A z \in Seq(S) : IsElementsAt(z, items, P) => z = ElementsAt(items, P)
<1> DEFINE c == Cardinality(P)
           Nth(i) == CHOOSE p \in P : Rank(P, p) = i - 1
           y == [i \in 1 .. c |-> items[Nth(i)]]
<1>1. y = ElementsAt(items, P)
  BY DEF ElementsAt, Rank
<1>2. Len(items) \in Nat /\ c \in Nat
  <2>1. Len(items) \in Nat
    OBVIOUS
  <2> QED BY <2>1, FiniteUpTo
<1>3. /\ \A p \in P : Rank(P, p) \in 0 .. c - 1
      /\ \A p, q \in P : Rank(P, p) = Rank(P, q) => p = q
      /\ \A r \in 0 .. c - 1 : \E p \in P : Rank(P, p) = r
  BY <1>2, RankOnto
<1>4. ASSUME NEW i \in 1 .. c
      PROVE  Nth(i) \in P /\ Rank(P, Nth(i)) = i - 1
  <2>1. i - 1 \in 0 .. c - 1
    BY <1>2
  <2>2. \E p \in P : Rank(P, p) = i - 1
    BY <1>3, <2>1
  <2> QED BY <2>2
<1> HIDE DEF Nth
<1>5. y \in Seq(S) /\ Len(y) = c
  <2>1. \A i \in 1 .. c : items[Nth(i)] \in S
    BY <1>4, ElementOfSeq
  <2> HIDE DEF c
  <2> QED BY <1>2, <2>1
<1>6. \A p \in P : y[Rank(P, p) + 1] = items[p]
  <2> TAKE p \in P
  <2>1. Rank(P, p) + 1 \in 1 .. c /\ (Rank(P, p) + 1) - 1 = Rank(P, p)
    BY <1>2, <1>3
  <2>2. Nth(Rank(P, p) + 1) = p
    BY <1>3, <1>4, <2>1
  <2> QED BY <2>1, <2>2
<1> HIDE DEF y
<1>7. ASSUME NEW z \in Seq(S), IsElementsAt(z, items, P)
      PROVE  z = y
  <2>1. Len(z) = c
    BY <1>7 DEF IsElementsAt
  <2>2. \A i \in 1 .. c : z[i] = y[i]
    <3> TAKE i \in 1 .. c
    <3>1. PICK p \in P : Rank(P, p) = i - 1
      BY <1>4
    <3>2. Rank(P, p) + 1 = i
      BY <1>2, <3>1
    <3>3. z[Rank(P, p) + 1] = items[p] /\ y[Rank(P, p) + 1] = items[p]
      BY <1>6, <1>7 DEF IsElementsAt
    <3> QED BY <3>2, <3>3
  <2> QED BY <1>5, <2>1, <2>2, SeqEqual
<1> QED BY <1>1, <1>5, <1>6, <1>7 DEF IsElementsAt

(* One position more, behind all others, is one element more at the end.  *)
LEMMA ElementsAtAppend ==
    ASSUME NEW S, NEW items \in Seq(S), NEW m \in 1 .. Len(items), NEW P \in SUBSET (1 .. m - 1)
    PROVE  ElementsAt(items, P \cup {m}) = Append(ElementsAt(items, P), items[m])
<1> DEFINE Q == P \cup {m}
           y == ElementsAt(items, P)
           z == Append(y, items[m])
           c == Cardinality(P)
<1>1. /\ Len(items) \in Nat /\ m \in Nat /\ P \in SUBSET (1 .. Len(items))
         /\ Q \in SUBSET (1 .. Len(items))
      /\ items[m] \in S
  BY ElementOfSeq
<1>2. /\ IsFiniteSet(P) /\ c \in Nat /\ Cardinality(Q) = c + 1
  <2>1. m \notin P
    BY <1>1
  <2>2. IsFiniteSet(P) /\ c \in Nat
    BY <1>1, FiniteUpTo
  <2> QED BY <2>1, <2>2, FS_AddElement
<1>3. /\ y \in Seq(S) /\ Len(y) = c
      /\ \A p \in P : y[Rank(P, p) + 1] = items[p]
  BY <1>1, ElementsAtIs DEF IsElementsAt
<1>4. \A p \in P : Rank(P, p) \in 0 .. c - 1
  BY <1>1, RankOnto
<1>5. \A p \in P : Rank(Q, p) = Rank(P, p)
  <2> TAKE p \in P
  <2>1. {q \in Q : q < p} = {q \in P : q < p}
    BY <1>1
  <2> QED BY <2>1 DEF Rank
<1>6. Rank(Q, m) = c
  <2>1. (\A q \in P : q < m) /\ ~ (m < m)
    BY <1>1
  <2>2. {q \in Q : q < m} = P
    BY <2>1
  <2> QED BY <2>2 DEF Rank
<1> HIDE DEF y, c
<1>7. /\ z \in Seq(S) /\ Len(z) = c + 1 /\ z[c + 1] = items[m]
      /\ \A i \in 1 .. c : z[i] = y[i]
  BY <1>1, <1>2, <1>3
<1> HIDE DEF z
<1>8. \A p \in Q : z[Rank(Q, p) + 1] = items[p]
  <2>1. ASSUME NEW p \in P PROVE z[Rank(Q, p) + 1] = items[p]
    <3>1. Rank(P, p) + 1 \in 1 .. c
      BY <1>2, <1>4
    <3> QED BY <1>3, <1>5, <1>7, <3>1
  <2> QED BY <1>6, <1>7, <2>1
<1>9. IsElementsAt(z, items, Q)
  BY <1>2, <1>7, <1>8 DEF IsElementsAt, c
<1> HIDE DEF Q
<1>10. z = ElementsAt(items, Q)
  BY <1>1, <1>7, <1>9, ElementsAtIs
<1> QED BY <1>10 DEF y, z, Q

(* An interval of positions is a part of the list.  *)
LEMMA ElementsOfRange ==
    ASSUME NEW S, NEW items \in Seq(S), NEW a \in 1 .. Len(items), NEW b \in a .. Len(items)
    PROVE  ElementsAt(items, a .. b) = SubSeq(items, a, b)
<1> DEFINE z == SubSeq(items, a, b)
<1>1. Len(items) \in Nat /\ a \in Nat /\ b \in Nat /\ a <= b /\ b <= Len(items) /\ 1 <= a
  OBVIOUS
<1>2. /\ z \in Seq(S) /\ Len(z) = b - a + 1
      /\ \A i \in 1 .. b - a + 1 : z[i] = items[a + i - 1]
  BY <1>1
<1>3. Cardinality(a .. b) = b - a + 1
  BY <1>1, FS_Interval
<1>4. \A p \in a .. b : Rank(a .. b, p) = p - a
  <2> TAKE p \in a .. b
  <2>1. {q \in a .. b : q < p} = a .. p - 1
    BY <1>1
  <2>2. Cardinality(a .. p - 1) = IF a > p - 1 THEN 0 ELSE (p - 1) - a + 1
    <3>1. a \in Int /\ p - 1 \in Int
      BY <1>1
    <3> QED BY <3>1, FS_Interval
  <2>3. (IF a > p - 1 THEN 0 ELSE (p - 1) - a + 1) = p - a
    BY <1>1
  <2> QED BY <2>1, <2>2, <2>3 DEF Rank
<1> HIDE DEF z
<1>5. \A p \in a .. b : z[Rank(a .. b, p) + 1] = items[p]
  <2> TAKE p \in a .. b
  <2>1. (p - a) + 1 \in 1 .. b - a + 1 /\ a + ((p - a) + 1) - 1 = p
    BY <1>1
  <2> QED BY <1>2, <1>4, <2>1
<1>6. (a .. b) \in SUBSET (1 .. Len(items))
  BY <1>1
<1>7. IsElementsAt(z, items, a .. b)
  BY <1>2, <1>3, <1>5 DEF IsElementsAt
<1>8. z = ElementsAt(items, a .. b)
  BY <1>2, <1>6, <1>7, ElementsAtIs
<1> QED BY <1>8 DEF z

LEMMA ElementsOfNone == ASSUME NEW items PROVE ElementsAt(items, {}) = <<>>
<1>1. Cardinality({}) = 0 /\ 1 .. 0 = {}
  BY FS_EmptySet
<1>2. ElementsAt(items, {})
         = [i \in {} |-> items[CHOOSE p \in {} : Cardinality({q \in {} : q < p}) = i - 1]]
  BY <1>1 DEF ElementsAt
<1>3. <<>> = [i \in {} |-> items[CHOOSE p \in {} : Cardinality({q \in {} : q < p}) = i - 1]]
  OBVIOUS
<1> QED BY <1>2, <1>3

-----------------------------------------------------------------------------
(* remove takes the first elements that are x. *)

\* Those among the first m.
Hits(items, x, m) == {j \in 1 .. m : items[j] = x}

FirstHits(items, x, n) ==
    {i \in DOMAIN items : items[i] = x /\ Cardinality(Hits(items, x, i - 1)) < n}

\* What a walk has got.
Walked(kept, removed, count) == [kept |-> kept, removed |-> removed, count |-> count]

LEMMA WalkStep ==
    ASSUME NEW k, NEW r, NEW n, NEW x, NEW e
    PROVE  Walk(Walked(k, r, n), e, x) =
              IF e = x /\ r < n THEN Walked(k, r + 1, n) ELSE Walked(Append(k, e), r, n)
<1> DEFINE w == Walked(k, r, n)
<1>1. w.kept = k /\ w.removed = r /\ w.count = n
  BY DEF Walked
<1>2. [w EXCEPT !.removed = @ + 1] = Walked(k, r + 1, n)
  BY DEF Walked
<1>3. [w EXCEPT !.kept = Append(@, e)] = Walked(Append(k, e), r, n)
  BY DEF Walked
<1> HIDE DEF w
<1>4. Walk(w, e, x) = IF e = x /\ r < n THEN Walked(k, r + 1, n) ELSE Walked(Append(k, e), r, n)
  BY <1>1, <1>2, <1>3 DEF Walk
<1> QED BY <1>4 DEF w

LEMMA HitsStep ==
    ASSUME NEW items, NEW x, NEW m \in Nat \ {0}
    PROVE  /\ Cardinality(Hits(items, x, m)) \in Nat
           /\ Cardinality(Hits(items, x, m - 1)) \in Nat
           /\ Cardinality(Hits(items, x, m)) =
                 Cardinality(Hits(items, x, m - 1)) + (IF items[m] = x THEN 1 ELSE 0)
<1> DEFINE H == Hits(items, x, m - 1)
           I == Hits(items, x, m)
<1>1. m \in Nat /\ m - 1 \in Nat /\ H \in SUBSET (1 .. m - 1) /\ I \in SUBSET (1 .. m) /\ m \notin H
  BY DEF Hits
<1>2. I = IF items[m] = x THEN H \cup {m} ELSE H
  <2>1. (1 .. m) = (1 .. m - 1) \cup {m}
    BY <1>1
  <2> QED BY <2>1 DEF Hits
<1> HIDE DEF H, I
<1>3. IsFiniteSet(H) /\ Cardinality(H) \in Nat /\ Cardinality(I) \in Nat
  BY <1>1, FiniteUpTo
<1>4. Cardinality(H \cup {m}) = Cardinality(H) + 1
  BY <1>1, <1>3, FS_AddElement
<1>5. CASE items[m] = x
  BY <1>2, <1>3, <1>4, <1>5 DEF H, I
<1>6. CASE items[m] # x
  BY <1>2, <1>3, <1>6 DEF H, I
<1> QED BY <1>5, <1>6

LEMMA EraseFirst ==
    ASSUME NEW S, NEW items \in Seq(S), NEW x, NEW n \in Nat
    PROVE  Erase(items, x, n) = ElementsAt(items, DOMAIN items \ FirstHits(items, x, n))
<1> DEFINE F == FirstHits(items, x, n)
           L == Len(items)
           h(m) == Cardinality(Hits(items, x, m))
           took(m) == IF h(m) < n THEN h(m) ELSE n
           kept(m) == ElementsAt(items, (1 .. m) \ F)
           base == Walked(<<>>, 0, n)
<1>1. L \in Nat /\ DOMAIN items = 1 .. L
  OBVIOUS
<1>2. Erase(items, x, n) = Fold(x, base, items).kept
  BY DEF Erase, Fold, Walked
<1>3. PICK run : IsRun(x, base, items, run) /\ Fold(x, base, items) = run[L]
  BY FoldRuns
<1>4. run[0] = base /\ \A m \in 1 .. L : run[m] = Walk(run[m - 1], items[m], x)
  BY <1>3 DEF IsRun
<1>5. h(0) = 0
  <2>1. Hits(items, x, 0) = {}
    BY DEF Hits
  <2> QED BY <2>1, FS_EmptySet
<1>6. kept(0) = <<>>
  <2>1. (1 .. 0) \ F = {}
    OBVIOUS
  <2> QED BY <2>1, ElementsOfNone
<1>7. ASSUME NEW m \in 1 .. L
      PROVE  /\ m \in F <=> items[m] = x /\ h(m - 1) < n
             /\ m \in F => kept(m) = kept(m - 1)
             /\ m \notin F => kept(m) = Append(kept(m - 1), items[m])
  <2>1. m \in F <=> items[m] = x /\ h(m - 1) < n
    BY <1>1 DEF FirstHits
  <2>2. (1 .. m) = (1 .. m - 1) \cup {m}
    BY <1>1
  <2>3. m \in F => (1 .. m) \ F = (1 .. m - 1) \ F
    BY <2>2
  <2>4. m \notin F => (1 .. m) \ F = ((1 .. m - 1) \ F) \cup {m}
    BY <2>2
  <2>5. ElementsAt(items, ((1 .. m - 1) \ F) \cup {m}) = Append(kept(m - 1), items[m])
    <3> DEFINE P == (1 .. m - 1) \ F
    <3>1. P \in SUBSET (1 .. m - 1)
      OBVIOUS
    <3> HIDE DEF P
    <3>2. ElementsAt(items, P \cup {m}) = Append(ElementsAt(items, P), items[m])
      BY <3>1, ElementsAtAppend
    <3> QED BY <3>2 DEF P
  <2>6. m \in F => kept(m) = kept(m - 1)
    BY <2>3
  <2>7. m \notin F => kept(m) = Append(kept(m - 1), items[m])
    BY <2>4, <2>5
  <2> HIDE DEF F, kept, h
  <2> QED BY <2>1, <2>6, <2>7
<1>8. ASSUME NEW m \in 1 .. L
      PROVE  /\ h(m) \in Nat /\ h(m - 1) \in Nat
             /\ h(m) = h(m - 1) + (IF items[m] = x THEN 1 ELSE 0)
  <2>1. m \in Nat \ {0}
    BY <1>1
  <2> QED BY <2>1, HitsStep
<1> HIDE DEF F, h, kept, base
<1> DEFINE Good(m) == run[m] = Walked(kept(m), took(m), n)
<1>9. Good(0)
  <2>1. took(0) = 0
    BY <1>5
  <2> QED BY <1>4, <1>6, <2>1 DEF base
<1>10. ASSUME NEW m \in 1 .. L, Good(m - 1)
       PROVE  Good(m)
  <2>1. run[m] = Walk(Walked(kept(m - 1), took(m - 1), n), items[m], x)
    BY <1>4, <1>10
  <2>2. Walk(Walked(kept(m - 1), took(m - 1), n), items[m], x) =
           IF items[m] = x /\ took(m - 1) < n THEN Walked(kept(m - 1), took(m - 1) + 1, n)
           ELSE Walked(Append(kept(m - 1), items[m]), took(m - 1), n)
    BY WalkStep
  <2>3. h(m) \in Nat /\ h(m - 1) \in Nat /\ h(m) = h(m - 1) + (IF items[m] = x THEN 1 ELSE 0)
    BY <1>8
  <2>4. /\ (took(m - 1) < n) <=> (h(m - 1) < n)
        /\ items[m] = x /\ h(m - 1) < n => took(m) = took(m - 1) + 1
        /\ ~ (items[m] = x /\ h(m - 1) < n) => took(m) = took(m - 1)
    BY <2>3
  <2> HIDE DEF took
  <2>5. CASE m \in F
    <3>1. items[m] = x /\ took(m - 1) < n /\ took(m) = took(m - 1) + 1 /\ kept(m) = kept(m - 1)
      BY <1>7, <2>4, <2>5
    <3>2. run[m] = Walked(kept(m - 1), took(m - 1) + 1, n)
      BY <2>1, <2>2, <3>1
    <3> QED BY <3>1, <3>2
  <2>6. CASE m \notin F
    <3>1. /\ ~ (items[m] = x /\ took(m - 1) < n)
          /\ took(m) = took(m - 1) /\ kept(m) = Append(kept(m - 1), items[m])
      BY <1>7, <2>4, <2>6
    <3>2. run[m] = Walked(Append(kept(m - 1), items[m]), took(m - 1), n)
      BY <2>1, <2>2, <3>1
    <3> QED BY <3>1, <3>2
  <2> QED BY <2>5, <2>6
<1>11. Good(L)
  <2> DEFINE T == {m \in 0 .. L : Good(m)}
  <2> HIDE DEF Good
  <2>1. 0 \in T
    BY <1>1, <1>9
  <2>2. \A m \in 1 .. L : m - 1 \in T => m \in T
    BY <1>1, <1>10
  <2> HIDE DEF T
  <2>3. 0 .. L \subseteq T
    BY <1>1, <2>1, <2>2, UpTo
  <2>4. L \in T
    BY <1>1, <2>3
  <2> QED BY <2>4 DEF T
<1>12. Walked(kept(L), took(L), n).kept = kept(L)
  BY DEF Walked
<1> QED BY <1>1, <1>2, <1>3, <1>11, <1>12 DEF kept, F

-----------------------------------------------------------------------------
(* From the other end. *)

Mirror(T, n) == {n + 1 - p : p \in T}

LEMMA MirrorCount ==
    ASSUME NEW n \in Nat, NEW T \in SUBSET (1 .. n)
    PROVE  /\ Mirror(T, n) \in SUBSET (1 .. n)
           /\ Cardinality(Mirror(T, n)) = Cardinality(T)
<1> DEFINE U == Mirror(T, n)
           f == [p \in T |-> n + 1 - p]
<1>1. \A p \in T : p \in Int /\ n + 1 - p \in 1 .. n
  OBVIOUS
<1>2. U \in SUBSET (1 .. n)
  BY <1>1 DEF Mirror
<1>3. f \in [T -> U]
  BY DEF Mirror
<1>4. \A p, q \in T : f[p] = f[q] => p = q
  BY <1>1
<1>5. \A u \in U : \E p \in T : f[p] = u
  BY DEF Mirror
<1> HIDE DEF f, U
<1>6. f \in Bijection(T, U)
  BY <1>3, <1>4, <1>5 DEF Bijection, Injection, Surjection, IsInjective
<1>7. IsFiniteSet(T) /\ ExistsBijection(T, U)
  BY <1>6, FiniteUpTo DEF ExistsBijection
<1>8. Cardinality(U) = Cardinality(T)
  BY <1>7, FS_Bijection
<1> QED BY <1>2, <1>8 DEF U

(* So many are behind a position as are not in front of it.  *)
LEMMA RankFromEnd ==
    ASSUME NEW n \in Nat, NEW P \in SUBSET (1 .. n), NEW p \in P
    PROVE  Cardinality({q \in P : q > p}) = Cardinality(P) - 1 - Rank(P, p)
<1> DEFINE A == {q \in P : q < p}
           B == {q \in P : q > p}
           C == P \ {p}
<1>1. \A q \in P : q \in Int
  OBVIOUS
<1>2. A \in SUBSET P /\ B \in SUBSET P /\ A \cap B = {} /\ A \cup B = C
  <2>1. \A q \in P : (q < p \/ q > p) <=> q # p
    BY <1>1
  <2>2. \A q \in P : ~ (q < p /\ q > p)
    BY <1>1
  <2> QED BY <2>1, <2>2
<1>3. Rank(P, p) = Cardinality(A)
  BY DEF Rank
<1> HIDE DEF A, B, C
<1>4. /\ IsFiniteSet(A) /\ IsFiniteSet(B) /\ IsFiniteSet(P)
      /\ Cardinality(A) \in Nat /\ Cardinality(B) \in Nat /\ Cardinality(P) \in Nat
  BY <1>2, FiniteUpTo
<1>5. Cardinality(C) = Cardinality(P) - 1
  BY <1>4, FS_RemoveElement DEF C
<1>6. Cardinality(A \cup B) = Cardinality(A) + Cardinality(B) - Cardinality(A \cap B)
  BY <1>4, FS_Union
<1>7. Cardinality(A \cap B) = 0
  BY <1>2, FS_EmptySet
<1>8. Cardinality(B) = Cardinality(P) - 1 - Cardinality(A)
  <2>1. Cardinality(C) = Cardinality(A) + Cardinality(B) - 0
    BY <1>2, <1>6, <1>7
  <2> QED BY <1>4, <1>5, <2>1
<1> QED BY <1>3, <1>8 DEF B

LEMMA Reversed ==
    ASSUME NEW S, NEW s \in Seq(S)
    PROVE  /\ Reverse(s) \in Seq(S) /\ Len(Reverse(s)) = Len(s)
           /\ \A i \in 1 .. Len(s) : Reverse(s)[i] = s[Len(s) + 1 - i]
<1>1. Len(s) \in Nat
  OBVIOUS
<1>2. \A i \in 1 .. Len(s) : (Len(s) - i) + 1 \in 1 .. Len(s) /\ (Len(s) - i) + 1 = Len(s) + 1 - i
  BY <1>1
<1> DEFINE n == Len(s)
           r == [i \in 1 .. n |-> s[(n - i) + 1]]
<1>3. \A i \in 1 .. n : s[(n - i) + 1] \in S
  BY <1>2, ElementOfSeq
<1>4. r = Reverse(s)
  BY DEF Reverse
<1>5. \A i \in 1 .. n : r[i] = s[n + 1 - i]
  BY <1>2
<1> HIDE DEF n
<1>6. r \in Seq(S) /\ Len(r) = n
  <2>1. n \in Nat
    BY <1>1 DEF n
  <2> QED BY <2>1, <1>3
<1> HIDE DEF r
<1> QED BY <1>4, <1>5, <1>6 DEF n

LEMMA ReversedElements ==
    ASSUME NEW S, NEW items \in Seq(S), NEW P \in SUBSET (1 .. Len(items))
    PROVE  Reverse(ElementsAt(Reverse(items), Mirror(P, Len(items)))) = ElementsAt(items, P)
<1> DEFINE n == Len(items)
           Q == Mirror(P, n)
           c == Cardinality(P)
           back == Reverse(items)
           y == ElementsAt(back, Q)
           z == Reverse(y)
<1>1. n \in Nat /\ \A p \in P : p \in 1 .. n /\ n + 1 - p \in 1 .. n /\ p \in Int
  OBVIOUS
<1>2. /\ back \in Seq(S) /\ Len(back) = n
      /\ \A i \in 1 .. n : back[i] = items[n + 1 - i]
  BY Reversed
<1> HIDE DEF n, back
<1>3. P \in SUBSET (1 .. n)
  BY DEF n
<1>4. Q \in SUBSET (1 .. n) /\ Cardinality(Q) = c /\ c \in Nat
  BY <1>1, <1>3, MirrorCount, FiniteUpTo
<1>5. \A p \in P : n + 1 - p \in Q
  BY DEF Mirror
<1>6. ASSUME NEW p \in P
      PROVE  Rank(Q, n + 1 - p) = c - 1 - Rank(P, p)
  <2> DEFINE B == {q \in P : q > p}
             F == {q \in Q : q < n + 1 - p}
  <2>1. F = Mirror(B, n)
    <3>1. \A q \in P : n + 1 - q < n + 1 - p <=> q > p
      BY <1>1
    <3>2. Mirror(B, n) \subseteq F
      BY <3>1 DEF Mirror
    <3>3. F \subseteq Mirror(B, n)
      BY <3>1 DEF Mirror
    <3> QED BY <3>2, <3>3
  <2>2. B \in SUBSET (1 .. n)
    BY <1>3
  <2>3. Cardinality(B) = c - 1 - Rank(P, p)
    BY <1>1, <1>3, RankFromEnd
  <2>4. Rank(Q, n + 1 - p) = Cardinality(F)
    BY DEF Rank
  <2> HIDE DEF B, F
  <2> QED BY <1>1, <2>1, <2>2, <2>3, <2>4, MirrorCount
<1> HIDE DEF Q, c
<1>7. /\ y \in Seq(S) /\ Len(y) = c
      /\ \A q \in Q : y[Rank(Q, q) + 1] = back[q]
  BY <1>2, <1>4, ElementsAtIs DEF IsElementsAt
<1> HIDE DEF y
<1>8. /\ z \in Seq(S) /\ Len(z) = c
      /\ \A i \in 1 .. c : z[i] = y[c + 1 - i]
  BY <1>7, Reversed
<1> HIDE DEF z
<1>9. \A p \in P : z[Rank(P, p) + 1] = items[p]
  <2> TAKE p \in P
  <2>1. Rank(P, p) \in 0 .. c - 1
    BY <1>1, <1>3, RankOnto DEF c
  <2>2. Rank(P, p) + 1 \in 1 .. c /\ c + 1 - (Rank(P, p) + 1) = (c - 1 - Rank(P, p)) + 1
    BY <1>4, <2>1
  <2>3. z[Rank(P, p) + 1] = y[Rank(Q, n + 1 - p) + 1]
    BY <1>6, <1>8, <2>2
  <2>4. y[Rank(Q, n + 1 - p) + 1] = back[n + 1 - p]
    BY <1>5, <1>7
  <2>5. back[n + 1 - p] = items[p]
    <3>1. n + 1 - p \in 1 .. n /\ n + 1 - (n + 1 - p) = p
      BY <1>1
    <3> QED BY <1>2, <3>1
  <2> QED BY <2>3, <2>4, <2>5
<1>10. IsElementsAt(z, items, P)
  BY <1>8, <1>9 DEF IsElementsAt, c
<1>11. z = ElementsAt(items, P)
  BY <1>8, <1>10, ElementsAtIs
<1> QED BY <1>11 DEF z, y, Q, back, n

\* The last elements that are x.
LastHits(items, x, n) ==
    {i \in DOMAIN items :
        items[i] = x /\ Cardinality({j \in DOMAIN items : items[j] = x /\ j > i}) < n}

LEMMA EraseLast ==
    ASSUME NEW S, NEW items \in Seq(S), NEW x, NEW n \in Nat
    PROVE  Reverse(Erase(Reverse(items), x, n)) =
              ElementsAt(items, DOMAIN items \ LastHits(items, x, n))
<1> DEFINE L == Len(items)
           back == Reverse(items)
           P == DOMAIN items \ LastHits(items, x, n)
           Q == DOMAIN back \ FirstHits(back, x, n)
<1>1. L \in Nat /\ DOMAIN items = 1 .. L
  OBVIOUS
<1>2. /\ back \in Seq(S) /\ Len(back) = L
      /\ \A i \in 1 .. L : back[i] = items[L + 1 - i]
  BY Reversed
<1> HIDE DEF back
<1>3. DOMAIN back = 1 .. L
  BY <1>2
<1>4. Erase(back, x, n) = ElementsAt(back, Q)
  BY <1>2, EraseFirst
<1>5. ASSUME NEW i \in 1 .. L
      PROVE  L + 1 - i \in FirstHits(back, x, n) <=> i \in LastHits(items, x, n)
  <2> DEFINE A == {j \in DOMAIN items : items[j] = x /\ j > i}
             B == Hits(back, x, (L + 1 - i) - 1)
             k == L + 1 - i
  <2>1. /\ i \in Nat /\ k \in 1 .. L /\ k - 1 = L - i
        /\ \A j \in 1 .. L : /\ L + 1 - j \in 1 .. L /\ L + 1 - (L + 1 - j) = j
                             /\ L + 1 - j \in 1 .. k - 1 <=> j > i
    BY <1>1
  <2>2. B = Mirror(A, L)
    <3>1. B \subseteq Mirror(A, L)
      <4> SUFFICES ASSUME NEW b \in B PROVE b \in Mirror(A, L)
        OBVIOUS
      <4>1. b \in 1 .. k - 1 /\ b \in 1 .. L /\ back[b] = x
        BY <1>1, <2>1 DEF Hits
      <4>2. L + 1 - b \in 1 .. L /\ L + 1 - (L + 1 - b) = b /\ items[L + 1 - b] = x /\ L + 1 - b > i
        BY <1>1, <1>2, <2>1, <4>1
      <4>3. L + 1 - b \in A
        BY <1>1, <4>2
      <4> HIDE DEF A
      <4> QED BY <4>2, <4>3 DEF Mirror
    <3>2. Mirror(A, L) \subseteq B
      <4> SUFFICES ASSUME NEW a \in A PROVE L + 1 - a \in B
        BY DEF Mirror
      <4>1. a \in 1 .. L /\ items[a] = x /\ a > i
        BY <1>1
      <4>2. L + 1 - a \in 1 .. k - 1 /\ L + 1 - a \in 1 .. L
               /\ back[L + 1 - a] = items[L + 1 - (L + 1 - a)]
        BY <1>2, <2>1, <4>1
      <4>3. back[L + 1 - a] = x
        BY <2>1, <4>1, <4>2
      <4> QED BY <4>2, <4>3 DEF Hits
    <3> QED BY <3>1, <3>2
  <2>3. A \in SUBSET (1 .. L)
    BY <1>1
  <2>4. back[k] = items[i]
    BY <1>2, <2>1
  <2>5. i \in LastHits(items, x, n) <=> items[i] = x /\ Cardinality(A) < n
    BY <1>1 DEF LastHits
  <2>6. k \in FirstHits(back, x, n) <=> back[k] = x /\ Cardinality(B) < n
    BY <1>3, <2>1 DEF FirstHits
  <2> HIDE DEF A, B
  <2>7. Cardinality(A) = Cardinality(B)
    BY <1>1, <2>2, <2>3, MirrorCount
  <2> QED BY <2>4, <2>5, <2>6, <2>7
<1>6. Q = Mirror(P, L)
  <2>1. \A i \in 1 .. L : L + 1 - i \in 1 .. L /\ L + 1 - (L + 1 - i) = i
    BY <1>1
  <2>2. P = {i \in 1 .. L : i \notin LastHits(items, x, n)}
    BY <1>1
  <2>3. Q = {i \in 1 .. L : i \notin FirstHits(back, x, n)}
    BY <1>3
  <2> HIDE DEF P, Q
  <2>4. \A i \in 1 .. L : i \in P <=> L + 1 - i \in Q
    BY <1>5, <2>1, <2>2, <2>3
  <2>5. P \subseteq 1 .. L /\ Q \subseteq 1 .. L
    BY <2>2, <2>3
  <2>6. Mirror(P, L) \subseteq Q
    BY <2>4, <2>5 DEF Mirror
  <2>7. Q \subseteq Mirror(P, L)
    <3> SUFFICES ASSUME NEW q \in Q PROVE q \in Mirror(P, L)
      OBVIOUS
    <3>1. L + 1 - q \in P /\ q = L + 1 - (L + 1 - q)
      BY <2>1, <2>4, <2>5
    <3> QED BY <3>1 DEF Mirror
  <2> QED BY <2>6, <2>7
<1>7. P \in SUBSET (1 .. L)
  BY <1>1
<1> HIDE DEF P, Q
<1>8. Reverse(ElementsAt(back, Mirror(P, L))) = ElementsAt(items, P)
  BY <1>7, ReversedElements DEF back
<1> QED BY <1>4, <1>6, <1>8 DEF back, P

-----------------------------------------------------------------------------
(* What the operations do to a list. *)

IsListRecord(o) == o = [encoding |-> o.encoding, items |-> o.items] /\ o.items \in Seq(Item)

WithItems(o, s) == [o EXCEPT !.items = s]

LEMMA WithItemsIs ==
    ASSUME NEW o, IsListRecord(o), NEW s
    PROVE  WithItems(o, s).items = s /\ WithItems(o, s).encoding = o.encoding
BY DEF IsListRecord, WithItems

LEMMA RemoveTakes ==
    ASSUME NEW o, IsListRecord(o), NEW n \in Int, NEW x
    PROVE  list_remove(o, n, x) =
              WithItems(o, ElementsAt(o.items, DOMAIN o.items \ Removed(o.items, n, x)))
<1> DEFINE items == o.items
           L == Len(items)
           is == {i \in DOMAIN items : items[i] = x}
<1>1. items \in Seq(Item) /\ L \in Nat /\ DOMAIN items = 1 .. L
  BY DEF IsListRecord
<1> HIDE DEF items
<1>2. CASE n > 0
  <2>1. \A i \in 1 .. L : Hits(items, x, i - 1) = {j \in is : j < i}
    BY <1>1 DEF Hits
  <2>2. Removed(items, n, x) = FirstHits(items, x, n)
    <3>1. \A i \in DOMAIN items : Hits(items, x, i - 1) = {j \in is : j < i}
      BY <1>1, <2>1
    <3>2. Removed(items, n, x) = {i \in is : Cardinality({j \in is : j < i}) < n}
      BY <1>2 DEF Removed
    <3> QED BY <3>1, <3>2 DEF FirstHits
  <2>3. n \in Nat
    BY <1>2
  <2>4. Erase(items, x, n) = ElementsAt(items, DOMAIN items \ FirstHits(items, x, n))
    BY <1>1, <2>3, EraseFirst
  <2>5. list_remove(o, n, x) = WithItems(o, Erase(items, x, n))
    BY <1>2 DEF list_remove, WithItems, items
  <2> QED BY <2>2, <2>4, <2>5 DEF items
<1>3. CASE n < 0
  <2>1. Removed(items, n, x) = LastHits(items, x, -n)
    <3>1. Removed(items, n, x) = {i \in is : Cardinality({j \in is : j > i}) < -n}
      BY <1>3 DEF Removed
    <3>2. \A i \in DOMAIN items : {j \in DOMAIN items : items[j] = x /\ j > i} = {j \in is : j > i}
      OBVIOUS
    <3> QED BY <3>1, <3>2 DEF LastHits
  <2>2. -n \in Nat
    BY <1>3
  <2>3. Reverse(Erase(Reverse(items), x, -n)) =
           ElementsAt(items, DOMAIN items \ LastHits(items, x, -n))
    BY <1>1, <2>2, EraseLast
  <2>4. list_remove(o, n, x) = WithItems(o, Reverse(Erase(Reverse(items), x, -n)))
    BY <1>3 DEF list_remove, WithItems, items
  <2> QED BY <2>1, <2>3, <2>4 DEF items
<1>4. CASE n = 0
  <2>1. Removed(items, n, x) = is
    BY <1>4 DEF Removed
  <2>2. FirstHits(items, x, L) = is
    <3>1. ASSUME NEW i \in DOMAIN items PROVE Cardinality(Hits(items, x, i - 1)) < L
      <4>1. i \in Nat /\ i - 1 \in Nat /\ i - 1 < L
        BY <1>1
      <4> DEFINE H == Hits(items, x, i - 1)
      <4>2. H \in SUBSET (1 .. i - 1)
        BY DEF Hits
      <4> HIDE DEF H
      <4>3. Cardinality(H) \in Nat /\ Cardinality(H) <= i - 1
        BY <4>1, <4>2, FiniteUpTo
      <4>4. Cardinality(H) < L
        BY <1>1, <4>1, <4>3
      <4> QED BY <4>4 DEF H
    <3> QED BY <3>1 DEF FirstHits
  <2>3. Erase(items, x, L) = ElementsAt(items, DOMAIN items \ FirstHits(items, x, L))
    BY <1>1, EraseFirst
  <2>4. list_remove(o, n, x) = WithItems(o, Erase(items, x, L))
    BY <1>4 DEF list_remove, WithItems, items
  <2> QED BY <2>1, <2>2, <2>3, <2>4 DEF items
<1> QED BY <1>2, <1>3, <1>4

(* Negative and overlong numbers name the positions they should.  *)
LEMMA RangeIs ==
    ASSUME NEW l \in Int, NEW r \in Int, NEW S, NEW items \in Seq(S), items # <<>>
    PROVE  LET range == normalize_range(l, r, Len(items))
           IN /\ range = NoRange => Between(items, l, r) = {}
              /\ range # NoRange =>
                    /\ Between(items, l, r) = range[1] + 1 .. range[2] + 1
                    /\ range[1] + 1 \in 1 .. Len(items)
                    /\ range[2] + 1 \in range[1] + 1 .. Len(items)
<1> DEFINE sz == Len(items)
           pl == Position(items, l)
           pr == Position(items, r)
           a == IF norm(l, sz) = -1 THEN 0 ELSE norm(l, sz)
           b == IF norm(r, sz) >= sz THEN sz - 1 ELSE norm(r, sz)
           range == normalize_range(l, r, sz)
<1>1. sz \in Nat /\ sz # 0 /\ DOMAIN items = 1 .. sz
  OBVIOUS
<1>2. pl \in Int /\ pr \in Int
  BY <1>1 DEF Position
<1>3. a = IF pl <= 1 THEN 0 ELSE IF pl > sz THEN sz ELSE pl - 1
  BY <1>1 DEF norm, Position
<1>4. b = IF pr < 1 THEN -1 ELSE IF pr > sz THEN sz - 1 ELSE pr - 1
  BY <1>1 DEF norm, Position
<1>5. range = IF a > b \/ a >= sz THEN NoRange ELSE <<a, b>>
  BY DEF normalize_range
<1>6. Between(items, l, r) = {i \in 1 .. sz : pl <= i /\ i <= pr}
  BY <1>1 DEF Between
<1> HIDE DEF sz, pl, pr, a, b
<1>7. a \in Int /\ b \in Int
  BY <1>1, <1>2, <1>3, <1>4
<1>8. CASE a > b \/ a >= sz
  <2>1. range = NoRange
    BY <1>5, <1>8
  <2>2. \A i \in 1 .. sz : ~ (pl <= i /\ i <= pr)
    BY <1>1, <1>2, <1>3, <1>4, <1>8
  <2> QED BY <1>6, <2>1, <2>2 DEF sz
<1>9. CASE ~ (a > b \/ a >= sz)
  <2>1. range = <<a, b>>
    BY <1>5, <1>9
  <2>2. range # NoRange /\ range[1] = a /\ range[2] = b
    BY <2>1 DEF NoRange
  <2> HIDE DEF range
  <2>3. \A i \in 1 .. sz : pl <= i /\ i <= pr <=> a + 1 <= i /\ i <= b + 1
    BY <1>1, <1>2, <1>3, <1>4, <1>9
  <2>4. a + 1 \in 1 .. sz /\ b + 1 \in a + 1 .. sz
    BY <1>1, <1>2, <1>3, <1>4, <1>9
  <2>5. {i \in 1 .. sz : pl <= i /\ i <= pr} = a + 1 .. b + 1
    BY <1>1, <1>7, <2>3, <2>4
  <2> QED BY <1>6, <2>2, <2>4, <2>5 DEF sz, range
<1> QED BY <1>8, <1>9

LEMMA TrimKeeps ==
    ASSUME NEW o, IsListRecord(o), NEW l \in Int, NEW r \in Int
    PROVE  trim(o, l, r) = WithItems(o, ElementsAt(o.items, Between(o.items, l, r)))
<1> DEFINE items == o.items
           range == normalize_range(l, r, Len(items))
<1>1. items \in Seq(Item)
  BY DEF IsListRecord
<1>2. CASE items = <<>>
  <2>1. Between(items, l, r) = {}
    BY <1>2 DEF Between
  <2>2. WithItems(o, <<>>) = o
    BY <1>2 DEF WithItems, IsListRecord
  <2>3. trim(o, l, r) = o
    BY <1>2 DEF trim
  <2> QED BY <2>1, <2>2, <2>3, ElementsOfNone
<1>3. CASE items # <<>>
  <2>1. trim(o, l, r) =
           WithItems(o, IF range = NoRange THEN <<>> ELSE SubSeq(items, range[1] + 1, range[2] + 1))
    BY <1>3 DEF trim, WithItems
  <2> HIDE DEF items
  <2>2. /\ range = NoRange => Between(items, l, r) = {}
        /\ range # NoRange =>
              /\ Between(items, l, r) = range[1] + 1 .. range[2] + 1
              /\ range[1] + 1 \in 1 .. Len(items)
              /\ range[2] + 1 \in range[1] + 1 .. Len(items)
    BY <1>1, <1>3, RangeIs
  <2> HIDE DEF range
  <2>3. CASE range = NoRange
    BY <2>1, <2>2, <2>3, ElementsOfNone DEF items
  <2>4. CASE range # NoRange
    <3> DEFINE a == range[1] + 1
               b == range[2] + 1
    <3>1. a \in 1 .. Len(items) /\ b \in a .. Len(items) /\ Between(items, l, r) = a .. b
      BY <2>2, <2>4
    <3>2. trim(o, l, r) = WithItems(o, SubSeq(items, a, b))
      BY <2>1, <2>4
    <3> HIDE DEF a, b
    <3>3. ElementsAt(items, a .. b) = SubSeq(items, a, b)
      BY <1>1, <3>1, ElementsOfRange
    <3> QED BY <3>1, <3>2, <3>3 DEF items
  <2> QED BY <2>3, <2>4
<1> QED BY <1>2, <1>3

LEMMA GetFinds ==
    ASSUME NEW o, IsListRecord(o), NEW n \in Int
    PROVE  get(o, n) = ElementsAt(o.items, Between(o.items, n, n))
<1> DEFINE items == o.items
           sz == Len(items)
           p == Position(items, n)
           idx == normalize_index(n, sz)
<1>1. items \in Seq(Item) /\ sz \in Nat /\ DOMAIN items = 1 .. sz
  BY DEF IsListRecord
<1>2. get(o, n) = IF idx = -1 THEN <<>> ELSE <<items[idx + 1]>>
  BY DEF get
<1> HIDE DEF items
<1>3. p \in Int /\ idx = IF 1 <= p /\ p <= sz THEN p - 1 ELSE -1
  BY <1>1 DEF Position, normalize_index
<1>4. Between(items, n, n) = {i \in 1 .. sz : p <= i /\ i <= p}
  BY <1>1 DEF Between
<1> HIDE DEF p, idx, sz
<1>5. CASE 1 <= p /\ p <= sz
  <2>1. idx # -1 /\ idx + 1 = p /\ p \in 1 .. sz /\ p \in p .. sz
    BY <1>1, <1>3, <1>5
  <2>2. {i \in 1 .. sz : p <= i /\ i <= p} = p .. p
    BY <1>1, <1>3, <1>5
  <2>3. ElementsAt(items, p .. p) = SubSeq(items, p, p)
    BY <1>1, <2>1, ElementsOfRange DEF sz
  <2>4. SubSeq(items, p, p) = <<items[p]>>
    <3> DEFINE one == SubSeq(items, p, p)
    <3>1. p \in 1 .. Len(items) + 1 /\ p \in 0 .. Len(items) /\ p \in Nat /\ p <= Len(items)
             /\ 1 <= p
      BY <1>1, <2>1 DEF sz
    <3>2. one \in Seq(Item) /\ Len(one) = 1
      BY <1>1, <3>1
    <3>3. one[1] = items[p]
      BY <1>1, <3>1
    <3> HIDE DEF one
    <3>4. one = <<items[p]>>
      BY <3>2, <3>3
    <3> QED BY <3>4 DEF one
  <2> QED BY <1>2, <1>4, <2>1, <2>2, <2>3, <2>4 DEF items
<1>6. CASE ~ (1 <= p /\ p <= sz)
  <2>1. \A i \in 1 .. sz : ~ (p <= i /\ i <= p)
    BY <1>1, <1>3, <1>6
  <2>2. Between(items, n, n) = {}
    BY <1>4, <2>1
  <2> QED BY <1>2, <1>3, <1>6, <2>2, ElementsOfNone DEF items
<1> QED BY <1>5, <1>6

-----------------------------------------------------------------------------
(* The limits of a ziplist. *)

IsList(o) ==
    /\ IsListRecord(o)
    /\ o.encoding \in {"ZIPLIST", "LINKEDLIST"}
    /\ o.encoding = "ZIPLIST" =>
          Len(o.items) <= ZIPLIST_MAX_ENTRIES /\ ToSet(o.items) \cap LargeItem = {}

LEMMA AllIn ==
    ASSUME NEW S, NEW s \in Seq(S), NEW T, \A i \in 1 .. Len(s) : s[i] \in T
    PROVE  ToSet(s) \subseteq T
BY DEF ToSet

LEMMA ElementsAtFewer ==
    ASSUME NEW S, NEW items \in Seq(S), NEW P \in SUBSET (DOMAIN items)
    PROVE  LET z == ElementsAt(items, P)
           IN z \in Seq(S) /\ Len(z) <= Len(items) /\ ToSet(z) \subseteq ToSet(items)
<1> DEFINE z == ElementsAt(items, P)
           c == Cardinality(P)
           n == Len(items)
<1>1. n \in Nat /\ DOMAIN items = 1 .. n /\ P \in SUBSET (1 .. n)
  OBVIOUS
<1>2. c \in Nat /\ c <= n
  BY <1>1, FiniteUpTo
<1>3. \A r \in 0 .. c - 1 : \E p \in P : Rank(P, p) = r
  BY <1>1, RankOnto
<1>4. z \in Seq(S) /\ Len(z) = c /\ \A p \in P : z[Rank(P, p) + 1] = items[p]
  BY <1>1, ElementsAtIs DEF IsElementsAt
<1> HIDE DEF z, c
<1>5. ASSUME NEW i \in 1 .. c PROVE z[i] \in ToSet(items)
  <2>1. i - 1 \in 0 .. c - 1 /\ (i - 1) + 1 = i
    BY <1>2
  <2>2. PICK p \in P : Rank(P, p) = i - 1
    BY <1>3, <2>1
  <2>3. z[i] = items[p]
    BY <1>4, <2>1, <2>2
  <2> QED BY <1>1, <2>3 DEF ToSet
<1>6. ToSet(z) \subseteq ToSet(items)
  <2>1. ToSet(z) = {z[i] : i \in 1 .. c}
    BY <1>4 DEF ToSet
  <2> QED BY <1>5, <2>1
<1> QED BY <1>2, <1>4, <1>6 DEF z

LEMMA Fewer ==
    ASSUME NEW o, IsList(o), NEW s \in Seq(Item),
           Len(s) <= Len(o.items), ToSet(s) \subseteq ToSet(o.items)
    PROVE  IsList(WithItems(o, s))
<1> DEFINE w == WithItems(o, s)
<1>1. w.items = s /\ w.encoding = o.encoding /\ w = [encoding |-> w.encoding, items |-> w.items]
  <2>1. o = [encoding |-> o.encoding, items |-> o.items]
    BY DEF IsList, IsListRecord
  <2>2. w = [encoding |-> o.encoding, items |-> s]
    BY <2>1 DEF WithItems
  <2> HIDE DEF w
  <2> QED BY <2>2
<1>2. Len(s) \in Nat /\ Len(o.items) \in Nat
  BY DEF IsList, IsListRecord
<1> HIDE DEF w
<1>3. IsListRecord(w)
  BY <1>1 DEF IsListRecord
<1>4. w.encoding \in {"ZIPLIST", "LINKEDLIST"}
  BY <1>1 DEF IsList
<1>5. ASSUME w.encoding = "ZIPLIST"
      PROVE  Len(w.items) <= ZIPLIST_MAX_ENTRIES /\ ToSet(w.items) \cap LargeItem = {}
  <2>1. Len(o.items) <= ZIPLIST_MAX_ENTRIES /\ ToSet(o.items) \cap LargeItem = {}
    BY <1>1, <1>5 DEF IsList
  <2>2. Len(s) <= ZIPLIST_MAX_ENTRIES
    BY <1>2, <2>1, ListObjectAssumption
  <2>3. ToSet(s) \cap LargeItem = {}
    BY <2>1
  <2> QED BY <1>1, <2>2, <2>3
<1> QED BY <1>3, <1>4, <1>5 DEF IsList, w

\* One element more, somewhere.
OneMore(s, items, x) ==
    s \in Seq(Item) /\ Len(s) = Len(items) + 1 /\ ToSet(s) \subseteq ToSet(items) \cup {x}

\* An encoding that is allowed for it.
Fits(o, x, encoding) ==
    /\ encoding \in {"ZIPLIST", "LINKEDLIST"}
    /\ encoding = "ZIPLIST" => /\ o.encoding = "ZIPLIST" /\ x \notin LargeItem
                               /\ Len(o.items) + 1 <= ZIPLIST_MAX_ENTRIES

LEMMA OneMoreFits ==
    ASSUME NEW o, IsList(o), NEW x, NEW s, OneMore(s, o.items, x), NEW encoding, Fits(o, x, encoding)
    PROVE  IsList([encoding |-> encoding, items |-> s])
<1> DEFINE w == [encoding |-> encoding, items |-> s]
<1>1. w.encoding = encoding /\ w.items = s /\ w = [encoding |-> w.encoding, items |-> w.items]
  OBVIOUS
<1> HIDE DEF w
<1>2. IsListRecord(w)
  BY <1>1 DEF IsListRecord, OneMore
<1>3. ASSUME encoding = "ZIPLIST"
      PROVE  Len(s) <= ZIPLIST_MAX_ENTRIES /\ ToSet(s) \cap LargeItem = {}
  <2>1. o.encoding = "ZIPLIST" /\ x \notin LargeItem /\ Len(o.items) + 1 <= ZIPLIST_MAX_ENTRIES
    BY <1>3 DEF Fits
  <2>2. ToSet(o.items) \cap LargeItem = {}
    BY <2>1 DEF IsList
  <2> QED BY <2>1, <2>2 DEF OneMore
<1> QED BY <1>1, <1>2, <1>3 DEF IsList, Fits, w

LEMMA InsertIsOneMore ==
    ASSUME NEW items \in Seq(Item), NEW i \in 1 .. Len(items) + 1, NEW x \in Item
    PROVE  OneMore(InsertAt(items, i, x), items, x)
<1> DEFINE n == Len(items)
           s == InsertAt(items, i, x)
<1>1. n \in Nat /\ DOMAIN items = 1 .. n /\ i \in Nat
  OBVIOUS
<1>2. /\ s \in Seq(Item) /\ Len(s) = n + 1
      /\ \A j \in 1 .. i - 1 : s[j] = items[j]
      /\ s[i] = x
      /\ \A j \in i + 1 .. n + 1 : s[j] = items[j - 1]
  <2>1. s \in Seq(Item) /\ Len(s) = n + 1
    BY Inserted
  <2>2. \A j \in 1 .. i - 1 : s[j] = items[j]
    BY Inserted
  <2>3. s[i] = x
    BY Inserted
  <2>4. \A j \in i + 1 .. n + 1 : s[j] = items[j - 1]
    BY Inserted
  <2> QED BY <2>1, <2>2, <2>3, <2>4
<1> HIDE DEF s
<1>3. ASSUME NEW j \in 1 .. n + 1 PROVE s[j] \in ToSet(items) \cup {x}
  <2>1. CASE j = i
    BY <1>2, <2>1
  <2>2. CASE j < i
    <3>1. j \in 1 .. i - 1 /\ j \in 1 .. n
      BY <1>1, <2>2
    <3> QED BY <1>1, <1>2, <3>1 DEF ToSet
  <2>3. CASE j > i
    <3>1. j \in i + 1 .. n + 1 /\ j - 1 \in 1 .. n
      BY <1>1, <2>3
    <3> QED BY <1>1, <1>2, <3>1 DEF ToSet
  <2> QED BY <1>1, <2>1, <2>2, <2>3
<1>4. ToSet(s) \subseteq ToSet(items) \cup {x}
  BY <1>2, <1>3, AllIn
<1> QED BY <1>2, <1>4 DEF OneMore, s

LEMMA EndsAreOneMore ==
    ASSUME NEW items \in Seq(Item), NEW x \in Item
    PROVE  OneMore(<<x>> \o items, items, x) /\ OneMore(Append(items, x), items, x)
<1>1. Len(items) \in Nat
  OBVIOUS
<1>2. <<x>> \o items = InsertAt(items, 1, x)
  <2>1. SubSeq(items, 1, 0) = <<>> /\ SubSeq(items, 1, Len(items)) = items
    OBVIOUS
  <2>2. InsertAt(items, 1, x) = (SubSeq(items, 1, 1 - 1) \o <<x>>) \o SubSeq(items, 1, Len(items))
    BY DEF InsertAt
  <2>3. <<x>> \in Seq(Item) /\ 1 - 1 = 0
    OBVIOUS
  <2>4. <<>> \o <<x>> = <<x>>
    BY <2>3, ConcatEmptySeq
  <2> QED BY <2>1, <2>2, <2>3, <2>4
<1>3. Append(items, x) = InsertAt(items, Len(items) + 1, x)
  <2> DEFINE n == Len(items)
             s == InsertAt(items, n + 1, x)
             t == Append(items, x)
  <2>1. n + 1 \in 1 .. n + 1 /\ (n + 1) - 1 = n
    BY <1>1
  <2>2. /\ s \in Seq(Item) /\ Len(s) = n + 1 /\ s[n + 1] = x
        /\ \A j \in 1 .. n : s[j] = items[j]
    <3> DEFINE i == n + 1
               u == InsertAt(items, i, x)
    <3>1. i \in 1 .. Len(items) + 1
      BY <2>1
    <3> HIDE DEF i
    <3>2. /\ u \in Seq(Item) /\ Len(u) = Len(items) + 1 /\ u[i] = x
          /\ \A j \in 1 .. i - 1 : u[j] = items[j]
      BY <3>1, Inserted
    <3> HIDE DEF s, u
    <3>3. u = s
      BY DEF u, s, i
    <3> QED BY <2>1, <3>2, <3>3 DEF i
  <2>3. /\ t \in Seq(Item) /\ Len(t) = n + 1 /\ t[n + 1] = x
        /\ \A j \in 1 .. n : t[j] = items[j]
    OBVIOUS
  <2> HIDE DEF s, t
  <2>4. \A j \in 1 .. n + 1 : s[j] = t[j]
    <3>1. \A j \in 1 .. n + 1 : j \in 1 .. n \/ j = n + 1
      BY <1>1
    <3> QED BY <2>2, <2>3, <3>1
  <2>5. s = t
    BY <2>2, <2>3, <2>4, SeqEqual
  <2> QED BY <2>5 DEF s, t
<1>4. OneMore(InsertAt(items, 1, x), items, x)
  <2>1. 1 \in 1 .. Len(items) + 1
    BY <1>1
  <2> QED BY <2>1, InsertIsOneMore
<1>5. OneMore(InsertAt(items, Len(items) + 1, x), items, x)
  <2>1. Len(items) + 1 \in 1 .. Len(items) + 1
    BY <1>1
  <2> QED BY <2>1, InsertIsOneMore
<1> QED BY <1>2, <1>3, <1>4, <1>5

LEMMA PushKeepsLimits ==
    ASSUME NEW o, IsList(o), NEW x \in Item
    PROVE  IsList(push_front(o, x)) /\ IsList(push_back(o, x))
<1> DEFINE p == MakeRoom(o, x)
           items == o.items
<1>1. items \in Seq(Item) /\ Len(items) \in Nat
  BY DEF IsList, IsListRecord
<1>2. p = [encoding |-> p.encoding, items |-> items] /\ Fits(o, x, p.encoding)
  <2>1. CASE Len(items) + 1 > ZIPLIST_MAX_ENTRIES \/ x \in LargeItem
    <3>1. p = [o EXCEPT !.encoding = "LINKEDLIST"]
      BY <2>1 DEF MakeRoom, promote_to_linkedlist
    <3>2. p = [encoding |-> "LINKEDLIST", items |-> items]
      BY <3>1 DEF IsList, IsListRecord
    <3> QED BY <3>2 DEF Fits
  <2>2. CASE ~ (Len(items) + 1 > ZIPLIST_MAX_ENTRIES \/ x \in LargeItem)
    <3>1. p = o
      BY <2>2 DEF MakeRoom
    <3> HIDE DEF p
    <3> QED BY <1>1, <2>2, <3>1, ListObjectAssumption DEF IsList, IsListRecord, Fits
  <2> QED BY <2>1, <2>2
<1>3. /\ push_front(o, x) = [p EXCEPT !.items = <<x>> \o @]
      /\ push_back(o, x) = [p EXCEPT !.items = Append(@, x)]
  BY DEF push_front, push_back
<1> HIDE DEF p
<1>4. /\ push_front(o, x) = [encoding |-> p.encoding, items |-> <<x>> \o items]
      /\ push_back(o, x) = [encoding |-> p.encoding, items |-> Append(items, x)]
  <2> DEFINE e == p.encoding
  <2>1. p = [encoding |-> e, items |-> items]
    BY <1>2
  <2> HIDE DEF e, items
  <2>2. [p EXCEPT !.items = <<x>> \o @] = [encoding |-> e, items |-> <<x>> \o items]
    <3> DEFINE s == <<x>> \o p.items
    <3>1. p.items = items
      BY <2>1
    <3> HIDE DEF s
    <3>2. [p EXCEPT !.items = s] = [encoding |-> e, items |-> s]
      BY <2>1
    <3> QED BY <3>1, <3>2 DEF s
  <2>3. [p EXCEPT !.items = Append(@, x)] = [encoding |-> e, items |-> Append(items, x)]
    BY <2>1
  <2> QED BY <1>3, <2>2, <2>3 DEF e
<1>5. OneMore(<<x>> \o items, items, x) /\ OneMore(Append(items, x), items, x)
  BY <1>1, EndsAreOneMore
<1> QED BY <1>2, <1>4, <1>5, OneMoreFits

LEMMA InsertKeepsLimits ==
    ASSUME NEW o, IsList(o), NEW pivot, NEW x \in Item, NEW pos
    PROVE  IsList(list_insert(o, pivot, x, pos))
<1> DEFINE items == o.items
           i == SelectInSeq(items, LAMBDA e : e = pivot)
           at == IF pos = "BEFORE" THEN i ELSE i + 1
           longer == InsertAt(items, at, x)
           p == IF x \in LargeItem THEN promote_to_linkedlist(o) ELSE o
<1>1. items \in Seq(Item) /\ Len(items) \in Nat
  BY DEF IsList, IsListRecord
<1>2. i = 0 \/ i \in 1 .. Len(items)
  <2> DEFINE I == {k \in 1 .. Len(items) : items[k] = pivot}
  <2>1. i = IF I # {} THEN Min(I) ELSE 0
    BY DEF SelectInSeq
  <2>2. ASSUME I # {} PROVE Min(I) \in I
    <3>1. I \in SUBSET Nat
      OBVIOUS
    <3> HIDE DEF I
    <3>2. \E k \in I : \A j \in I : k <= j
      BY <2>2, <3>1, Least
    <3> QED BY <3>2 DEF Min
  <2> HIDE DEF i
  <2> QED BY <2>1, <2>2
<1>3. promote_to_linkedlist(o) = [encoding |-> "LINKEDLIST", items |-> items]
  BY DEF promote_to_linkedlist, IsList, IsListRecord
<1>4. IsList(promote_to_linkedlist(o))
  BY <1>1, <1>3 DEF IsList, IsListRecord
<1>5. list_insert(o, pivot, x, pos) =
         IF p.encoding = "LINKEDLIST" \/ i = 0 THEN p
         ELSE IF Len(longer) > ZIPLIST_MAX_ENTRIES
              THEN [promote_to_linkedlist(p) EXCEPT !.items = longer]
              ELSE [p EXCEPT !.items = longer]
  BY DEF list_insert
<1> HIDE DEF i
<1>6. CASE p.encoding = "LINKEDLIST" \/ i = 0
  <2>1. list_insert(o, pivot, x, pos) = p /\ p \in {o, promote_to_linkedlist(o)}
    BY <1>5, <1>6
  <2> QED BY <1>4, <2>1
<1>7. CASE ~ (p.encoding = "LINKEDLIST" \/ i = 0)
  <2>1. x \notin LargeItem /\ p = o
    <3>1. promote_to_linkedlist(o).encoding = "LINKEDLIST"
      BY <1>3
    <3> QED BY <1>7, <3>1
  <2>2. at \in 1 .. Len(items) + 1
    BY <1>1, <1>2, <1>7
  <2> HIDE DEF at
  <2>3. OneMore(longer, items, x)
    BY <1>1, <2>2, InsertIsOneMore
  <2>4. o.encoding = "ZIPLIST" /\ o = [encoding |-> "ZIPLIST", items |-> items]
    BY <1>7, <2>1 DEF IsList, IsListRecord
  <2> HIDE DEF longer, p
  <2>5. CASE Len(longer) > ZIPLIST_MAX_ENTRIES
    <3>1. list_insert(o, pivot, x, pos) = [promote_to_linkedlist(o) EXCEPT !.items = longer]
      BY <1>5, <1>7, <2>1, <2>5
    <3>2. list_insert(o, pivot, x, pos) = [encoding |-> "LINKEDLIST", items |-> longer]
      BY <1>3, <3>1
    <3>3. Fits(o, x, "LINKEDLIST")
      BY DEF Fits
    <3> QED BY <2>3, <3>2, <3>3, OneMoreFits
  <2>6. CASE ~ (Len(longer) > ZIPLIST_MAX_ENTRIES)
    <3>1. list_insert(o, pivot, x, pos) = [o EXCEPT !.items = longer]
      BY <1>5, <1>7, <2>1, <2>6
    <3>2. list_insert(o, pivot, x, pos) = [encoding |-> "ZIPLIST", items |-> longer]
      BY <2>4, <3>1
    <3>3. Fits(o, x, "ZIPLIST")
      BY <1>1, <2>1, <2>3, <2>4, <2>6, ListObjectAssumption DEF Fits, OneMore
    <3> QED BY <2>3, <3>2, <3>3, OneMoreFits
  <2> QED BY <2>5, <2>6
<1> QED BY <1>6, <1>7

LEMMA PopKeepsLimits ==
    ASSUME NEW o, IsList(o)
    PROVE  IsList(pop_front(o)) /\ IsList(pop_back(o))
<1> DEFINE items == o.items
           n == Len(items)
<1>1. items \in Seq(Item) /\ n \in Nat /\ DOMAIN items = 1 .. n
  BY DEF IsList, IsListRecord
<1>2. CASE items = <<>>
  BY <1>2 DEF pop_front, pop_back
<1>3. CASE items # <<>>
  <2>1. pop_front(o) = WithItems(o, Tail(items)) /\ pop_back(o) = WithItems(o, Front(items))
    BY <1>3 DEF pop_front, pop_back, WithItems
  <2> HIDE DEF items
  <2>2. Tail(items) = SubSeq(items, 2, n) /\ Front(items) = SubSeq(items, 1, n - 1)
    BY <1>1, <1>3, TailIsSubSeq DEF Front
  <2>3. ASSUME NEW a \in 1 .. n + 1, NEW b \in a - 1 .. n
        PROVE  /\ SubSeq(items, a, b) \in Seq(Item) /\ Len(SubSeq(items, a, b)) <= n
               /\ ToSet(SubSeq(items, a, b)) \subseteq ToSet(items)
    <3> DEFINE s == SubSeq(items, a, b)
    <3>1. a \in Int /\ b \in Int /\ 1 <= a /\ a <= b + 1 /\ b <= n
      BY <1>1
    <3>2. s \in Seq(Item) /\ Len(s) = b - a + 1 /\ \A i \in 1 .. b - a + 1 : s[i] = items[a + i - 1]
      BY <1>1, <3>1, SubSeqProperties
    <3> HIDE DEF s
    <3>3. \A i \in 1 .. b - a + 1 : a + i - 1 \in 1 .. n
      BY <1>1, <3>1
    <3>4. \A i \in 1 .. n : items[i] \in ToSet(items)
      BY <1>1 DEF ToSet
    <3>5. ToSet(s) \subseteq ToSet(items)
      BY <3>2, <3>3, <3>4, AllIn
    <3>6. Len(s) <= n
      BY <1>1, <3>1, <3>2
    <3> QED BY <3>2, <3>5, <3>6 DEF s
  <2>4. n # 0
    BY <1>1, <1>3
  <2>5. 2 \in 1 .. n + 1 /\ n \in 2 - 1 .. n /\ 1 \in 1 .. n + 1 /\ n - 1 \in 1 - 1 .. n
    BY <1>1, <2>4
  <2> QED BY <2>1, <2>2, <2>3, <2>5, Fewer DEF items
<1> QED BY <1>2, <1>3

LEMMA ListStarts == ListInit => IsList(theList)
<1>1. Len(<<>>) = 0 /\ ToSet(<<>>) = {} /\ <<>> \in Seq(Item)
  BY DEF ToSet
<1>2. ListInit => theList.items = <<>> /\ theList.encoding = "ZIPLIST"
                  /\ theList = [encoding |-> theList.encoding, items |-> theList.items]
  BY DEF ListInit, NewList
<1>3. ListInit => IsListRecord(theList)
  BY <1>1, <1>2 DEF IsListRecord
<1>4. 0 <= ZIPLIST_MAX_ENTRIES
  BY ListObjectAssumption
<1>5. ListInit => Len(theList.items) = 0 /\ ToSet(theList.items) = {}
  BY <1>1, <1>2
<1> QED BY <1>2, <1>3, <1>4, <1>5 DEF IsList

LEMMA ListStep == IsList(theList) /\ [ListNext]_theList => IsList(theList')
<1> SUFFICES ASSUME IsList(theList), [ListNext]_theList
             PROVE  IsList(theList')
  OBVIOUS
<1> DEFINE items == theList.items
<1>1. IsListRecord(theList) /\ items \in Seq(Item)
  BY DEF IsList, IsListRecord
<1>2. ASSUME NEW P \in SUBSET (DOMAIN items)
      PROVE  IsList(WithItems(theList, ElementsAt(items, P)))
  <2>1. /\ ElementsAt(items, P) \in Seq(Item) /\ Len(ElementsAt(items, P)) <= Len(items)
        /\ ToSet(ElementsAt(items, P)) \subseteq ToSet(items)
    BY <1>1, ElementsAtFewer
  <2> QED BY <2>1, Fewer
<1>3. CASE Pop
  BY <1>3, PopKeepsLimits DEF Pop
<1>4. CASE \E x \in Item : Push(x)
  BY <1>4, PushKeepsLimits DEF Push
<1>5. CASE \E n \in Index, x \in Item : RemoveItem(n, x)
  <2>1. PICK n \in Index, x \in Item : RemoveItem(n, x)
    BY <1>5
  <2> DEFINE P == DOMAIN items \ Removed(items, n, x)
  <2>2. theList' = WithItems(theList, ElementsAt(items, P))
    BY <1>1, <2>1, RemoveTakes, ListObjectAssumption DEF RemoveItem
  <2>3. P \in SUBSET (DOMAIN items)
    OBVIOUS
  <2> HIDE DEF P
  <2> QED BY <1>2, <2>2, <2>3
<1>6. CASE \E l, r \in Index : Trim(l, r)
  <2>1. PICK l \in Index, r \in Index : Trim(l, r)
    BY <1>6
  <2> DEFINE P == Between(items, l, r)
  <2>2. theList' = WithItems(theList, ElementsAt(items, P))
    BY <1>1, <2>1, TrimKeeps, ListObjectAssumption DEF Trim
  <2>3. P \in SUBSET (DOMAIN items)
    BY DEF Between
  <2> HIDE DEF P
  <2> QED BY <1>2, <2>2, <2>3
<1>7. CASE \E p, x \in Item : Insert(p, x)
  BY <1>7, InsertKeepsLimits DEF Insert
<1>8. CASE UNCHANGED theList
  BY <1>8
<1> QED BY <1>3, <1>4, <1>5, <1>6, <1>7, <1>8 DEF ListNext

(* A ziplist never holds more than its entries nor a large string, whatever
   the history of the list (ListObject::push_front to ListObject::insert).  *)
THEOREM ZiplistsStayWithinLimits == ListSpec => []ListTypeOK
<1>1. IsList(theList) => ListTypeOK
  BY DEF IsList, ListTypeOK
<1>2. IsList(theList') <=> IsList(theList)'
  BY DEF IsList, IsListRecord
<1> QED BY <1>1, <1>2, ListStarts, ListStep, PTL DEF ListSpec

(* On any list that can come about, and for any number, remove, trim and get
   touch the positions the Redis commands are about, in their order
   (ListObject::remove, ListObject::trim, ListObject::get).  *)
THEOREM ListsObeyTheirCommands == ListSpec => []ListOperations
<1>1. IsList(theList) => ListOperations
  <2> SUFFICES ASSUME IsList(theList) PROVE ListOperations
    OBVIOUS
  <2> DEFINE items == theList.items
  <2>1. IsListRecord(theList)
    BY DEF IsList
  <2>2. ASSUME NEW n \in Index, NEW x \in Item
        PROVE  list_remove(theList, n, x).items = ElementsAt(items, DOMAIN items \ Removed(items, n, x))
    BY <2>1, RemoveTakes, WithItemsIs, ListObjectAssumption
  <2>3. ASSUME NEW n \in Index, NEW m \in Index
        PROVE  trim(theList, n, m).items = ElementsAt(items, Between(items, n, m))
    BY <2>1, TrimKeeps, WithItemsIs, ListObjectAssumption
  <2>4. ASSUME NEW n \in Index
        PROVE  get(theList, n) = ElementsAt(items, Between(items, n, n))
    BY <2>1, GetFinds, ListObjectAssumption
  <2> QED BY <2>2, <2>3, <2>4 DEF ListOperations
<1>2. IsList(theList') <=> IsList(theList)'
  BY DEF IsList, IsListRecord
<1> QED BY <1>1, <1>2, ListStarts, ListStep, PTL DEF ListSpec

-----------------------------------------------------------------------------
(* The parts of the parser. *)

LEMMA LeastIsMin ==
    ASSUME NEW T \in SUBSET Nat, T # {}
    PROVE  Min(T) \in T /\ \A y \in T : Min(T) <= y
<1>1. \E x \in T : \A y \in T : x <= y
  BY Num!Least
<1> QED BY <1>1 DEF Min

LEMMA NoDigit ==
    LET S == ToSet(Digits)
    IN /\ CR \notin S /\ "-" \notin S /\ "*" \notin S /\ "$" \notin S
       /\ \A b \in S : b \notin Space
<1>1. ToSet(Digits) = {"0", "1", "2", "3", "4", "5", "6", "7", "8", "9"}
  <2>1. DOMAIN Digits = 1 .. 10
    BY DEF Digits
  <2>2. \A i \in 1 .. 10 : Digits[i] \in {"0", "1", "2", "3", "4", "5", "6", "7", "8", "9"}
    BY DEF Digits
  <2>3. /\ Digits[1] = "0" /\ Digits[2] = "1" /\ Digits[3] = "2" /\ Digits[4] = "3"
        /\ Digits[5] = "4" /\ Digits[6] = "5" /\ Digits[7] = "6" /\ Digits[8] = "7"
        /\ Digits[9] = "8" /\ Digits[10] = "9"
    BY DEF Digits
  <2> QED BY <2>1, <2>2, <2>3 DEF ToSet
<1>2. \A b \in {"0", "1", "2", "3", "4", "5", "6", "7", "8", "9"} :
         b \notin {" ", "\r", "\n", "-", "*", "$"}
  BY Zenon
<1> HIDE DEF Digits
<1>3. \A b \in ToSet(Digits) : b \notin {" ", "\r", "\n", "-", "*", "$"}
  BY <1>1, <1>2
<1> QED BY <1>3, Zenon DEF CR, LF, Space

\* A loop over the bytes from pos on ends at the first one that is not in B.
LEMMA SkipIs ==
    ASSUME NEW S, NEW s \in Seq(S), NEW pos \in 1 .. Len(s) + 1, NEW B
    PROVE  /\ Skip(s, pos, B) \in pos .. Len(s) + 1
           /\ Skip(s, pos, B) = Len(s) + 1 \/ s[Skip(s, pos, B)] \notin B
           /\ \A j \in pos .. Skip(s, pos, B) - 1 : s[j] \in B
<1> DEFINE n == Len(s)
           T == {i \in pos .. n + 1 : i = n + 1 \/ s[i] \notin B}
           Ends(i) == /\ i = n + 1 \/ s[i] \notin B
                      /\ \A j \in pos .. i - 1 : s[j] \in B
<1>1. n \in Nat /\ pos \in Nat /\ T \in SUBSET Nat /\ n + 1 \in T
  OBVIOUS
<1>2. PICK i \in T : \A y \in T : i <= y
  BY <1>1, Num!Least
<1>3. i \in pos .. n + 1 /\ Ends(i)
  <2>1. \A j \in pos .. i - 1 : j \in pos .. n + 1 /\ j # n + 1 /\ ~ i <= j
    BY <1>1, <1>2
  <2> QED BY <1>2, <2>1
<1>4. Skip(s, pos, B) = CHOOSE x \in pos .. n + 1 : Ends(x)
  BY DEF Skip
<1> HIDE DEF Ends
<1>5. Skip(s, pos, B) \in pos .. n + 1 /\ Ends(Skip(s, pos, B))
  BY <1>3, <1>4
<1> QED BY <1>5 DEF Ends

LEMMA SkipTo ==
    ASSUME NEW S, NEW s \in Seq(S), NEW pos \in 1 .. Len(s) + 1, NEW B,
           NEW i \in pos .. Len(s) + 1, i = Len(s) + 1 \/ s[i] \notin B,
           \A j \in pos .. i - 1 : s[j] \in B
    PROVE  Skip(s, pos, B) = i
<1> DEFINE k == Skip(s, pos, B)
<1>1. k \in pos .. Len(s) + 1 /\ (k = Len(s) + 1 \/ s[k] \notin B)
         /\ \A j \in pos .. k - 1 : s[j] \in B
  BY SkipIs
<1> HIDE DEF k
<1>2. ~ k < i
  BY <1>1
<1>3. ~ i < k
  BY <1>1
<1> QED BY <1>1, <1>2, <1>3 DEF k

\* The end of a line.
EndAt(s, i) == s[i] = CR /\ s[i + 1] = LF

LEMMA Slice ==
    ASSUME NEW S, NEW s \in Seq(S), NEW a \in 1 .. Len(s) + 1, NEW b \in a - 1 .. Len(s)
    PROVE  LET y == SubSeq(s, a, b)
           IN /\ y \in Seq(S) /\ Len(y) = b - a + 1
              /\ \A j \in 1 .. b - a + 1 : y[j] = s[a + j - 1]
<1>1. Len(s) \in Nat /\ a \in Nat /\ b \in Int /\ b - a + 1 \in Nat
  OBVIOUS
<1>2. SubSeq(s, a, b) = [j \in 1 .. b - a + 1 |-> s[a + j - 1]]
  BY <1>1
<1>3. \A j \in 1 .. b - a + 1 : a + j - 1 \in 1 .. Len(s)
  BY <1>1
<1> QED BY <1>1, <1>2, <1>3

LEMMA EndIs ==
    ASSUME NEW S, NEW s \in Seq(S), NEW i \in 1 .. Len(s) - 1
    PROVE  (SubSeq(s, i, i + 1) = CRLF) <=> EndAt(s, i)
<1> DEFINE y == SubSeq(s, i, i + 1)
<1>1. i \in 1 .. Len(s) /\ i + 1 \in 1 .. Len(s) /\ Len(s) \in Nat
  OBVIOUS
<1>2. y \in Seq(S) /\ Len(y) = 2 /\ y[1] = s[i] /\ y[2] = s[i + 1]
  <2>1. i \in 1 .. Len(s) + 1 /\ i + 1 \in i - 1 .. Len(s) /\ (i + 1) - i + 1 = 2
    BY <1>1
  <2>2. y \in Seq(S) /\ Len(y) = (i + 1) - i + 1
    BY <2>1, Slice
  <2>3. \A j \in 1 .. (i + 1) - i + 1 : y[j] = s[i + j - 1]
    BY <2>1, Slice
  <2>4. i + 1 - 1 = i /\ i + 2 - 1 = i + 1
    BY <1>1
  <2> QED BY <2>1, <2>2, <2>3, <2>4
<1> HIDE DEF y
<1>3. (y = <<CR, LF>>) <=> (y[1] = CR /\ y[2] = LF)
  BY <1>2
<1> QED BY <1>2, <1>3 DEF CRLF, EndAt, y

LEMMA FindIs ==
    ASSUME NEW S, NEW s \in Seq(S), NEW pos \in Nat
    PROVE  /\ \/ Find(s, pos) = 0
              \/ Find(s, pos) \in 1 .. Len(s) - 1 /\ Find(s, pos) >= pos /\ EndAt(s, Find(s, pos))
           /\ \A i \in 1 .. Len(s) - 1 :
                 i >= pos /\ EndAt(s, i) => Find(s, pos) # 0 /\ Find(s, pos) <= i
<1> DEFINE idx == [i \in 1 .. Len(s) - 1 |-> i]
           Test(i) == i >= pos /\ SubSeq(s, i, i + 1) = CRLF
           I == {i \in 1 .. Len(idx) : Test(idx[i])}
<1>1. I = {i \in 1 .. Len(s) - 1 : i >= pos /\ EndAt(s, i)}
  <2>1. Len(s) \in Nat
    OBVIOUS
  <2>2. CASE Len(s) = 0
    <3>1. idx = <<>>
      BY <2>2
    <3> HIDE DEF idx, Test
    <3>2. Len(idx) = 0
      BY <3>1
    <3>3. 1 .. Len(s) - 1 = {} /\ 1 .. Len(idx) = {}
      BY <2>2, <3>2
    <3> QED BY <3>3
  <2>3. CASE Len(s) # 0
    <3>1. Len(s) - 1 \in Nat
      BY <2>1, <2>3
    <3>2. Len(idx) = Len(s) - 1
      BY <3>1
    <3>3. \A i \in 1 .. Len(s) - 1 : idx[i] = i
      OBVIOUS
    <3>4. \A i \in 1 .. Len(s) - 1 : Test(i) <=> i >= pos /\ EndAt(s, i)
      BY EndIs
    <3> HIDE DEF idx, Test
    <3> QED BY <3>2, <3>3, <3>4
  <2> QED BY <2>2, <2>3
<1>2. Find(s, pos) = IF I # {} THEN Min(I) ELSE 0
  BY DEF Find, SelectInSeq
<1> DEFINE f == Find(s, pos)
<1> HIDE DEF I, f
<1>3. I \in SUBSET Nat
  BY <1>1
<1>4. I # {} => Min(I) \in I /\ \A y \in I : Min(I) <= y
  BY <1>3, LeastIsMin
<1>5. IF I # {} THEN f \in I /\ \A y \in I : f <= y ELSE f = 0
  BY <1>2, <1>4 DEF f
<1>6. /\ f = 0 \/ (f \in 1 .. Len(s) - 1 /\ f >= pos /\ EndAt(s, f))
      /\ \A i \in 1 .. Len(s) - 1 : i >= pos /\ EndAt(s, i) => f # 0 /\ f <= i
  <2>1. CASE I = {}
    BY <1>1, <1>5, <2>1
  <2>2. CASE I # {}
    <3>1. f \in I /\ \A y \in I : f <= y
      BY <1>5, <2>2
    <3>2. f # 0
      BY <1>1, <3>1
    <3> QED BY <1>1, <3>1, <3>2
  <2> QED BY <2>1, <2>2
<1> QED BY <1>6 DEF f

LEMMA OneElementMore ==
    ASSUME NEW S, NEW z \in Seq(S), NEW m \in 1 .. Len(z)
    PROVE  SubSeq(z, 1, m) = Append(SubSeq(z, 1, m - 1), z[m])
<1> DEFINE y == SubSeq(z, 1, m - 1)
<1>1. Len(z) \in Nat /\ m - 1 \in 0 .. Len(z) /\ m \in 0 .. Len(z) /\ m \in Nat /\ m - 1 \in Nat
  OBVIOUS
<1>2. y \in Seq(S) /\ z[m] \in S /\ Len(y) = m - 1
  BY <1>1
<1>3. \A i \in 1 .. m : IF i <= m - 1 THEN y[i] = z[i] ELSE i = m
  BY <1>1
<1> HIDE DEF y
<1>4. SubSeq(z, 1, m) = [i \in 1 .. m |-> z[i]]
  BY <1>1
<1>5. Append(y, z[m]) = [i \in 1 .. m |-> IF i <= m - 1 THEN y[i] ELSE z[m]]
  BY <1>1, <1>2
<1>6. SubSeq(z, 1, m) = Append(y, z[m])
  BY <1>1, <1>3, <1>4, <1>5
<1> QED BY <1>6 DEF y

LEMMA NumberIn == ASSUME NEW S, NEW z \in Seq(S) PROVE Number(z) \in Int
<1> DEFINE G == {m \in 0 .. Len(z) : Number(SubSeq(z, 1, m)) \in Int}
<1>1. Len(z) \in Nat
  OBVIOUS
<1>2. ASSUME NEW v \in Int, NEW b PROVE Shift(v, b) \in Int
  <2> DEFINE I == {i \in 1 .. Len(Digits) : Digits[i] = b}
  <2>1. I \in SUBSET Nat
    BY DigitsSeq
  <2>2. SelectInSeq(Digits, LAMBDA d : d = b) = IF I # {} THEN Min(I) ELSE 0
    BY DEF SelectInSeq
  <2> HIDE DEF I
  <2>3. SelectInSeq(Digits, LAMBDA d : d = b) \in Int
    BY <2>1, <2>2, LeastIsMin
  <2> QED BY <1>2, <2>3 DEF Shift
<1>3. 0 \in G
  <2>1. SubSeq(z, 1, 0) = <<>>
    OBVIOUS
  <2>2. Number(<<>>) = 0
    <3>1. <<>> \in Seq({0}) /\ 0 \in {0}
      OBVIOUS
    <3> QED BY <3>1, NumberShifts
  <2>3. Number(SubSeq(z, 1, 0)) = Number(<<>>)
    BY <2>1
  <2>4. Number(SubSeq(z, 1, 0)) \in Int
    BY <2>2, <2>3
  <2> QED BY <1>1, <2>4
<1>4. ASSUME NEW m \in 1 .. Len(z), m - 1 \in G PROVE m \in G
  <2> DEFINE y == SubSeq(z, 1, m - 1)
  <2>1. y \in Seq(S) /\ z[m] \in S
    BY <1>1
  <2>2. SubSeq(z, 1, m) = Append(y, z[m])
    BY OneElementMore
  <2> HIDE DEF y
  <2>3. Number(Append(y, z[m])) = Shift(Number(y), z[m])
    BY <2>1, NumberShifts
  <2>4. Number(y) \in Int
    BY <1>4 DEF y
  <2>5. Shift(Number(y), z[m]) \in Int
    BY <1>2, <2>4
  <2>6. m \in 0 .. Len(z)
    BY <1>1
  <2> QED BY <2>2, <2>3, <2>5, <2>6
<1> HIDE DEF G
<1>5. 0 .. Len(z) \subseteq G
  BY <1>1, <1>3, <1>4, Num!UpTo
<1>6. Len(z) \in G
  BY <1>1, <1>5
<1>7. SubSeq(z, 1, Len(z)) = z
  OBVIOUS
<1> QED BY <1>6, <1>7 DEF G

\* atoi, when the first byte is no white space: a sign if there is one, digits.
LEMMA AtoiIs ==
    ASSUME NEW S, NEW s \in Seq(S), NEW pos \in 1 .. Len(s), s[pos] \notin Space
    PROVE  LET first  == IF s[pos] = "-" THEN pos + 1 ELSE pos
               number == SubSeq(s, first, Skip(s, first, ToSet(Digits)) - 1)
           IN atoi(s, pos) = IF first = pos THEN Number(number) ELSE -Number(number)
<1>1. Skip(s, pos, Space) = pos
  <2>1. pos \in 1 .. Len(s) + 1 /\ pos \in pos .. Len(s) + 1
           /\ \A j \in pos .. pos - 1 : s[j] \in Space
    OBVIOUS
  <2> QED BY <2>1, SkipTo
<1>2. pos <= Len(s)
  OBVIOUS
<1> QED BY <1>1, <1>2 DEF atoi

LEMMA AtoiIn ==
    ASSUME NEW S, NEW s \in Seq(S), NEW pos \in 1 .. Len(s) + 1
    PROVE  atoi(s, pos) \in Int
<1> DEFINE start == Skip(s, pos, Space)
           first == IF start <= Len(s) /\ s[start] = "-" THEN start + 1 ELSE start
           number == SubSeq(s, first, Skip(s, first, ToSet(Digits)) - 1)
<1>1. start \in 1 .. Len(s) + 1
  BY SkipIs
<1> HIDE DEF start
<1>2. first \in 1 .. Len(s) + 1
  BY <1>1
<1> HIDE DEF first
<1>3. Skip(s, first, ToSet(Digits)) \in first .. Len(s) + 1
  BY <1>2, SkipIs
<1>4. number \in Seq(S)
  BY <1>2, <1>3
<1> HIDE DEF number
<1>5. Number(number) \in Int
  BY <1>4, NumberIn
<1>6. atoi(s, pos) = IF first = start THEN Number(number) ELSE -Number(number)
  BY DEF atoi, start, first, number
<1> QED BY <1>5, <1>6

-----------------------------------------------------------------------------
(* One byte more behind what has been read. *)

LEMMA OneByteMore ==
    ASSUME NEW S, NEW s \in Seq(S), NEW b \in S
    PROVE  /\ Append(s, b) \in Seq(S) /\ Len(Append(s, b)) = Len(s) + 1
           /\ \A i \in 1 .. Len(s) : Append(s, b)[i] = s[i]
OBVIOUS

\* What s and t agree about up to a position, they agree about in between.
LEMMA SameSlice ==
    ASSUME NEW S, NEW s \in Seq(S), NEW t \in Seq(S), Len(s) <= Len(t),
           \A i \in 1 .. Len(s) : t[i] = s[i],
           NEW a \in 1 .. Len(s) + 1, NEW e \in a - 1 .. Len(s)
    PROVE  SubSeq(t, a, e) = SubSeq(s, a, e)
<1> DEFINE y == SubSeq(s, a, e)
           z == SubSeq(t, a, e)
           k == e - a + 1
<1>1. Len(s) \in Nat /\ Len(t) \in Nat /\ a \in 1 .. Len(t) + 1 /\ e \in a - 1 .. Len(t)
         /\ k \in Nat
  OBVIOUS
<1>2. y \in Seq(S) /\ Len(y) = k
  BY Slice
<1>3. z \in Seq(S) /\ Len(z) = k
  BY <1>1, Slice
<1>4. \A j \in 1 .. k : y[j] = s[a + j - 1]
  BY Slice
<1>5. \A j \in 1 .. k : z[j] = t[a + j - 1]
  BY <1>1, Slice
<1>6. \A j \in 1 .. k : a + j - 1 \in 1 .. Len(s)
  BY <1>1
<1> HIDE DEF y, z, k
<1>7. \A j \in 1 .. k : y[j] = z[j]
  BY <1>4, <1>5, <1>6
<1>8. y = [j \in 1 .. k |-> y[j]] /\ z = [j \in 1 .. k |-> z[j]]
  BY <1>2, <1>3
<1>9. y = z
  BY <1>7, <1>8
<1> QED BY <1>9 DEF y, z

LEMMA SkipKept ==
    ASSUME NEW S, NEW s \in Seq(S), NEW t \in Seq(S), Len(s) <= Len(t),
           \A i \in 1 .. Len(s) : t[i] = s[i],
           NEW pos \in 1 .. Len(s), NEW B, NEW e \in pos .. Len(s), s[e] \notin B
    PROVE  Skip(s, pos, B) \in pos .. e /\ Skip(t, pos, B) = Skip(s, pos, B)
<1> DEFINE k == Skip(s, pos, B)
<1>1. k \in pos .. Len(s) + 1 /\ (k = Len(s) + 1 \/ s[k] \notin B)
         /\ \A j \in pos .. k - 1 : s[j] \in B
  BY SkipIs
<1> HIDE DEF k
<1>2. Len(s) \in Nat /\ Len(t) \in Nat
  OBVIOUS
<1>3. k \in pos .. e
  BY <1>1, <1>2
<1>4. /\ pos \in 1 .. Len(t) + 1 /\ k \in pos .. Len(t) + 1
      /\ t[k] \notin B /\ \A j \in pos .. k - 1 : t[j] \in B
  BY <1>1, <1>2, <1>3
<1>5. Skip(t, pos, B) = k
  BY <1>4, SkipTo
<1> QED BY <1>3, <1>5 DEF k

LEMMA FindKept ==
    ASSUME NEW S, NEW s \in Seq(S), NEW t \in Seq(S), Len(s) <= Len(t),
           \A i \in 1 .. Len(s) : t[i] = s[i],
           NEW pos \in Nat, Find(s, pos) # 0
    PROVE  Find(t, pos) = Find(s, pos)
<1> DEFINE e == Find(s, pos)
           f == Find(t, pos)
<1>1. e \in 1 .. Len(s) - 1 /\ e >= pos /\ EndAt(s, e)
  BY FindIs
<1>2. \A i \in 1 .. Len(s) - 1 : i >= pos /\ EndAt(s, i) => e <= i
  BY FindIs
<1>3. f = 0 \/ (f \in 1 .. Len(t) - 1 /\ f >= pos /\ EndAt(t, f))
  BY FindIs
<1>4. \A i \in 1 .. Len(t) - 1 : i >= pos /\ EndAt(t, i) => f # 0 /\ f <= i
  BY FindIs
<1> HIDE DEF e, f
<1>5. Len(s) \in Nat /\ Len(t) \in Nat
  OBVIOUS
<1>6. \A i \in 1 .. Len(s) - 1 : EndAt(t, i) <=> EndAt(s, i)
  BY <1>5 DEF EndAt
<1>7. e \in 1 .. Len(t) - 1 /\ EndAt(t, e)
  BY <1>1, <1>5, <1>6
<1>8. f # 0 /\ f <= e
  BY <1>1, <1>4, <1>7
<1>9. f \in 1 .. Len(s) - 1 /\ f >= pos /\ EndAt(s, f)
  BY <1>1, <1>3, <1>5, <1>6, <1>8
<1>10. e <= f
  BY <1>2, <1>9
<1> QED BY <1>1, <1>8, <1>9, <1>10 DEF e, f

\* A number with its line complete: atoi does not read beyond that.
LEMMA AtoiKept ==
    ASSUME NEW S, NEW s \in Seq(S), NEW t \in Seq(S), Len(s) <= Len(t),
           \A i \in 1 .. Len(s) : t[i] = s[i],
           NEW pos \in 1 .. Len(s), s[pos] \notin Space,
           NEW e \in pos .. Len(s), s[e] = CR
    PROVE  atoi(t, pos) = atoi(s, pos)
<1> DEFINE S0 == ToSet(Digits)
           first == IF s[pos] = "-" THEN pos + 1 ELSE pos
           k == Skip(s, first, S0)
           number(x) == SubSeq(x, first, Skip(x, first, S0) - 1)
<1>1. Len(s) \in Nat /\ Len(t) \in Nat /\ pos \in 1 .. Len(t) /\ t[pos] = s[pos]
  OBVIOUS
<1>2. first \in 1 .. Len(s) /\ e \in first .. Len(s)
  <2>1. s[pos] = "-" => e # pos
    BY DEF CR
  <2> QED BY <1>1, <2>1
<1>3. CR \notin S0
  BY NoDigit
<1>4. atoi(s, pos) = IF first = pos THEN Number(number(s)) ELSE -Number(number(s))
  BY AtoiIs
<1>5. atoi(t, pos) = IF first = pos THEN Number(number(t)) ELSE -Number(number(t))
  BY <1>1, AtoiIs
<1> HIDE DEF first, S0
<1>6. k \in first .. e /\ Skip(t, first, S0) = k
  BY <1>2, <1>3, SkipKept
<1>7. first \in 1 .. Len(s) + 1 /\ k - 1 \in first - 1 .. Len(s)
  BY <1>1, <1>2, <1>6
<1> HIDE DEF k
<1>8. SubSeq(t, first, k - 1) = SubSeq(s, first, k - 1)
  BY <1>7, SameSlice
<1>9. number(t) = number(s)
  BY <1>6, <1>8 DEF k
<1> HIDE DEF number
<1> QED BY <1>4, <1>5, <1>9

\* What the parser is about to return.
IsAt(p) == p = At(p.result, p.args, p.pos)

LEMMA BulkKept ==
    ASSUME NEW S, NEW s \in Seq(S), NEW t \in Seq(S), Len(s) <= Len(t),
           \A i \in 1 .. Len(s) : t[i] = s[i], Numbered(t),
           NEW p, IsAt(p), p.pos \in Nat \ {0}, ReadBulk(s, p).result # "INCOMPLETE"
    PROVE  /\ ReadBulk(t, p) = ReadBulk(s, p) /\ IsAt(ReadBulk(s, p))
           /\ ReadBulk(s, p).result = "COMPLETE" => ReadBulk(s, p).pos \in Nat \ {0}
<1> DEFINE end == Find(s, p.pos)
           len == atoi(s, p.pos + 1)
           next == end + 2 + len
           r == ReadBulk(s, p)
           more == Find(t, p.pos)
           lent == atoi(t, p.pos + 1)
           after == more + 2 + lent
           late == [p EXCEPT !.result = "INCOMPLETE"]
           bad == [p EXCEPT !.result = "ERROR"]
<1>1. /\ late = At("INCOMPLETE", p.args, p.pos) /\ IsAt(late) /\ late.result = "INCOMPLETE"
      /\ bad = At("ERROR", p.args, p.pos) /\ IsAt(bad) /\ bad.result = "ERROR"
  BY DEF IsAt, At
<1>2. \A x, y, z : IsAt(At(x, y, z)) /\ At(x, y, z).result = x /\ At(x, y, z).pos = z
  BY DEF IsAt, At
<1>3. r = IF p.pos > Len(s) THEN late
          ELSE IF s[p.pos] # "$" THEN bad
          ELSE IF end = 0 THEN late
          ELSE IF len < -1 THEN bad
          ELSE IF len = -1 THEN At("COMPLETE", Append(p.args, <<>>), end + 2)
          ELSE IF next - 1 > Len(s) THEN late
          ELSE At(Trailer(s, next), Append(p.args, SubSeq(s, end + 2, next - 1)), next + 2)
  BY DEF ReadBulk
<1>4. ReadBulk(t, p) =
          IF p.pos > Len(t) THEN late
          ELSE IF t[p.pos] # "$" THEN bad
          ELSE IF more = 0 THEN late
          ELSE IF lent < -1 THEN bad
          ELSE IF lent = -1 THEN At("COMPLETE", Append(p.args, <<>>), more + 2)
          ELSE IF after - 1 > Len(t) THEN late
          ELSE At(Trailer(t, after), Append(p.args, SubSeq(t, more + 2, after - 1)), after + 2)
  BY DEF ReadBulk
<1> HIDE DEF r, late, bad
<1>5. p.pos \in 1 .. Len(s) /\ p.pos \in 1 .. Len(t) /\ Len(s) \in Nat /\ Len(t) \in Nat
         /\ t[p.pos] = s[p.pos]
  <2>1. Len(s) \in Nat /\ Len(t) \in Nat
    OBVIOUS
  <2>2. ~ p.pos > Len(s)
    BY <1>1, <1>3 DEF r
  <2> QED BY <2>1, <2>2
<1>6. CASE s[p.pos] # "$"
  <2>1. r = bad
    BY <1>3, <1>5, <1>6
  <2>2. ReadBulk(t, p) = bad
    BY <1>4, <1>5, <1>6
  <2> QED BY <1>1, <2>1, <2>2 DEF r
<1>7. CASE s[p.pos] = "$"
  <2>1. end # 0
    BY <1>1, <1>3, <1>5, <1>7 DEF r
  <2>2. end \in 1 .. Len(s) - 1 /\ end >= p.pos /\ EndAt(s, end)
    BY <2>1, FindIs
  <2>3. more = end
    BY <2>1, FindKept
  <2> HIDE DEF end, more
  <2>4. s[end] = CR /\ end # p.pos /\ end \in Nat
    BY <1>7, <2>2 DEF EndAt, CR
  <2>5. /\ p.pos + 1 \in 1 .. Len(s) /\ end \in p.pos + 1 .. Len(s)
        /\ p.pos \in 1 .. Len(t) - 1 /\ t[p.pos] = "$" /\ t[p.pos + 1] = s[p.pos + 1]
    BY <1>5, <1>7, <2>2, <2>4
  <2>6. s[p.pos + 1] \notin Space
    BY <2>5 DEF Numbered
  <2>7. lent = len
    BY <2>4, <2>5, <2>6, AtoiKept
  <2>8. len \in Int
    BY <1>5, <2>5, AtoiIn
  <2>12. after = next
    BY <2>3, <2>7
  <2> HIDE DEF len, lent, after
  <2>9. CASE len < -1
    <3>1. r = bad
      BY <1>3, <1>5, <1>7, <2>1, <2>9
    <3>2. ReadBulk(t, p) = bad
      BY <1>4, <1>5, <1>7, <2>1, <2>3, <2>7, <2>9
    <3> QED BY <1>1, <3>1, <3>2 DEF r
  <2>10. CASE len = -1
    <3>1. r = At("COMPLETE", Append(p.args, <<>>), end + 2)
      BY <1>3, <1>5, <1>7, <2>1, <2>10
    <3>2. ReadBulk(t, p) = At("COMPLETE", Append(p.args, <<>>), end + 2)
      BY <1>4, <1>5, <1>7, <2>1, <2>3, <2>7, <2>10
    <3>3. end + 2 \in Nat \ {0}
      BY <2>4
    <3> QED BY <1>2, <3>1, <3>2, <3>3 DEF r
  <2>11. CASE len >= 0
    <3>1. next \in Nat /\ next >= 3 /\ next = end + 2 + len
      BY <2>2, <2>4, <2>8, <2>11
    <3>2. r # late
      BY <1>1 DEF r
    <3>3. ~ next - 1 > Len(s)
      BY <1>3, <1>5, <1>7, <2>1, <2>8, <2>11, <3>2
    <3> HIDE DEF next
    <3>4. r = At(Trailer(s, next), Append(p.args, SubSeq(s, end + 2, next - 1)), next + 2)
      BY <1>3, <1>5, <1>7, <2>1, <2>8, <2>11, <3>3
    <3>5. ReadBulk(t, p)
             = At(Trailer(t, next), Append(p.args, SubSeq(t, end + 2, next - 1)), next + 2)
      <4>1. ~ next - 1 > Len(t)
        BY <1>5, <3>1, <3>3
      <4>2. ~ p.pos > Len(t) /\ t[p.pos] = "$" /\ more # 0 /\ ~ lent < -1 /\ lent # -1
        BY <1>5, <1>7, <2>1, <2>3, <2>7, <2>8, <2>11
      <4> QED BY <1>4, <2>3, <2>12, <4>1, <4>2
    <3>6. Trailer(s, next) # "INCOMPLETE"
      BY <1>2, <3>4 DEF r
    <3>7. next + 1 <= Len(s)
      BY <1>5, <3>1, <3>6 DEF Trailer
    <3>8. next \in 1 .. Len(s) - 1 /\ next \in 1 .. Len(t) - 1 /\ ~ next + 1 > Len(s)
             /\ ~ next + 1 > Len(t)
      BY <1>5, <3>1, <3>7
    <3>9. t[next] = s[next] /\ t[next + 1] = s[next + 1]
      BY <1>5, <3>8
    <3>10. Trailer(t, next) = Trailer(s, next)
      <4>1. EndAt(t, next) <=> EndAt(s, next)
        BY <3>9 DEF EndAt
      <4>2. (SubSeq(s, next, next + 1) = CRLF) <=> (SubSeq(t, next, next + 1) = CRLF)
        BY <3>8, <4>1, EndIs
      <4> QED BY <3>8, <4>2 DEF Trailer
    <3>11. SubSeq(t, end + 2, next - 1) = SubSeq(s, end + 2, next - 1)
      <4>1. end + 2 \in 1 .. Len(s) + 1 /\ next - 1 \in (end + 2) - 1 .. Len(s)
        BY <1>5, <2>2, <2>4, <2>8, <2>11, <3>1, <3>3
      <4> DEFINE a == end + 2
                 e == next - 1
      <4>2. a \in 1 .. Len(s) + 1 /\ e \in a - 1 .. Len(s)
        BY <4>1
      <4> HIDE DEF a, e
      <4>3. SubSeq(t, a, e) = SubSeq(s, a, e)
        BY <4>2, SameSlice
      <4> QED BY <4>3 DEF a, e
    <3>12. next + 2 \in Nat \ {0}
      BY <3>1
    <3> DEFINE a == Append(p.args, SubSeq(s, end + 2, next - 1))
    <3>13. r = At(Trailer(s, next), a, next + 2)
      BY <3>4
    <3>14. ReadBulk(t, p) = At(Trailer(s, next), a, next + 2)
      BY <3>5, <3>10, <3>11
    <3> HIDE DEF a
    <3>15. IsAt(r) /\ r.pos = next + 2
      BY <1>2, <3>13
    <3>16. ReadBulk(t, p) = r
      BY <3>13, <3>14
    <3> QED BY <3>12, <3>15, <3>16 DEF r
  <2> QED BY <2>8, <2>9, <2>10, <2>11
<1> QED BY <1>6, <1>7

-----------------------------------------------------------------------------
\* What the loop over the arguments starts with, if there is one.
Entry(s) == At("COMPLETE", <<>>, Find(s, Skip(s, 1, Space)) + 2)

Turns(n) == [i \in 1 .. n |-> i]

LEMMA TurnsSeq ==
    ASSUME NEW n \in Nat
    PROVE  Turns(n) \in Seq(Nat) /\ Len(Turns(n)) = n /\ \A i \in 1 .. n : Turns(n)[i] = i
BY DEF Turns

LEMMA ParseIs ==
    ASSUME NEW s
    PROVE  LET pos == Skip(s, 1, Space)
               argc == atoi(s, pos + 1)
           IN parse(s) = IF pos > Len(s) THEN At("INCOMPLETE", <<>>, pos)
                         ELSE IF s[pos] # "*" THEN At("ERROR", <<>>, pos)
                         ELSE IF Find(s, pos) = 0 THEN At("INCOMPLETE", <<>>, pos)
                         ELSE IF argc < 0 THEN At("ERROR", <<>>, pos)
                         ELSE Par!Fold(s, Entry(s), Turns(argc))
BY DEF parse, Entry, Turns, Turn, Par!Fold, FoldLeft, Par!FoldLeft, MapThenFoldSet,
   Par!MapThenFoldSet, Max, Par!Max

LEMMA EntryNat ==
    ASSUME NEW S, NEW s \in Seq(S)
    PROVE  /\ IsAt(Entry(s)) /\ Entry(s).result = "COMPLETE" /\ Entry(s).args = <<>>
           /\ Entry(s).pos = Find(s, Skip(s, 1, Space)) + 2 /\ Entry(s).pos \in Nat \ {0}
<1>1. 1 \in 1 .. Len(s) + 1
  OBVIOUS
<1>2. Skip(s, 1, Space) \in Nat
  BY <1>1, SkipIs
<1>3. Find(s, Skip(s, 1, Space)) \in Nat
  BY <1>2, FindIs
<1> QED BY <1>3 DEF Entry, At, IsAt

(* The loop comes to the same verdict after one byte more.  *)
LEMMA LoopKept ==
    ASSUME NEW S, NEW s \in Seq(S), NEW t \in Seq(S), Len(s) <= Len(t),
           \A i \in 1 .. Len(s) : t[i] = s[i], Numbered(t), NEW n \in Nat,
           Par!Fold(s, Entry(s), Turns(n)).result # "INCOMPLETE"
    PROVE  Par!Fold(t, Entry(s), Turns(n)) = Par!Fold(s, Entry(s), Turns(n))
<1> DEFINE z == Turns(n)
<1>1. z \in Seq(Nat) /\ Len(z) = n
  BY TurnsSeq
<1> HIDE DEF z
<1>2. PICK run : Par!IsRun(s, Entry(s), z, run) /\ Par!Fold(s, Entry(s), z) = run[n]
  BY <1>1, Par!FoldRuns
<1>3. PICK more : Par!IsRun(t, Entry(s), z, more) /\ Par!Fold(t, Entry(s), z) = more[n]
  BY <1>1, Par!FoldRuns
<1>4. /\ run[0] = Entry(s) /\ more[0] = Entry(s)
      /\ \A m \in 1 .. n : run[m] = Turn(s, run[m - 1], z[m]) /\ more[m] = Turn(t, more[m - 1], z[m])
  BY <1>1, <1>2, <1>3 DEF Par!IsRun
<1> DEFINE Same(m) ==
              run[m].result # "INCOMPLETE" =>
                 /\ more[m] = run[m] /\ IsAt(run[m])
                 /\ run[m].result = "COMPLETE" => run[m].pos \in Nat \ {0}
           G == {m \in 0 .. n : Same(m)}
<1>5. 0 \in G
  <2>1. Same(0)
    BY <1>4, EntryNat
  <2> HIDE DEF Same
  <2> QED BY <2>1
<1>6. ASSUME NEW m \in 1 .. n, m - 1 \in G PROVE m \in G
  <2> DEFINE p == run[m - 1]
             q == more[m - 1]
  <2>1. run[m] = Turn(s, p, z[m]) /\ more[m] = Turn(t, q, z[m])
    BY <1>4
  <2>2. Same(m - 1) /\ m \in 0 .. n
    BY <1>6
  <2> HIDE DEF p, q
  <2>3. p.result # "INCOMPLETE" => q = p /\ IsAt(p) /\ (p.result = "COMPLETE" => p.pos \in Nat \ {0})
    BY <2>2 DEF p, q
  <2>4. CASE p.result # "COMPLETE"
    <3>1. run[m] = p
      BY <2>1, <2>4 DEF Turn
    <3>2. p.result # "INCOMPLETE" => more[m] = p
      BY <2>1, <2>3, <2>4 DEF Turn
    <3>3. Same(m)
      BY <2>3, <2>4, <3>1, <3>2
    <3> HIDE DEF Same
    <3> QED BY <2>2, <3>3
  <2>5. CASE p.result = "COMPLETE"
    <3>1. q = p /\ IsAt(p) /\ p.pos \in Nat \ {0}
      BY <2>3, <2>5
    <3>2. run[m] = ReadBulk(s, p) /\ more[m] = ReadBulk(t, p)
      BY <2>1, <2>5, <3>1 DEF Turn
    <3>3. ASSUME ReadBulk(s, p).result # "INCOMPLETE"
          PROVE  /\ ReadBulk(t, p) = ReadBulk(s, p) /\ IsAt(ReadBulk(s, p))
                 /\ ReadBulk(s, p).result = "COMPLETE" => ReadBulk(s, p).pos \in Nat \ {0}
      BY <3>1, <3>3, BulkKept
    <3>4. Same(m)
      BY <3>2, <3>3
    <3> HIDE DEF Same
    <3> QED BY <2>2, <3>4
  <2> QED BY <2>4, <2>5
<1> HIDE DEF G
<1>7. 0 .. n \subseteq G
  BY <1>5, <1>6, Par!UpTo
<1>8. n \in G
  BY <1>7
<1>9. Same(n)
  BY <1>8 DEF G
<1> QED BY <1>2, <1>3, <1>9 DEF z

LEMMA ParseKept ==
    ASSUME NEW S, NEW s \in Seq(S), NEW t \in Seq(S), Len(s) <= Len(t),
           \A i \in 1 .. Len(s) : t[i] = s[i], Numbered(t),
           parse(s).result # "INCOMPLETE"
    PROVE  parse(t) = parse(s)
<1> DEFINE pos == Skip(s, 1, Space)
           argc == atoi(s, pos + 1)
           post == Skip(t, 1, Space)
           argt == atoi(t, post + 1)
           none == At("INCOMPLETE", <<>>, pos)
           bad == At("ERROR", <<>>, pos)
<1>1. parse(s) = IF pos > Len(s) THEN none
                 ELSE IF s[pos] # "*" THEN bad
                 ELSE IF Find(s, pos) = 0 THEN none
                 ELSE IF argc < 0 THEN bad
                 ELSE Par!Fold(s, Entry(s), Turns(argc))
  BY ParseIs
<1>2. parse(t) = IF post > Len(t) THEN At("INCOMPLETE", <<>>, post)
                 ELSE IF t[post] # "*" THEN At("ERROR", <<>>, post)
                 ELSE IF Find(t, post) = 0 THEN At("INCOMPLETE", <<>>, post)
                 ELSE IF argt < 0 THEN At("ERROR", <<>>, post)
                 ELSE Par!Fold(t, Entry(t), Turns(argt))
  BY ParseIs
<1>3. none.result = "INCOMPLETE"
  BY DEF At
<1>4. 1 \in 1 .. Len(s) + 1 /\ Len(s) \in Nat /\ Len(t) \in Nat
  OBVIOUS
<1>5. pos \in 1 .. Len(s) + 1 /\ (pos = Len(s) + 1 \/ s[pos] \notin Space)
  BY <1>4, SkipIs
<1>6. Entry(s) = At("COMPLETE", <<>>, Find(s, pos) + 2)
         /\ Entry(t) = At("COMPLETE", <<>>, Find(t, post) + 2)
  BY DEF Entry
<1> HIDE DEF none
<1>7. ~ pos > Len(s)
  BY <1>1, <1>3
<1>8. pos \in 1 .. Len(s) /\ s[pos] \notin Space
  BY <1>4, <1>5, <1>7
<1>9. post = pos
  <2>1. 1 \in 1 .. Len(s) /\ pos \in 1 .. Len(s)
    BY <1>4, <1>8
  <2> QED BY <1>8, <2>1, SkipKept
<1> HIDE DEF pos, post
<1>10. t[pos] = s[pos] /\ ~ pos > Len(t) /\ pos \in Nat
  BY <1>4, <1>8
<1>11. CASE s[pos] # "*"
  BY <1>1, <1>2, <1>7, <1>9, <1>10, <1>11 DEF bad
<1>12. CASE s[pos] = "*"
  <2>1. Find(s, pos) # 0
    BY <1>1, <1>3, <1>7, <1>12
  <2>2. Find(s, pos) \in 1 .. Len(s) - 1 /\ Find(s, pos) >= pos /\ EndAt(s, Find(s, pos))
    BY <1>10, <2>1, FindIs
  <2>3. Find(t, pos) = Find(s, pos)
    BY <1>10, <2>1, FindKept
  <2> DEFINE e == Find(s, pos)
  <2>4. s[e] = CR /\ e # pos /\ e \in 1 .. Len(s) - 1 /\ e >= pos
    BY <1>12, <2>2 DEF EndAt, CR
  <2> HIDE DEF e
  <2>5. /\ pos + 1 \in 1 .. Len(s) /\ e \in pos + 1 .. Len(s)
        /\ pos \in 1 .. Len(t) - 1 /\ t[pos] = "*" /\ t[pos + 1] = s[pos + 1]
    BY <1>4, <1>8, <1>10, <1>12, <2>4
  <2>6. s[pos + 1] \notin Space
    BY <2>5 DEF Numbered
  <2>7. argt = argc
    BY <1>9, <2>4, <2>5, <2>6, AtoiKept
  <2>8. argc \in Int
    BY <1>4, <2>5, AtoiIn
  <2> HIDE DEF argc, argt
  <2>9. CASE argc < 0
    BY <1>1, <1>2, <1>7, <1>9, <1>10, <1>12, <2>1, <2>3, <2>7, <2>9 DEF bad
  <2>10. CASE argc >= 0
    <3>1. Entry(t) = Entry(s)
      BY <1>6, <1>9, <2>3
    <3>2. parse(s) = Par!Fold(s, Entry(s), Turns(argc))
      BY <1>1, <1>7, <1>12, <2>1, <2>8, <2>10
    <3>3. parse(t) = Par!Fold(t, Entry(s), Turns(argc))
      BY <1>2, <1>9, <1>10, <1>12, <2>1, <2>3, <2>7, <2>8, <2>10, <3>1
    <3>4. argc \in Nat
      BY <2>8, <2>10
    <3> QED BY <3>2, <3>3, <3>4, LoopKept
  <2> QED BY <2>8, <2>9, <2>10
<1> QED BY <1>11, <1>12

-----------------------------------------------------------------------------
(* What a client sends. *)

Bytes == Byte \cup ToSet(Digits) \cup {"*", "$", CR, LF}

LEMMA JoinIs ==
    ASSUME NEW S, NEW s \in Seq(S), NEW t \in Seq(S)
    PROVE  /\ s \o t \in Seq(S) /\ Len(s \o t) = Len(s) + Len(t)
           /\ \A i \in 1 .. Len(s) : (s \o t)[i] = s[i]
           /\ \A i \in 1 .. Len(t) : (s \o t)[Len(s) + i] = t[i]
<1> DEFINE y == s \o t
<1>1. /\ y \in Seq(S) /\ Len(y) = Len(s) + Len(t)
      /\ \A i \in 1 .. Len(s) + Len(t) : y[i] = IF i <= Len(s) THEN s[i] ELSE t[i - Len(s)]
  BY ConcatProperties
<1>2. Len(s) \in Nat /\ Len(t) \in Nat
  OBVIOUS
<1>3. \A i \in 1 .. Len(s) : i \in 1 .. Len(s) + Len(t) /\ i <= Len(s)
  BY <1>2
<1>4. \A i \in 1 .. Len(t) :
         Len(s) + i \in 1 .. Len(s) + Len(t) /\ ~ Len(s) + i <= Len(s) /\ (Len(s) + i) - Len(s) = i
  BY <1>2
<1> HIDE DEF y
<1>5. /\ \A i \in 1 .. Len(s) : y[i] = s[i]
      /\ \A i \in 1 .. Len(t) : y[Len(s) + i] = t[i]
  BY <1>1, <1>3, <1>4
<1> QED BY <1>1, <1>5 DEF y

LEMMA HeaderIs ==
    ASSUME NEW mark \in Bytes, NEW n \in Nat
    PROVE  /\ Header(mark, n) \in Seq(Bytes) /\ Len(Header(mark, n)) = Len(Printed[n]) + 3
           /\ Header(mark, n)[1] = mark
           /\ \A i \in 1 .. Len(Printed[n]) : Header(mark, n)[i + 1] = Printed[n][i]
           /\ Header(mark, n)[Len(Printed[n]) + 2] = CR
           /\ Header(mark, n)[Len(Printed[n]) + 3] = LF
<1> DEFINE d == Len(Printed[n])
           x == <<mark>> \o Printed[n]
           h == x \o CRLF
<1>1. Printed[n] \in Seq(Bytes) /\ d \in Nat
  <2>1. Printed[n] \in Seq(ToSet(Digits)) /\ ToSet(Digits) \subseteq Bytes
    BY PrintedIsRead DEF Bytes
  <2> HIDE DEF Bytes
  <2> QED BY <2>1
<1>2. <<mark>> \in Seq(Bytes) /\ Len(<<mark>>) = 1 /\ <<mark>>[1] = mark
  OBVIOUS
<1>3. CRLF \in Seq(Bytes) /\ Len(CRLF) = 2 /\ CRLF[1] = CR /\ CRLF[2] = LF
  <2>1. CR \in Bytes /\ LF \in Bytes
    BY DEF Bytes
  <2> HIDE DEF Bytes
  <2> QED BY <2>1 DEF CRLF
<1>4. x \in Seq(Bytes) /\ Len(x) = 1 + d
  BY <1>1, <1>2, JoinIs
<1>5. \A i \in 1 .. 1 : x[i] = <<mark>>[i]
  BY <1>1, <1>2, JoinIs
<1>6. \A i \in 1 .. d : x[1 + i] = Printed[n][i]
  BY <1>1, <1>2, JoinIs
<1>7. Header(mark, n) = h
  BY DEF Header
<1> HIDE DEF x, d
<1>8. h \in Seq(Bytes) /\ Len(h) = Len(x) + Len(CRLF)
  BY <1>3, <1>4, JoinIs
<1>9. \A i \in 1 .. Len(x) : h[i] = x[i]
  BY <1>3, <1>4, JoinIs
<1>10. \A i \in 1 .. Len(CRLF) : h[Len(x) + i] = CRLF[i]
  <2> DEFINE e == CRLF
  <2>1. e \in Seq(Bytes)
    BY <1>3
  <2> HIDE DEF e
  <2>2. \A i \in 1 .. Len(e) : (x \o e)[Len(x) + i] = e[i]
    BY <1>4, <2>1, JoinIs
  <2> QED BY <2>2 DEF e, h
<1> HIDE DEF h
<1>11. h[1] = mark
  BY <1>1, <1>2, <1>4, <1>5, <1>9
<1>12. \A i \in 1 .. d : h[i + 1] = Printed[n][i]
  BY <1>1, <1>4, <1>6, <1>9
<1>13. h[d + 2] = CR /\ h[d + 3] = LF
  <2>1. h[(1 + d) + 1] = CR /\ h[(1 + d) + 2] = LF
    BY <1>3, <1>4, <1>10
  <2>2. (1 + d) + 1 = d + 2 /\ (1 + d) + 2 = d + 3
    BY <1>1
  <2> QED BY <2>1, <2>2
<1>14. Len(h) = d + 3
  BY <1>1, <1>3, <1>4, <1>8
<1> QED BY <1>7, <1>8, <1>11, <1>12, <1>13, <1>14 DEF d

\* What has arrived behind the first q bytes is what z begins with.
Follows(s, q, z) == \A i \in 1 .. Len(z) : q + i <= Len(s) => s[q + i] = z[i]

(* A count is found and read as soon as its line is complete, not before.  *)
LEMMA HeaderRead ==
    ASSUME NEW s \in Seq(Bytes), NEW q \in 0 .. Len(s), NEW mark \in {"*", "$"}, NEW n \in Nat,
           Follows(s, q, Header(mark, n))
    PROVE  IF Len(s) >= q + Len(Header(mark, n))
           THEN Find(s, q + 1) = q + Len(Header(mark, n)) - 1 /\ atoi(s, q + 2) = n
           ELSE Find(s, q + 1) = 0
<1> DEFINE z == Printed[n]
           d == Len(z)
           h == Header(mark, n)
           f == Find(s, q + 1)
           S0 == ToSet(Digits)
           cr == q + d + 2
<1>1. z \in Seq(S0) /\ z # <<>> /\ Number(z) = n
  BY PrintedIsRead
<1>2. mark \in Bytes
  BY DEF Bytes
<1>3. /\ h \in Seq(Bytes) /\ Len(h) = d + 3 /\ h[1] = mark
      /\ \A i \in 1 .. d : h[i + 1] = z[i]
      /\ h[d + 2] = CR /\ h[d + 3] = LF
  BY <1>2, HeaderIs
<1>4. Len(s) \in Nat /\ q \in Nat /\ d \in Nat /\ d >= 1 /\ q + 1 \in Nat /\ cr \in Nat
  BY <1>1
<1>5. CR \notin S0 /\ "-" \notin S0 /\ \A b \in S0 : b \notin Space
  BY NoDigit
<1>6. mark # CR
  BY DEF CR
<1>7. /\ f = 0 \/ (f \in 1 .. Len(s) - 1 /\ f >= q + 1 /\ EndAt(s, f))
      /\ \A i \in 1 .. Len(s) - 1 : i >= q + 1 /\ EndAt(s, i) => f # 0 /\ f <= i
  BY <1>4, FindIs
<1>8. \A i \in 1 .. d + 3 : q + i <= Len(s) => s[q + i] = h[i]
  BY <1>3 DEF Follows
<1>9. \A i \in 1 .. d : z[i] \in S0
  BY <1>1
<1> HIDE DEF z, d, h, f, S0
<1>10. \A j \in q + 2 .. q + d + 1 : j <= Len(s) => s[j] = z[j - (q + 1)] /\ s[j] \in S0
  <2> TAKE j \in q + 2 .. q + d + 1
  <2> HAVE j <= Len(s)
  <2> DEFINE i == j - (q + 1)
  <2>1. i \in 1 .. d /\ q + (i + 1) = j /\ i + 1 \in 1 .. d + 3
    BY <1>4
  <2>2. s[q + (i + 1)] = h[i + 1]
    BY <1>8, <2>1
  <2>3. h[i + 1] = z[i] /\ z[i] \in S0
    BY <1>3, <1>9, <2>1
  <2> QED BY <2>1, <2>2, <2>3
<1>11. q + 1 <= Len(s) => s[q + 1] = mark
  <2>1. 1 \in 1 .. d + 3
    BY <1>4
  <2> QED BY <1>3, <1>8, <2>1
<1>12. \A j \in q + 1 .. q + d + 1 : j <= Len(s) => s[j] # CR
  <2> TAKE j \in q + 1 .. q + d + 1
  <2> HAVE j <= Len(s)
  <2>1. CASE j = q + 1
    BY <1>6, <1>11, <2>1
  <2>2. CASE j # q + 1
    <3>1. j \in q + 2 .. q + d + 1
      BY <1>4, <2>2
    <3> QED BY <1>5, <1>10, <3>1
  <2> QED BY <2>1, <2>2
<1>13. f # 0 => f >= cr
  <2>1. ASSUME f # 0, ~ f >= cr PROVE FALSE
    <3>1. f \in q + 1 .. q + d + 1 /\ f <= Len(s) /\ s[f] = CR
      BY <1>4, <1>7, <2>1 DEF EndAt
    <3> QED BY <1>12, <3>1
  <2> QED BY <2>1
<1>14. CASE Len(s) >= q + (d + 3)
  <2>1. cr \in 1 .. Len(s) - 1 /\ cr >= q + 1 /\ cr + 1 <= Len(s)
    BY <1>4, <1>14
  <2>2. s[cr] = CR /\ s[cr + 1] = LF
    <3>1. d + 2 \in 1 .. d + 3 /\ d + 3 \in 1 .. d + 3 /\ q + (d + 2) = cr /\ q + (d + 3) = cr + 1
      BY <1>4
    <3> QED BY <1>3, <1>8, <2>1, <3>1
  <2>3. f = cr
    <3>1. f # 0 /\ f <= cr
      BY <1>7, <2>1, <2>2 DEF EndAt
    <3> QED BY <1>4, <1>7, <1>13, <3>1
  <2>4. f = q + Len(h) - 1
    BY <1>3, <1>4, <2>3
  <2>5. atoi(s, q + 2) = n
    <3> DEFINE pos == q + 2
    <3>1. pos \in 1 .. Len(s) /\ pos \in q + 2 .. q + d + 1 /\ pos <= Len(s)
      BY <1>4, <1>14
    <3>2. s[pos] \in S0
      BY <1>10, <3>1
    <3>3. s[pos] \notin Space /\ s[pos] # "-"
      BY <1>5, <3>2
    <3>4. atoi(s, pos) = Number(SubSeq(s, pos, Skip(s, pos, S0) - 1))
      BY <3>1, <3>3, AtoiIs DEF S0
    <3>5. Skip(s, pos, S0) = cr
      <4>1. pos \in 1 .. Len(s) + 1 /\ cr \in pos .. Len(s) + 1
        BY <1>4, <2>1, <3>1
      <4>2. s[cr] \notin S0
        BY <1>5, <2>2
      <4>3. \A j \in pos .. cr - 1 : s[j] \in S0
        <5>1. \A j \in pos .. cr - 1 : j \in q + 2 .. q + d + 1 /\ j <= Len(s)
          BY <1>4, <2>1
        <5> QED BY <1>10, <5>1
      <4> QED BY <4>1, <4>2, <4>3, SkipTo
    <3>6. SubSeq(s, pos, cr - 1) = z
      <4> DEFINE e == cr - 1
                 y == SubSeq(s, pos, e)
      <4>1. pos \in 1 .. Len(s) + 1 /\ e \in pos - 1 .. Len(s) /\ e - pos + 1 = d
        BY <1>4, <2>1, <3>1
      <4>2. y \in Seq(Bytes) /\ Len(y) = d /\ \A i \in 1 .. d : y[i] = s[pos + i - 1]
        <5> HIDE DEF pos, e
        <5>1. y \in Seq(Bytes) /\ Len(y) = e - pos + 1
          BY <4>1, Slice
        <5>2. \A i \in 1 .. e - pos + 1 : y[i] = s[pos + i - 1]
          BY <4>1, Slice
        <5> QED BY <4>1, <5>1, <5>2
      <4> HIDE DEF y
      <4>3. \A i \in 1 .. d : y[i] = z[i]
        <5> TAKE i \in 1 .. d
        <5> DEFINE j == pos + i - 1
        <5>1. j \in q + 2 .. q + d + 1 /\ j <= Len(s) /\ j - (q + 1) = i
          BY <1>4, <2>1
        <5> QED BY <1>10, <4>2, <5>1
      <4>4. y = [i \in 1 .. d |-> y[i]] /\ z = [i \in 1 .. d |-> z[i]]
        BY <1>1, <4>2 DEF d
      <4>5. y = z
        BY <4>3, <4>4
      <4> QED BY <4>5 DEF y
    <3> QED BY <1>1, <3>4, <3>5, <3>6
  <2>6. Len(s) >= q + Len(h)
    BY <1>3, <1>14
  <2> QED BY <2>4, <2>5, <2>6 DEF f, h
<1>15. CASE ~ Len(s) >= q + (d + 3)
  <2>1. f = 0
    BY <1>4, <1>7, <1>13, <1>15
  <2>2. ~ Len(s) >= q + Len(h)
    BY <1>3, <1>15
  <2> QED BY <2>1, <2>2 DEF f, h
<1> QED BY <1>14, <1>15

LEMMA BulkIs ==
    ASSUME NEW w \in Seq(Bytes)
    PROVE  /\ Bulk(w) \in Seq(Bytes)
           /\ Len(Bulk(w)) = (Len(Header("$", Len(w))) + Len(w)) + 2
           /\ \A i \in 1 .. Len(Header("$", Len(w))) : Bulk(w)[i] = Header("$", Len(w))[i]
           /\ \A i \in 1 .. Len(w) : Bulk(w)[Len(Header("$", Len(w))) + i] = w[i]
           /\ Bulk(w)[(Len(Header("$", Len(w))) + Len(w)) + 1] = CR
           /\ Bulk(w)[(Len(Header("$", Len(w))) + Len(w)) + 2] = LF
<1> DEFINE h == Header("$", Len(w))
           x == h \o w
           z == x \o CRLF
<1>1. CRLF \in Seq(Bytes) /\ Len(CRLF) = 2 /\ CRLF[1] = CR /\ CRLF[2] = LF
  <2>1. CR \in Bytes /\ LF \in Bytes
    BY DEF Bytes
  <2> HIDE DEF Bytes
  <2> QED BY <2>1 DEF CRLF
<1>2. h \in Seq(Bytes) /\ Len(w) \in Nat
  <2>1. "$" \in Bytes /\ Len(w) \in Nat
    BY DEF Bytes
  <2> QED BY <2>1, HeaderIs
<1>3. Bulk(w) = z
  BY DEF Bulk
<1> HIDE DEF h
<1>4. Len(h) \in Nat
  BY <1>2
<1>5. x \in Seq(Bytes) /\ Len(x) = Len(h) + Len(w)
  BY <1>2, JoinIs
<1>6. \A i \in 1 .. Len(h) : x[i] = h[i]
  BY <1>2, JoinIs
<1>7. \A i \in 1 .. Len(w) : x[Len(h) + i] = w[i]
  BY <1>2, JoinIs
<1> HIDE DEF x
<1>8. z \in Seq(Bytes) /\ Len(z) = Len(x) + Len(CRLF)
  BY ONLY <1>1, <1>5, JoinIs
<1>9. \A i \in 1 .. Len(x) : z[i] = x[i]
  BY ONLY <1>1, <1>5, JoinIs
<1>10. \A i \in 1 .. Len(CRLF) : z[Len(x) + i] = CRLF[i]
  <2> DEFINE e == CRLF
  <2>1. e \in Seq(Bytes)
    BY <1>1
  <2> HIDE DEF e
  <2>2. \A i \in 1 .. Len(e) : (x \o e)[Len(x) + i] = e[i]
    BY <1>5, <2>1, JoinIs
  <2> QED BY <2>2 DEF e, z
<1> HIDE DEF z
<1>11. \A i \in 1 .. Len(h) : z[i] = h[i]
  BY <1>2, <1>4, <1>5, <1>6, <1>9
<1>12. \A i \in 1 .. Len(w) : z[Len(h) + i] = w[i]
  <2>1. \A i \in 1 .. Len(w) : Len(h) + i \in 1 .. Len(x)
    BY <1>2, <1>4, <1>5
  <2> QED BY <1>7, <1>9, <2>1
<1>13. z[Len(x) + 1] = CR /\ z[Len(x) + 2] = LF
  BY <1>1, <1>10
<1>14. Len(z) = Len(x) + 2
  BY <1>1, <1>8
<1> QED BY <1>3, <1>5, <1>8, <1>11, <1>12, <1>13, <1>14 DEF h

(* An argument is read as soon as it is complete, whatever its bytes are, and
   not before.  *)
LEMMA BulkRead ==
    ASSUME NEW s \in Seq(Bytes), NEW q \in 0 .. Len(s), NEW w \in Seq(Bytes),
           Follows(s, q, Bulk(w)), NEW args
    PROVE  LET r == ReadBulk(s, At("COMPLETE", args, q + 1))
           IN IF Len(s) >= q + Len(Bulk(w))
              THEN r = At("COMPLETE", Append(args, w), (q + Len(Bulk(w))) + 1)
              ELSE r.result = "INCOMPLETE"
<1> DEFINE p == At("COMPLETE", args, q + 1)
           r == ReadBulk(s, p)
           h == Header("$", Len(w))
           z == Bulk(w)
           k == Len(h)
           m == Len(w)
           end == Find(s, q + 1)
           len == atoi(s, q + 2)
           next == end + 2 + len
           late == At("INCOMPLETE", args, q + 1)
<1>1. /\ z \in Seq(Bytes) /\ Len(z) = (k + m) + 2
      /\ \A i \in 1 .. k : z[i] = h[i]
      /\ \A i \in 1 .. m : z[k + i] = w[i]
      /\ z[(k + m) + 1] = CR /\ z[(k + m) + 2] = LF
  BY BulkIs
<1>2. m \in Nat /\ q \in Nat /\ Len(s) \in Nat /\ q <= Len(s)
  OBVIOUS
<1>3. k \in Nat /\ k >= 3 /\ h[1] = "$"
  <2>1. "$" \in Bytes
    BY DEF Bytes
  <2>2. Len(h) = Len(Printed[m]) + 3 /\ h[1] = "$"
    BY <1>2, <2>1, HeaderIs
  <2>3. Len(Printed[m]) \in Nat
    BY <1>2, PrintedIsRead
  <2> HIDE DEF h, m
  <2> QED BY <2>2, <2>3
<1>4. /\ p.pos = q + 1 /\ p.args = args /\ late.result = "INCOMPLETE"
      /\ [p EXCEPT !.result = "INCOMPLETE"] = late
  BY DEF At
<1>5. r = IF q + 1 > Len(s) THEN late
          ELSE IF s[q + 1] # "$" THEN [p EXCEPT !.result = "ERROR"]
          ELSE IF end = 0 THEN late
          ELSE IF len < -1 THEN [p EXCEPT !.result = "ERROR"]
          ELSE IF len = -1 THEN At("COMPLETE", Append(args, <<>>), end + 2)
          ELSE IF next - 1 > Len(s) THEN late
          ELSE At(Trailer(s, next), Append(args, SubSeq(s, end + 2, next - 1)), next + 2)
  <2>1. (q + 1) + 1 = q + 2
    BY <1>2
  <2> HIDE DEF p, late
  <2> QED BY <1>4, <2>1 DEF ReadBulk
<1>6. \A i \in 1 .. Len(z) : q + i <= Len(s) => s[q + i] = z[i]
  BY DEF Follows
<1> HIDE DEF p, r, z, k, late
<1>7. Follows(s, q, h)
  <2>1. \A i \in 1 .. k : i \in 1 .. Len(z)
    BY <1>1, <1>2, <1>3
  <2> QED BY <1>1, <1>6, <2>1 DEF Follows, k
<1>8. IF Len(s) >= q + k THEN end = (q + k) - 1 /\ len = m ELSE end = 0
  <2>1. "$" \in {"*", "$"} /\ m \in Nat
    BY <1>2
  <2>2. IF Len(s) >= q + Len(h) THEN end = q + Len(h) - 1 /\ len = m ELSE end = 0
    BY <1>7, <2>1, HeaderRead
  <2>3. q + Len(h) - 1 = (q + Len(h)) - 1
    BY <1>2, <1>3 DEF k
  <2> QED BY <2>2, <2>3 DEF k
<1>9. q + 1 <= Len(s) => s[q + 1] = "$"
  <2>1. 1 \in 1 .. Len(z) /\ 1 \in 1 .. k
    BY <1>1, <1>2, <1>3
  <2> QED BY <1>1, <1>3, <1>6, <2>1
<1> HIDE DEF end, len, m, h
<1>10. CASE ~ Len(s) >= q + k
  <2>1. r = late
    <3>1. end = 0
      BY <1>8, <1>10
    <3>2. CASE q + 1 > Len(s)
      BY <1>5, <3>2
    <3>3. CASE ~ q + 1 > Len(s)
      <4>1. s[q + 1] = "$"
        BY <1>2, <1>9, <3>3
      <4> QED BY <1>5, <3>1, <3>3, <4>1
    <3> QED BY <3>2, <3>3
  <2>2. ~ Len(s) >= q + Len(z)
    BY <1>1, <1>2, <1>3, <1>10
  <2> QED BY <1>4, <2>1, <2>2 DEF r, p, z
<1>11. CASE Len(s) >= q + k
  <2> DEFINE e == q + k
             nx == (e + 1) + m
  <2>1. end = e - 1 /\ len = m /\ e \in Nat
    BY <1>2, <1>3, <1>8, <1>11
  <2>2. /\ ~ q + 1 > Len(s) /\ s[q + 1] = "$" /\ end # 0 /\ ~ len < -1 /\ len # -1
        /\ end + 2 = e + 1 /\ next = nx
    BY <1>2, <1>3, <1>9, <1>11, <2>1
  <2> HIDE DEF next
  <2>3. r = IF nx - 1 > Len(s) THEN late
            ELSE At(Trailer(s, nx), Append(args, SubSeq(s, e + 1, nx - 1)), nx + 2)
    BY <1>5, <2>2
  <2>4. q + Len(z) = nx + 1 /\ nx \in Nat /\ nx >= 1
    BY <1>1, <1>2, <1>3
  <2>5. CASE nx - 1 > Len(s)
    <3>1. r = late /\ ~ Len(s) >= q + Len(z)
      BY <1>2, <2>3, <2>4, <2>5
    <3> QED BY <1>4, <3>1 DEF r, p, z
  <2>6. CASE ~ nx - 1 > Len(s)
    <3>1. r = At(Trailer(s, nx), Append(args, SubSeq(s, e + 1, nx - 1)), nx + 2)
      BY <2>3, <2>6
    <3>2. CASE nx + 1 > Len(s)
      <4>1. Trailer(s, nx) = "INCOMPLETE"
        BY <3>2 DEF Trailer
      <4>2. r.result = "INCOMPLETE"
        BY <3>1, <4>1 DEF At
      <4>3. ~ Len(s) >= q + Len(z)
        BY <1>2, <2>4, <3>2
      <4> QED BY <4>2, <4>3 DEF r, p, z
    <3>3. CASE ~ nx + 1 > Len(s)
      <4>1. nx \in 1 .. Len(s) - 1
        BY <1>2, <2>4, <3>3
      <4>2. s[nx] = CR /\ s[nx + 1] = LF
        <5>1. /\ (k + m) + 1 \in 1 .. Len(z) /\ (k + m) + 2 \in 1 .. Len(z)
              /\ q + ((k + m) + 1) = nx /\ q + ((k + m) + 2) = nx + 1
          BY <1>1, <1>2, <1>3
        <5> HIDE DEF nx
        <5> QED BY <1>1, <1>2, <1>6, <4>1, <5>1
      <4>3. Trailer(s, nx) = "COMPLETE"
        <5>1. EndAt(s, nx)
          BY <4>2 DEF EndAt
        <5>2. SubSeq(s, nx, nx + 1) = CRLF
          BY <4>1, <5>1, EndIs
        <5> QED BY <3>3, <5>2 DEF Trailer
      <4>4. SubSeq(s, e + 1, nx - 1) = w
        <5> DEFINE a == e + 1
                   b == nx - 1
                   y == SubSeq(s, a, b)
        <5>1. a \in 1 .. Len(s) + 1 /\ b \in a - 1 .. Len(s) /\ b - a + 1 = m /\ a - 1 = q + k
          BY <1>2, <1>3, <1>11, <2>4, <4>1
        <5> HIDE DEF a, b, e, nx
        <5>2. y \in Seq(Bytes) /\ Len(y) = b - a + 1
          BY <5>1, Slice
        <5>3. \A i \in 1 .. b - a + 1 : y[i] = s[a + i - 1]
          BY <5>1, Slice
        <5> HIDE DEF y
        <5>4. \A i \in 1 .. m : y[i] = w[i]
          <6> TAKE i \in 1 .. m
          <6>1. a + i - 1 = q + (k + i) /\ k + i \in 1 .. Len(z) /\ q + (k + i) <= Len(s)
            BY <1>1, <1>2, <1>3, <5>1
          <6>2. y[i] = s[q + (k + i)]
            BY <5>1, <5>3, <6>1
          <6>3. s[q + (k + i)] = z[k + i]
            BY <1>6, <6>1
          <6>4. z[k + i] = w[i]
            BY <1>1
          <6> QED BY <6>2, <6>3, <6>4
        <5>5. y = [i \in 1 .. m |-> y[i]] /\ w = [i \in 1 .. m |-> w[i]]
          BY <5>1, <5>2 DEF m
        <5>6. y = w
          BY <5>4, <5>5
        <5> QED BY <5>6 DEF y, a, b
      <4>5. nx + 2 = (q + Len(z)) + 1 /\ Len(s) >= q + Len(z)
        BY <1>2, <2>4, <3>3
      <4>6. r = At("COMPLETE", Append(args, w), (q + Len(z)) + 1)
        BY <3>1, <4>3, <4>4, <4>5
      <4> QED BY <4>5, <4>6 DEF r, p, z
    <3> QED BY <3>2, <3>3
  <2> QED BY <2>5, <2>6
<1> QED BY <1>10, <1>11

-----------------------------------------------------------------------------
\* c[k]: a request up to and including its argument k.
Builds(args, c) ==
    /\ c[0] = Header("*", Len(args))
    /\ \A k \in 1 .. Len(args) : c[k] = c[k - 1] \o Bulk(args[k])
    /\ Encode(args) = c[Len(args)]

Begins(s, t) == Len(s) <= Len(t) /\ \A i \in 1 .. Len(s) : t[i] = s[i]

LEMMA EncodeBuilds ==
    ASSUME NEW args \in Seq(Seq(Bytes))
    PROVE  \E c : Builds(args, c)
<1> DEFINE n == Len(args)
           base == Header("*", n)
<1>1. Encode(args) = Enc!Fold(0, base, args)
  BY DEF Encode, Attach, Enc!Fold, FoldLeft, Enc!FoldLeft, MapThenFoldSet, Enc!MapThenFoldSet,
     Max, Enc!Max
<1>2. PICK c : Enc!IsRun(0, base, args, c) /\ Enc!Fold(0, base, args) = c[n]
  BY Enc!FoldRuns
<1>3. Builds(args, c)
  BY <1>1, <1>2 DEF Builds, Enc!IsRun, Attach
<1> QED BY <1>3

\* Each part of a request follows what is behind it, and is the beginning of all.
LEMMA Built ==
    ASSUME NEW args \in Seq(Seq(Bytes)), NEW c, Builds(args, c), NEW k \in 0 .. Len(args)
    PROVE  c[k] \in Seq(Bytes) /\ \A j \in 0 .. k : Begins(c[j], c[k])
<1> DEFINE n == Len(args)
           Good(m) == /\ c[m] \in Seq(Bytes)
                      /\ \A j \in 0 .. m : c[j] \in Seq(Bytes) /\ Begins(c[j], c[m])
           G == {m \in 0 .. n : Good(m)}
<1>1. n \in Nat
  OBVIOUS
<1>2. 0 \in G
  <2>1. c[0] \in Seq(Bytes)
    <3>1. "*" \in Bytes
      BY DEF Bytes
    <3> QED BY <1>1, <3>1, HeaderIs DEF Builds
  <2>2. Begins(c[0], c[0])
    BY <2>1 DEF Begins
  <2>3. \A j \in 0 .. 0 : j = 0
    OBVIOUS
  <2>4. Good(0)
    BY <2>1, <2>2, <2>3
  <2> HIDE DEF Good
  <2> QED BY <1>1, <2>4
<1>3. ASSUME NEW m \in 1 .. n, m - 1 \in G PROVE m \in G
  <2> DEFINE s == c[m - 1]
             z == Bulk(args[m])
  <2>1. c[m] = s \o z /\ m \in 0 .. n /\ Good(m - 1)
    <3>1. c[m] = s \o z
      BY DEF Builds
    <3> HIDE DEF Good
    <3>2. m \in 0 .. n /\ Good(m - 1)
      BY <1>3
    <3> QED BY <3>1, <3>2
  <2>2. s \in Seq(Bytes) /\ z \in Seq(Bytes)
    <3>1. args[m] \in Seq(Bytes)
      OBVIOUS
    <3> QED BY <2>1, <3>1, BulkIs
  <2>3. \A j \in 0 .. m - 1 : c[j] \in Seq(Bytes) /\ Begins(c[j], s)
    BY <2>1
  <2> HIDE DEF s, z
  <2>4. /\ s \o z \in Seq(Bytes) /\ Len(s \o z) = Len(s) + Len(z)
        /\ \A i \in 1 .. Len(s) : (s \o z)[i] = s[i]
    BY <2>2, JoinIs
  <2>5. Len(s) \in Nat /\ Len(z) \in Nat
    BY <2>2
  <2>6. Begins(s, c[m])
    BY <2>1, <2>4, <2>5 DEF Begins
  <2>7. c[m] \in Seq(Bytes)
    BY <2>1, <2>4
  <2>8. Begins(c[m], c[m])
    BY <2>7 DEF Begins
  <2>9. \A j \in 0 .. m - 1 : Begins(c[j], c[m])
    <3> TAKE j \in 0 .. m - 1
    <3>1. Begins(c[j], s) /\ Len(c[j]) \in Nat /\ Len(c[m]) \in Nat
      BY <2>3, <2>7
    <3> QED BY <2>5, <2>6, <3>1 DEF Begins
  <2>10. \A j \in 0 .. m : j \in 0 .. m - 1 \/ j = m
    OBVIOUS
  <2>11. Good(m)
    BY <2>3, <2>7, <2>8, <2>9, <2>10
  <2> HIDE DEF Good
  <2> QED BY <2>1, <2>11
<1> HIDE DEF G
<1>4. 0 .. n \subseteq G
  BY <1>1, <1>2, <1>3, Enc!UpTo
<1>5. k \in G
  BY <1>4
<1> QED BY <1>5 DEF G

(* A request is read as soon as its last byte is there, and not before.  *)
LEMMA RequestRead ==
    ASSUME NEW args \in Seq(Seq(Bytes)), NEW s \in Seq(Bytes),
           \A i \in 1 .. Len(Encode(args)) : i <= Len(s) => s[i] = Encode(args)[i]
    PROVE  IF Len(s) >= Len(Encode(args))
           THEN parse(s).result = "COMPLETE" /\ parse(s).args = args
           ELSE parse(s).result = "INCOMPLETE"
<1> DEFINE n == Len(args)
<1>1. PICK c : Builds(args, c)
  BY EncodeBuilds
<1>2. n \in Nat /\ Len(s) \in Nat /\ n \in 0 .. n /\ 0 \in 0 .. n
  OBVIOUS
<1>3. /\ c[0] = Header("*", n) /\ Encode(args) = c[n]
      /\ \A k \in 1 .. n : c[k] = c[k - 1] \o Bulk(args[k])
  BY <1>1 DEF Builds
<1>4. \A k \in 0 .. n : c[k] \in Seq(Bytes) /\ Len(c[k]) \in Nat
  <2>1. \A k \in 0 .. n : c[k] \in Seq(Bytes)
    BY <1>1, Built
  <2> QED BY <2>1
<1>5. \A k \in 0 .. n : \A i \in 1 .. Len(c[k]) : i <= Len(s) => s[i] = c[k][i]
  <2>1. \A k \in 0 .. n : Begins(c[k], c[n])
    BY <1>1, <1>2, Built
  <2>2. \A i \in 1 .. Len(c[n]) : i <= Len(s) => s[i] = c[n][i]
    BY <1>3
  <2> TAKE k \in 0 .. n
  <2> TAKE i \in 1 .. Len(c[k])
  <2> HAVE i <= Len(s)
  <2>3. Len(c[k]) <= Len(c[n]) /\ c[n][i] = c[k][i]
    BY <2>1 DEF Begins
  <2>4. i \in 1 .. Len(c[n])
    BY <1>2, <1>4, <2>3
  <2> QED BY <2>2, <2>3, <2>4
<1>6. \A k \in 1 .. n : args[k] \in Seq(Bytes) /\ Bulk(args[k]) \in Seq(Bytes)
         /\ Len(Bulk(args[k])) \in Nat
  <2> TAKE k \in 1 .. n
  <2>1. args[k] \in Seq(Bytes)
    OBVIOUS
  <2>2. Bulk(args[k]) \in Seq(Bytes)
    BY <2>1, BulkIs
  <2> QED BY <2>1, <2>2
<1>7. \A k \in 1 .. n : k - 1 \in 0 .. n /\ k \in 0 .. n
  BY <1>2
<1> HIDE DEF n
<1>8. ASSUME NEW k \in 1 .. n
      PROVE  /\ Len(c[k]) = Len(c[k - 1]) + Len(Bulk(args[k]))
             /\ Follows(s, Len(c[k - 1]), Bulk(args[k]))
  <2> DEFINE x == c[k - 1]
             z == Bulk(args[k])
  <2>1. x \in Seq(Bytes) /\ z \in Seq(Bytes) /\ Len(x) \in Nat /\ Len(z) \in Nat /\ c[k] = x \o z
    BY <1>3, <1>4, <1>6, <1>7
  <2> HIDE DEF x, z
  <2>2. Len(x \o z) = Len(x) + Len(z) /\ \A i \in 1 .. Len(z) : (x \o z)[Len(x) + i] = z[i]
    BY <2>1, JoinIs
  <2>3. Follows(s, Len(x), z)
    <3>1. \A i \in 1 .. Len(z) : Len(x) + i \in 1 .. Len(c[k])
      BY <2>1, <2>2
    <3> QED BY <1>5, <1>7, <2>1, <2>2, <3>1 DEF Follows
  <2> QED BY <2>1, <2>2, <2>3 DEF x, z
<1> DEFINE h == Len(c[0])
<1>9. h \in Nat /\ h >= 3 /\ c[0][1] = "*"
  <2>1. "*" \in Bytes
    BY DEF Bytes
  <2>2. Len(Header("*", n)) = Len(Printed[n]) + 3 /\ Header("*", n)[1] = "*"
    BY <1>2, <2>1, HeaderIs
  <2>3. Len(Printed[n]) \in Nat
    BY <1>2, PrintedIsRead
  <2> QED BY <1>3, <2>2, <2>3
<1>10. IF Len(s) >= h THEN Find(s, 1) = h - 1 /\ atoi(s, 2) = n ELSE Find(s, 1) = 0
  <2>1. 0 \in 0 .. Len(s) /\ "*" \in {"*", "$"}
    BY <1>2
  <2>2. Follows(s, 0, Header("*", n))
    <3>1. \A i \in 1 .. h : i <= Len(s) => s[i] = c[0][i]
      BY <1>2, <1>5
    <3>2. \A i \in 1 .. h : 0 + i = i
      BY <1>9
    <3> QED BY <1>3, <3>1, <3>2 DEF Follows
  <2>3. IF Len(s) >= 0 + Len(Header("*", n))
        THEN Find(s, 0 + 1) = 0 + Len(Header("*", n)) - 1 /\ atoi(s, 0 + 2) = n
        ELSE Find(s, 0 + 1) = 0
    BY <1>2, <2>1, <2>2, HeaderRead
  <2>4. Len(Header("*", n)) = h
    BY <1>3
  <2>5. 0 + h = h /\ 0 + h - 1 = h - 1 /\ 0 + 1 = 1 /\ 0 + 2 = 2
    BY <1>9
  <2> HIDE DEF h
  <2> QED BY <2>3, <2>4, <2>5
<1>11. Len(s) >= 1 => s[1] = "*" /\ Skip(s, 1, Space) = 1
  <2> HAVE Len(s) >= 1
  <2>1. s[1] = "*"
    <3>1. 1 \in 1 .. h
      BY <1>9
    <3> QED BY <1>2, <1>5, <1>9, <3>1
  <2>2. "*" \notin Space
    BY Zenon DEF Space, CR, LF
  <2>3. 1 \in 1 .. Len(s) + 1 /\ 1 \in 1 .. Len(s) + 1 /\ \A j \in 1 .. 1 - 1 : s[j] \in Space
    BY <1>2
  <2>4. s[1] \notin Space
    BY <2>1, <2>2
  <2> QED BY <2>1, <2>3, <2>4, SkipTo
<1>12. Len(c[n]) >= h
  <2>1. Begins(c[0], c[n])
    BY <1>1, <1>2, Built DEF n
  <2> QED BY <1>2, <1>4, <1>9, <2>1 DEF Begins
<1> DEFINE pos == Skip(s, 1, Space)
<1>13. parse(s) = IF pos > Len(s) THEN At("INCOMPLETE", <<>>, pos)
                  ELSE IF s[pos] # "*" THEN At("ERROR", <<>>, pos)
                  ELSE IF Find(s, pos) = 0 THEN At("INCOMPLETE", <<>>, pos)
                  ELSE IF atoi(s, pos + 1) < 0 THEN At("ERROR", <<>>, pos)
                  ELSE Par!Fold(s, Entry(s), Turns(atoi(s, pos + 1)))
  BY ParseIs
<1>14. CASE ~ Len(s) >= h
  <2>1. parse(s).result = "INCOMPLETE"
    <3>1. CASE ~ Len(s) >= 1
      <4>1. Len(s) = 0 /\ 1 \in 1 .. Len(s) + 1
        BY <1>2, <3>1
      <4>2. pos \in 1 .. Len(s) + 1
        BY <4>1, SkipIs
      <4>3. pos > Len(s)
        BY <4>1, <4>2
      <4> HIDE DEF pos
      <4> QED BY <1>13, <4>3 DEF At
    <3>2. CASE Len(s) >= 1
      <4>1. pos = 1 /\ ~ pos > Len(s) /\ s[pos] = "*" /\ Find(s, pos) = 0
        BY <1>2, <1>10, <1>11, <1>14, <3>2
      <4> HIDE DEF pos
      <4> QED BY <1>13, <4>1 DEF At
    <3> QED BY <3>1, <3>2
  <2>2. ~ Len(s) >= Len(Encode(args))
    BY <1>2, <1>3, <1>4, <1>9, <1>12, <1>14
  <2> QED BY <2>1, <2>2
<1>15. CASE Len(s) >= h
  <2>1. pos = 1 /\ s[1] = "*" /\ Find(s, 1) = h - 1 /\ atoi(s, 2) = n /\ Len(s) >= 1
    BY <1>2, <1>9, <1>10, <1>11, <1>15
  <2>2. Entry(s) = At("COMPLETE", <<>>, h + 1)
    <3>1. (h - 1) + 2 = h + 1
      BY <1>9
    <3> HIDE DEF h
    <3> QED BY <2>1, <3>1 DEF Entry, pos
  <2> DEFINE z == Turns(n)
  <2>3. parse(s) = Par!Fold(s, Entry(s), z)
    <3>1. /\ ~ 1 > Len(s) /\ ~ s[1] # "*" /\ Find(s, 1) # 0 /\ 1 + 1 = 2
          /\ ~ n < 0
      BY <1>2, <1>9, <2>1
    <3> HIDE DEF pos, z
    <3> QED BY <1>13, <2>1, <3>1 DEF z
  <2>4. z \in Seq(Nat) /\ Len(z) = n
    BY <1>2, TurnsSeq
  <2> HIDE DEF z, pos
  <2>5. PICK run : Par!IsRun(s, Entry(s), z, run) /\ Par!Fold(s, Entry(s), z) = run[n]
    BY <2>4, Par!FoldRuns
  <2>6. run[0] = Entry(s) /\ \A m \in 1 .. n : run[m] = Turn(s, run[m - 1], z[m])
    BY <2>4, <2>5 DEF Par!IsRun
  <2> DEFINE J(m) == IF Len(s) >= Len(c[m])
                     THEN run[m] = At("COMPLETE", SubSeq(args, 1, m), Len(c[m]) + 1)
                     ELSE run[m].result = "INCOMPLETE"
             G == {m \in 0 .. n : J(m)}
  <2>7. 0 \in G
    <3>1. SubSeq(args, 1, 0) = <<>>
      OBVIOUS
    <3>2. J(0)
      BY <1>15, <2>2, <2>6, <3>1
    <3> HIDE DEF J
    <3> QED BY <1>2, <3>2
  <2>8. ASSUME NEW m \in 1 .. n, m - 1 \in G PROVE m \in G
    <3> DEFINE q == Len(c[m - 1])
               w == args[m]
               a == SubSeq(args, 1, m - 1)
               p == run[m - 1]
    <3>1. m \in 0 .. n /\ J(m - 1)
      <4> HIDE DEF J
      <4> QED BY <1>7, <2>8
    <3>2. IF Len(s) >= q THEN p = At("COMPLETE", a, q + 1) ELSE p.result = "INCOMPLETE"
      BY <3>1
    <3>3. q \in Nat /\ w \in Seq(Bytes) /\ Len(Bulk(w)) \in Nat /\ Len(c[m]) = q + Len(Bulk(w))
      BY <1>4, <1>6, <1>7, <1>8
    <3>4. SubSeq(args, 1, m) = Append(a, w)
      <4>1. m \in 1 .. Len(args)
        BY DEF n
      <4> QED BY <4>1, OneElementMore
    <3>5. Follows(s, q, Bulk(w))
      BY <1>8
    <3>6. run[m] = Turn(s, p, z[m])
      BY <2>6
    <3> HIDE DEF q, w, a, p
    <3>7. CASE ~ Len(s) >= q
      <4>1. run[m].result = "INCOMPLETE"
        BY <3>2, <3>6, <3>7 DEF Turn
      <4>2. ~ Len(s) >= Len(c[m])
        BY <1>2, <3>3, <3>7
      <4>3. J(m)
        BY <4>1, <4>2
      <4> HIDE DEF J
      <4> QED BY <3>1, <4>3
    <3>8. CASE Len(s) >= q
      <4>1. run[m] = ReadBulk(s, At("COMPLETE", a, q + 1))
        BY <3>2, <3>6, <3>8 DEF Turn, At
      <4>2. q \in 0 .. Len(s)
        BY <1>2, <3>3, <3>8
      <4>3. IF Len(s) >= q + Len(Bulk(w))
            THEN run[m] = At("COMPLETE", Append(a, w), (q + Len(Bulk(w))) + 1)
            ELSE run[m].result = "INCOMPLETE"
        <5> HIDE DEF J
        <5> DEFINE r == ReadBulk(s, At("COMPLETE", a, q + 1))
        <5>1. IF Len(s) >= q + Len(Bulk(w))
              THEN r = At("COMPLETE", Append(a, w), (q + Len(Bulk(w))) + 1)
              ELSE r.result = "INCOMPLETE"
          BY <3>3, <3>5, <4>2, BulkRead
        <5> HIDE DEF r
        <5>2. run[m] = r
          BY <4>1 DEF r
        <5> QED BY <5>1, <5>2
      <4>4. J(m)
        BY <3>3, <3>4, <4>3
      <4> HIDE DEF J
      <4> QED BY <3>1, <4>4
    <3> QED BY <3>7, <3>8
  <2> HIDE DEF G
  <2>9. 0 .. n \subseteq G
    BY <1>2, <2>7, <2>8, Par!UpTo
  <2>10. n \in G
    BY <1>2, <2>9
  <2>11. J(n)
    BY <2>10 DEF G
  <2>12. SubSeq(args, 1, n) = args
    BY DEF n
  <2>13. parse(s) = run[n] /\ Len(Encode(args)) = Len(c[n])
    BY <1>3, <2>3, <2>5
  <2>14. IF Len(s) >= Len(c[n]) THEN run[n] = At("COMPLETE", args, Len(c[n]) + 1)
         ELSE run[n].result = "INCOMPLETE"
    BY <2>11, <2>12
  <2> HIDE DEF J
  <2> QED BY <2>13, <2>14 DEF At
<1> QED BY <1>14, <1>15

-----------------------------------------------------------------------------
ParserTypeOK == request \in Requests /\ message \in Seq(Bytes) /\ input \in Seq(Bytes)

LEMMA RequestsAreSeqs == \A args \in Requests : args \in Seq(Seq(Bytes))
<1> TAKE args \in Requests
<1>1. PICK n \in 0 .. MaxArgs : args \in [1 .. n -> Word]
  BY DEF Requests
<1>2. Word \subseteq Seq(Byte) /\ MaxArgs \in Nat
  BY ParserAssumption
<1>3. Byte \subseteq Bytes
  BY DEF Bytes
<1> HIDE DEF Bytes
<1>4. Word \subseteq Seq(Bytes)
  BY <1>2, <1>3
<1>5. args \in [1 .. n -> Seq(Bytes)] /\ n \in Nat
  BY <1>1, <1>2, <1>4
<1> QED BY <1>5

LEMMA EncodeSeq == ASSUME NEW args \in Requests PROVE Encode(args) \in Seq(Bytes)
<1>1. args \in Seq(Seq(Bytes))
  BY RequestsAreSeqs
<1>2. PICK c : Builds(args, c)
  BY <1>1, EncodeBuilds
<1>3. Len(args) \in 0 .. Len(args)
  BY <1>1
<1>4. c[Len(args)] \in Seq(Bytes)
  BY <1>1, <1>2, <1>3, Built
<1> QED BY <1>2, <1>4 DEF Builds

(* The arguments are some the client may send, and what it sends and what has
   arrived of it are sequences of bytes, whatever is wrong with them.  *)
LEMMA ParserTypes == ParserSpec => []ParserTypeOK
<1>1. ParserInit => ParserTypeOK
  <2> SUFFICES ASSUME ParserInit PROVE ParserTypeOK
    OBVIOUS
  <2>1. request \in Requests /\ input = <<>>
    BY DEF ParserInit
  <2> DEFINE m == Encode(request)
  <2>2. m \in Seq(Bytes) /\ Len(m) \in Nat
    <3>1. m \in Seq(Bytes)
      BY <2>1, EncodeSeq
    <3> QED BY <3>1
  <2>3. PICK rest \in {<<>>, m}, x \in Edits(m) : message = x \o rest
    BY DEF ParserInit
  <2>4. rest \in Seq(Bytes)
    <3> HIDE DEF m, Bytes
    <3>1. rest = <<>> \/ rest = m
      BY <2>3
    <3>2. <<>> \in Seq(Bytes)
      OBVIOUS
    <3> QED BY <2>2, <3>1, <3>2, Zenon
  <2>5. x \in Seq(Bytes)
    <3>1. PICK i \in 0 .. Len(m), k \in {1, 2}, y \in Noise \cup {<<>>} :
             x = SubSeq(m, 1, i) \o y \o SubSeq(m, i + k, Len(m))
      <4> DEFINE F(i, k, y) == SubSeq(m, 1, i) \o y \o SubSeq(m, i + k, Len(m))
                 B == Noise \cup {<<>>}
      <4> HIDE DEF m
      <4>3. Edits(m) = {F(i, k, y) : i \in 0 .. Len(m), k \in {1, 2}, y \in B}
        BY DEF Edits
      <4> HIDE DEF F, B
      <4>1. x \in {F(i, k, y) : i \in 0 .. Len(m), k \in {1, 2}, y \in B}
        BY <2>3, <4>3
      <4>2. \E i \in 0 .. Len(m), k \in {1, 2}, y \in B : x = F(i, k, y)
        BY <4>1
      <4> QED BY <4>2 DEF F, B
    <3>2. y \in Seq(Bytes)
      <4>1. Noise \subseteq Seq(Byte) /\ Byte \subseteq Bytes
        BY ParserAssumption DEF Bytes
      <4> HIDE DEF Bytes
      <4>2. y = <<>> \/ y \in Seq(Byte)
        BY <3>1, <4>1
      <4>3. <<>> \in Seq(Bytes) /\ (y \in Seq(Byte) => y \in Seq(Bytes))
        BY <4>1
      <4> QED BY <4>2, <4>3, Zenon
    <3>3. SubSeq(m, 1, i) \in Seq(Bytes) /\ SubSeq(m, i + k, Len(m)) \in Seq(Bytes)
      <4> HIDE DEF m
      <4>1. \A j \in 1 .. i : m[j] \in Bytes
        BY <2>2
      <4>2. \A j \in i + k .. Len(m) : m[j] \in Bytes
        BY <2>2
      <4>3. 1 \in Int /\ i \in Int /\ i + k \in Int /\ Len(m) \in Int
        BY <2>2
      <4> QED BY <4>1, <4>2, <4>3, SubSeqProperties
    <3> HIDE DEF m
    <3>4. SubSeq(m, 1, i) \o y \in Seq(Bytes)
      BY <3>2, <3>3
    <3> QED BY <3>1, <3>3, <3>4
  <2> HIDE DEF m
  <2>6. message \in Seq(Bytes)
    BY <2>3, <2>4, <2>5
  <2> QED BY <2>1, <2>6 DEF ParserTypeOK
<1>2. ParserTypeOK /\ [Receive]_vars => ParserTypeOK'
  <2> SUFFICES ASSUME ParserTypeOK, [Receive]_vars PROVE ParserTypeOK'
    OBVIOUS
  <2>1. CASE Receive
    <3>1. Len(input) + 1 \in 1 .. Len(message)
      BY <2>1 DEF Receive, ParserTypeOK
    <3>2. message[Len(input) + 1] \in Bytes
      BY <3>1 DEF ParserTypeOK
    <3> QED BY <2>1, <3>2 DEF Receive, ParserTypeOK
  <2>2. CASE UNCHANGED vars
    BY <2>2 DEF vars, ParserTypeOK
  <2> QED BY <2>1, <2>2
<1> QED BY <1>1, <1>2, PTL DEF ParserSpec

(* However TCP cuts what a client sends, a verdict of the parser stands: of a
   buffer found complete or wrong, no byte behind it changes the outcome or
   the arguments.  *)
THEOREM VerdictsStand == ParserSpec => VerdictIsFinal
<1>1. ASSUME ParserTypeOK, [Receive]_vars
      PROVE  [parse(input).result # "INCOMPLETE" /\ Numbered(input')
                => parse(input') = parse(input)]_vars
  <2> SUFFICES ASSUME Receive, parse(input).result # "INCOMPLETE", Numbered(input')
               PROVE  parse(input') = parse(input)
    BY <1>1
  <2> DEFINE b == message[Len(input) + 1]
  <2>1. input \in Seq(Bytes) /\ b \in Bytes /\ input' = Append(input, b)
    <3>1. input \in Seq(Bytes) /\ message \in Seq(Bytes) /\ input' = Append(input, b)
             /\ Len(input) < Len(message)
      BY <1>1 DEF Receive, ParserTypeOK
    <3>2. Len(input) + 1 \in 1 .. Len(message)
      BY <3>1
    <3> QED BY <3>1, <3>2
  <2> HIDE DEF b
  <2> DEFINE s == input
             t == input'
  <2>2. s \in Seq(Bytes) /\ t \in Seq(Bytes) /\ Len(s) <= Len(t)
           /\ \A i \in 1 .. Len(s) : t[i] = s[i]
    BY <2>1, OneByteMore
  <2>3. parse(s).result # "INCOMPLETE" /\ Numbered(t)
    OBVIOUS
  <2> HIDE DEF s, t
  <2>4. parse(t) = parse(s)
    BY <2>2, <2>3, ParseKept
  <2> QED BY <2>4 DEF s, t
<1> QED BY <1>1, ParserTypes, PTL DEF ParserSpec, VerdictIsFinal

(* A request is incomplete up to its last byte and then gives back the
   arguments, for arguments of any bytes, any number of them and any length.  *)
THEOREM RequestsAreRead == ParserSpec => []RequestsSurviveCuts
<1>1. ASSUME ParserTypeOK PROVE RequestsSurviveCuts
  <2> DEFINE whole == Encode(request)
  <2>1. request \in Seq(Seq(Bytes)) /\ input \in Seq(Bytes) /\ whole \in Seq(Bytes)
    BY <1>1, RequestsAreSeqs, EncodeSeq DEF ParserTypeOK
  <2> DEFINE Agree == \A i \in 1 .. Len(whole) : i <= Len(input) => input[i] = whole[i]
  <2>2. ASSUME Agree
        PROVE  IF Len(input) >= Len(whole)
               THEN parse(input).result = "COMPLETE" /\ parse(input).args = request
               ELSE parse(input).result = "INCOMPLETE"
    BY <2>1, <2>2, RequestRead
  <2> HIDE DEF whole
  <2>3. Len(input) \in Nat /\ Len(whole) \in Nat
    BY <2>1
  <2>4. ASSUME NEW x \in Seq(Bytes), NEW y \in Seq(Bytes), IsPrefix(x, y)
        PROVE  Len(x) <= Len(y) /\ \A i \in 1 .. Len(x) : x[i] = y[i]
    <3>1. Len(x) <= Len(y) /\ SubSeq(x, 1, Len(x)) = SubSeq(y, 1, Len(x))
      BY <2>4 DEF IsPrefix
    <3>2. \A i \in 1 .. Len(x) : SubSeq(x, 1, Len(x))[i] = x[i] /\ SubSeq(y, 1, Len(x))[i] = y[i]
      BY <3>1
    <3> QED BY <3>1, <3>2
  <2>5. IsStrictPrefix(input, whole) => parse(input).result = "INCOMPLETE"
    <3> HAVE IsStrictPrefix(input, whole)
    <3>1. IsPrefix(input, whole) /\ input # whole
      BY DEF IsStrictPrefix
    <3>2. Len(input) <= Len(whole) /\ \A i \in 1 .. Len(input) : input[i] = whole[i]
      BY <2>1, <2>4, <3>1
    <3>3. Agree
      BY <2>3, <3>2
    <3>4. ~ Len(input) >= Len(whole)
      <4> SUFFICES ASSUME Len(input) >= Len(whole) PROVE FALSE
        OBVIOUS
      <4>1. Len(input) = Len(whole)
        BY <2>3, <3>2
      <4>2. input = [i \in 1 .. Len(input) |-> input[i]]
               /\ whole = [i \in 1 .. Len(whole) |-> whole[i]]
        BY <2>1
      <4>3. input = whole
        BY <3>2, <4>1, <4>2
      <4> QED BY <3>1, <4>3
    <3> QED BY <2>2, <3>3, <3>4
  <2>6. IsPrefix(whole, input) => parse(input).result = "COMPLETE" /\ parse(input).args = request
    <3> HAVE IsPrefix(whole, input)
    <3>1. Len(whole) <= Len(input) /\ \A i \in 1 .. Len(whole) : whole[i] = input[i]
      BY <2>1, <2>4
    <3>2. Agree /\ Len(input) >= Len(whole)
      BY <2>3, <3>1
    <3> QED BY <2>2, <3>2
  <2> QED BY <2>5, <2>6 DEF RequestsSurviveCuts, whole
<1> QED BY <1>1, ParserTypes, PTL
=============================================================================
