---------------------------- MODULE VectorLemmas ----------------------------
(***************************************************************************)
(* What insertion and removal in the middle of a std::vector do to its     *)
(* elements, the two arguments about numbers that proofs about a position  *)
(* or a length come down to, sequences cut and joined, folds over them,    *)
(* and the elements of a set put in some order.                            *)
(***************************************************************************)
EXTENDS Integers, Sequences, SequencesExt, SequenceTheorems, WellFoundedInduction, FiniteSetTheorems, TLAPS

CONSTANT Combine(_, _, _)   \* what the last section folds with

(* A search has a first hit.  *)
LEMMA Least ==
    ASSUME NEW T \in SUBSET Nat, T # {}
    PROVE  \E x \in T : \A y \in T : x <= y
<1>1. PICK x \in T : \A y \in T : ~ (<<y, x>> \in OpToRel(<, Nat))
  BY NatLessThanWellFounded, WFMin
<1>2. \A y \in T : ~ (y < x)
  BY <1>1 DEF OpToRel
<1> QED BY <1>2

(* Induction up to n, over a set of numbers.  *)
LEMMA UpTo ==
    ASSUME NEW n \in Nat, NEW G,
           0 \in G,
           \A m \in 1 .. n : m - 1 \in G => m \in G
    PROVE  0 .. n \subseteq G
<1> DEFINE T == {m \in 0 .. n : m \notin G}
<1> SUFFICES ASSUME T # {} PROVE FALSE
  OBVIOUS
<1>1. T \in SUBSET Nat
  OBVIOUS
<1>2. PICK m \in T : \A j \in T : m <= j
  BY <1>1, Least
<1>3. m \in 1 .. n /\ m - 1 \in 0 .. n /\ ~ (m <= m - 1)
  BY <1>2
<1>4. m - 1 \in G
  BY <1>2, <1>3
<1> QED BY <1>2, <1>3, <1>4

(* What is in the vector after an insertion in the middle.  *)
LEMMA Inserted ==
    ASSUME NEW S, NEW data \in Seq(S), NEW i \in 1 .. Len(data) + 1, NEW n \in S
    PROVE  LET new == InsertAt(data, i, n)
           IN /\ new \in Seq(S)
              /\ Len(new) = Len(data) + 1
              /\ \A j \in 1 .. i - 1 : new[j] = data[j]
              /\ new[i] = n
              /\ \A j \in i + 1 .. Len(data) + 1 : new[j] = data[j - 1]
<1> DEFINE front == SubSeq(data, 1, i - 1)
           back  == SubSeq(data, i, Len(data))
<1>1. /\ front \in Seq(S) /\ Len(front) = i - 1
      /\ \A j \in 1 .. i - 1 : front[j] = data[j]
  BY SubSeqProperties, ElementOfSeq
<1>2. /\ back \in Seq(S) /\ Len(back) = Len(data) - i + 1
      /\ \A j \in 1 .. Len(data) - i + 1 : back[j] = data[i + j - 1]
  BY SubSeqProperties, ElementOfSeq
<1> HIDE DEF front, back
<1>3. /\ front \o <<n>> \in Seq(S) /\ Len(front \o <<n>>) = i
      /\ \A j \in 1 .. i - 1 : (front \o <<n>>)[j] = data[j]
      /\ (front \o <<n>>)[i] = n
  <2>1. <<n>> \in Seq(S) /\ Len(<<n>>) = 1 /\ <<n>>[1] = n
    OBVIOUS
  <2> QED BY <1>1, <2>1, ConcatProperties
<1> DEFINE most == front \o <<n>>
<1> HIDE DEF most
<1>4. /\ most \o back \in Seq(S)
      /\ Len(most \o back) = Len(most) + Len(back)
      /\ \A j \in 1 .. Len(most) + Len(back) :
            (most \o back)[j] = IF j <= Len(most) THEN most[j] ELSE back[j - Len(most)]
  <2>1. most \in Seq(S)
    BY <1>3 DEF most
  <2> HIDE DEF front, back
  <2> QED BY <1>2, <2>1, ConcatProperties
<1>5. InsertAt(data, i, n) = most \o back
  BY DEF InsertAt, front, back, most
<1>6. /\ Len(most) = i
      /\ \A j \in 1 .. i - 1 : most[j] = data[j]
      /\ most[i] = n
  BY <1>3 DEF most
<1>7. \A j \in i + 1 .. Len(data) + 1 : (most \o back)[j] = data[j - 1]
  <2> TAKE j \in i + 1 .. Len(data) + 1
  <2>1. (most \o back)[j] = back[j - i]
    BY <1>2, <1>4, <1>6
  <2>2. j - i \in 1 .. Len(data) - i + 1 /\ i + (j - i) - 1 = j - 1
    OBVIOUS
  <2> QED BY <1>2, <2>1, <2>2
<1>8. \A j \in 1 .. i : (most \o back)[j] = most[j]
  BY <1>2, <1>4, <1>6
<1> QED BY <1>2, <1>4, <1>5, <1>6, <1>7, <1>8

(* ... and after a removal.  *)
LEMMA Erased ==
    ASSUME NEW S, NEW data \in Seq(S), NEW i \in 1 .. Len(data)
    PROVE  LET new == RemoveAt(data, i)
           IN /\ new \in Seq(S)
              /\ Len(new) = Len(data) - 1
              /\ \A j \in 1 .. i - 1 : new[j] = data[j]
              /\ \A j \in i .. Len(data) - 1 : new[j] = data[j + 1]
<1> DEFINE front == SubSeq(data, 1, i - 1)
           back  == SubSeq(data, i + 1, Len(data))
<1>1. /\ front \in Seq(S) /\ Len(front) = i - 1
      /\ \A j \in 1 .. i - 1 : front[j] = data[j]
  BY SubSeqProperties, ElementOfSeq
<1>2. /\ back \in Seq(S) /\ Len(back) = Len(data) - i
      /\ \A j \in 1 .. Len(data) - i : back[j] = data[i + j]
  BY SubSeqProperties, ElementOfSeq
<1> HIDE DEF front, back
<1>3. /\ front \o back \in Seq(S)
      /\ Len(front \o back) = Len(front) + Len(back)
      /\ \A j \in 1 .. Len(front) + Len(back) :
            (front \o back)[j] = IF j <= Len(front) THEN front[j] ELSE back[j - Len(front)]
  BY <1>1, <1>2, ConcatProperties
<1>4. RemoveAt(data, i) = front \o back
  BY DEF RemoveAt, front, back
<1>5. \A j \in i .. Len(data) - 1 : (front \o back)[j] = data[j + 1]
  <2> TAKE j \in i .. Len(data) - 1
  <2>1. (front \o back)[j] = back[j - (i - 1)]
    BY <1>1, <1>2, <1>3
  <2>2. j - (i - 1) \in 1 .. Len(data) - i /\ i + (j - (i - 1)) = j + 1
    OBVIOUS
  <2> QED BY <1>2, <2>1, <2>2
<1>6. \A j \in 1 .. i - 1 : (front \o back)[j] = data[j]
  BY <1>1, <1>2, <1>3
<1>7. Len(front \o back) = Len(data) - 1
  <2>1. Len(data) \in Nat
    OBVIOUS
  <2> QED BY <1>1, <1>2, <1>3, <2>1
<1> QED BY <1>3, <1>4, <1>5, <1>6, <1>7

-----------------------------------------------------------------------------
(* Sequences of any elements, which is all that is known of replies. *)

IsSeq(s) == s \in Seq(ToSet(s))

LEMMA SeqIsSeq == ASSUME NEW S, NEW s \in Seq(S) PROVE IsSeq(s) /\ ToSet(s) \subseteq S
<1>1. \A i \in 1 .. Len(s) : s[i] \in ToSet(s)
  BY DEF ToSet
<1>2. ToSet(s) \subseteq S
  BY DEF ToSet
<1>3. s \in [1 .. Len(s) -> ToSet(s)] /\ Len(s) \in Nat
  BY <1>1
<1> HIDE DEF IsSeq
<1>4. s \in Seq(ToSet(s))
  BY <1>3
<1> QED BY <1>2, <1>4 DEF IsSeq

LEMMA IsSeqOver == ASSUME NEW s, IsSeq(s), NEW S, ToSet(s) \subseteq S PROVE s \in Seq(S)
<1>1. s \in Seq(ToSet(s))
  BY DEF IsSeq
<1> QED BY <1>1

LEMMA Concats ==
    ASSUME NEW s, NEW t, IsSeq(s), IsSeq(t)
    PROVE  IsSeq(s \o t) /\ ToSet(s \o t) \subseteq ToSet(s) \cup ToSet(t)
<1> DEFINE S == ToSet(s) \cup ToSet(t)
<1>1. s \in Seq(S) /\ t \in Seq(S)
  BY IsSeqOver
<1> HIDE DEF S
<1>2. s \o t \in Seq(S)
  BY <1>1, ConcatProperties
<1> QED BY <1>2, SeqIsSeq DEF S

LEMMA Regroup ==
    ASSUME NEW s, NEW t, NEW u, IsSeq(s), IsSeq(t), IsSeq(u)
    PROVE  (s \o t) \o u = s \o (t \o u)
<1> DEFINE S == ToSet(s) \cup ToSet(t) \cup ToSet(u)
<1>1. s \in Seq(S) /\ t \in Seq(S) /\ u \in Seq(S)
  BY IsSeqOver
<1> HIDE DEF S
<1> QED BY <1>1, ConcatAssociative

RegroupsAll(s, t, u, v) == (s \o (t \o u)) \o v = s \o (t \o (u \o v))

LEMMA RegroupFour ==
    ASSUME NEW s, NEW t, NEW u, NEW v, IsSeq(s), IsSeq(t), IsSeq(u), IsSeq(v)
    PROVE  RegroupsAll(s, t, u, v)
<1>1. IsSeq(t \o u)
  BY Concats
<1> DEFINE p == t \o u
<1>2. IsSeq(p)
  BY <1>1
<1> HIDE DEF p
<1>3. (s \o p) \o v = s \o (p \o v)
  BY <1>2, Regroup
<1>4. (t \o u) \o v = t \o (u \o v)
  BY Regroup
<1> QED BY <1>3, <1>4 DEF RegroupsAll, p

-----------------------------------------------------------------------------
(* Sequences of sequences joined into one. *)

\* The function FlattenSeq is defined by, over the first n of s.
JoinsUp(s, n, it) == it = [i \in 1 .. n |-> IF i = 1 THEN s[i] ELSE it[i - 1] \o s[i]]

LEMMA JoinExists == ASSUME NEW s, NEW n \in Nat PROVE \E it : JoinsUp(s, n, it)
<1> DEFINE G == {m \in 0 .. n : \E it : JoinsUp(s, m, it)}
<1>1. 0 \in G
  <2>1. JoinsUp(s, 0, [i \in 1 .. 0 |-> 0])
    BY DEF JoinsUp
  <2> QED BY <2>1
<1>2. ASSUME NEW m \in 1 .. n, m - 1 \in G PROVE m \in G
  <2>1. PICK it : JoinsUp(s, m - 1, it)
    BY <1>2
  <2> DEFINE jt == [i \in 1 .. m |-> IF i = 1 THEN s[i] ELSE it[i - 1] \o s[i]]
  <2>2. \A i \in 1 .. m - 1 : it[i] = IF i = 1 THEN s[i] ELSE it[i - 1] \o s[i]
    BY <2>1 DEF JoinsUp
  <2>3. \A i \in 1 .. m - 1 : jt[i] = it[i]
    BY <2>2
  <2>4. \A i \in 1 .. m : i # 1 => i - 1 \in 1 .. m - 1
    OBVIOUS
  <2>5. jt = [i \in 1 .. m |-> IF i = 1 THEN s[i] ELSE jt[i - 1] \o s[i]]
    <3>1. \A i \in 1 .. m : i # 1 => jt[i - 1] = it[i - 1]
      BY <2>3, <2>4
    <3> HIDE DEF jt
    <3>2. jt = [i \in 1 .. m |-> IF i = 1 THEN s[i] ELSE it[i - 1] \o s[i]]
      BY DEF jt
    <3> QED BY <3>1, <3>2
  <2> HIDE DEF jt
  <2>6. JoinsUp(s, m, jt)
    BY <2>5 DEF JoinsUp
  <2> QED BY <2>6
<1>3. 0 .. n \subseteq G
  <2> HIDE DEF G
  <2> QED BY <1>1, <1>2, UpTo
<1> QED BY <1>3

LEMMA JoinUnique ==
    ASSUME NEW s, NEW n \in Nat, NEW it, JoinsUp(s, n, it), NEW jt, JoinsUp(s, n, jt)
    PROVE  it = jt
<1> DEFINE G == {m \in 0 .. n : m = 0 \/ it[m] = jt[m]}
<1>1. /\ DOMAIN it = 1 .. n /\ it = [i \in DOMAIN it |-> it[i]]
      /\ DOMAIN jt = 1 .. n /\ jt = [i \in DOMAIN jt |-> jt[i]]
      /\ \A i \in 1 .. n : it[i] = IF i = 1 THEN s[i] ELSE it[i - 1] \o s[i]
      /\ \A i \in 1 .. n : jt[i] = IF i = 1 THEN s[i] ELSE jt[i - 1] \o s[i]
  BY DEF JoinsUp
<1>2. ASSUME NEW m \in 1 .. n, m - 1 \in G PROVE m \in G
  <2>1. it[m] = IF m = 1 THEN s[m] ELSE it[m - 1] \o s[m]
    BY <1>1
  <2>2. jt[m] = IF m = 1 THEN s[m] ELSE jt[m - 1] \o s[m]
    BY <1>1
  <2>3. m # 1 => it[m - 1] = jt[m - 1]
    BY <1>2
  <2>4. it[m] = jt[m]
    BY <2>1, <2>2, <2>3
  <2> QED BY <2>4
<1>3. 0 .. n \subseteq G
  <2>1. 0 \in G
    OBVIOUS
  <2> HIDE DEF G
  <2> QED BY <2>1, <1>2, UpTo
<1>4. \A i \in 1 .. n : it[i] = jt[i]
  BY <1>3
<1> QED BY <1>1, <1>4

(* One sequence more lengthens the whole by that sequence. *)
LEMMA FlattenAppend ==
    ASSUME NEW S, NEW s \in Seq(Seq(S)), NEW x \in Seq(S)
    PROVE  FlattenSeq(Append(s, x)) = FlattenSeq(s) \o x
<1> DEFINE n == Len(s)
           t == Append(s, x)
           it == CHOOSE f : JoinsUp(s, n, f)
           jt == CHOOSE f : JoinsUp(t, n + 1, f)
<1>1. /\ n \in Nat /\ Len(t) = n + 1 /\ t[n + 1] = x
      /\ \A i \in 1 .. n : t[i] = s[i]
  BY AppendProperties
<1>2. FlattenSeq(t) = jt[n + 1]
  <2>1. Len(t) # 0
    BY <1>1
  <2>2. FlattenSeq(t) = (CHOOSE f : JoinsUp(t, Len(t), f))[Len(t)]
    BY <2>1 DEF FlattenSeq, JoinsUp
  <2> QED BY <1>1, <2>2
<1>3. n # 0 => FlattenSeq(s) = it[n]
  BY DEF FlattenSeq, JoinsUp
<1> HIDE DEF n, t
<1>4. JoinsUp(s, n, it) /\ JoinsUp(t, n + 1, jt)
  <2>1. JoinsUp(s, n, it)
    BY <1>1, JoinExists
  <2>2. n + 1 \in Nat
    BY <1>1
  <2>3. \E f : JoinsUp(t, n + 1, f)
    BY <2>2, JoinExists
  <2> QED BY <2>1, <2>3
<1> HIDE DEF it, jt
<1>5. \A i \in 1 .. n + 1 : jt[i] = IF i = 1 THEN t[i] ELSE jt[i - 1] \o t[i]
  BY <1>4 DEF JoinsUp
<1>6. CASE n = 0
  <2>1. FlattenSeq(s) = <<>>
    BY <1>6 DEF FlattenSeq, n
  <2>2. FlattenSeq(t) = x
    BY <1>1, <1>2, <1>5, <1>6
  <2> QED BY <2>1, <2>2, ConcatEmptySeq DEF t
<1>7. CASE n # 0
  <2> DEFINE kt == [i \in 1 .. n |-> jt[i]]
  <2>1. JoinsUp(s, n, kt)
    <3>1. \A i \in 1 .. n : jt[i] = IF i = 1 THEN s[i] ELSE jt[i - 1] \o s[i]
      BY <1>1, <1>5
    <3>2. \A i \in 1 .. n : i # 1 => i - 1 \in 1 .. n
      BY <1>1
    <3>3. \A i \in 1 .. n : i # 1 => kt[i - 1] = jt[i - 1]
      BY <3>2
    <3>4. kt = [i \in 1 .. n |-> IF i = 1 THEN s[i] ELSE kt[i - 1] \o s[i]]
      BY <3>1, <3>3
    <3> QED BY <3>4 DEF JoinsUp
  <2>2. kt = it
    <3> HIDE DEF kt
    <3> QED BY <1>1, <1>4, <2>1, JoinUnique
  <2>3. n \in 1 .. n /\ n + 1 \in 1 .. n + 1 /\ n + 1 # 1 /\ n + 1 - 1 = n
    BY <1>1, <1>7
  <2>4. jt[n] = it[n]
    BY <2>2, <2>3
  <2>5. jt[n + 1] = jt[n] \o x
    <3>1. ASSUME NEW i \in 1 .. n + 1, i # 1, i - 1 = n PROVE jt[i] = jt[n] \o t[i]
      BY <1>5, <3>1
    <3> QED BY <1>1, <2>3, <3>1
  <2> QED BY <1>2, <1>3, <1>7, <2>4, <2>5 DEF t
<1> QED BY <1>6, <1>7
-----------------------------------------------------------------------------
\* A set of positions has a largest one.
LEMMA MaxIn ==
    ASSUME NEW n \in Nat, NEW s \in SUBSET (1 .. n), s # {}
    PROVE  Max(s) \in s /\ \A y \in s : y <= Max(s)
<1> DEFINE T == {n - x : x \in s}
<1>1. T \in SUBSET Nat /\ T # {}
  <2>1. PICK x \in s : TRUE
    OBVIOUS
  <2>2. \A y \in s : y \in Nat /\ n - y \in Nat
    OBVIOUS
  <2> QED BY <2>1, <2>2
<1>2. PICK t \in T : \A u \in T : t <= u
  BY <1>1, Least
<1>3. PICK x \in s : t = n - x
  BY <1>2
<1>4. \A y \in s : x >= y
  <2> TAKE y \in s
  <2>1. n - y \in T
    OBVIOUS
  <2> QED BY <1>2, <1>3, <2>1
<1>5. \E z \in s : \A y \in s : z >= y
  BY <1>4
<1> QED BY <1>5 DEF Max

(* Folds: Combine is given a parameter p, what it has so far and an element. *)

Fold(p, base, z) == FoldLeft(LAMBDA x, e : Combine(p, x, e), base, z)

\* What a fold has got before and after each of the elements.
IsRun(p, base, z, run) ==
    /\ run[0] = base
    /\ \A m \in 1 .. Len(z) : run[m] = Combine(p, run[m - 1], z[m])

(* FoldLeft is defined by a recursion over sets of positions.  It has a
   solution, because it has one on the sets of at most k, for every k.  *)
LEMMA FoldRuns ==
    ASSUME NEW p, NEW base, NEW S, NEW z \in Seq(S)
    PROVE  \E run : IsRun(p, base, z, run) /\ Fold(p, base, z) = run[Len(z)]
<1> DEFINE n == Len(z)
           Put(x, i) == Combine(p, x, z[i])
           Layer(k) == {s \in SUBSET (1 .. n) : Cardinality(s) <= k}
           Solves(it, L) ==
              it = [s \in L |-> IF s = {} THEN base ELSE Put(it[s \ {Max(s)}], Max(s))]
<1>1. n \in Nat /\ DOMAIN z = 1 .. n
  OBVIOUS
<1>2. \A s \in SUBSET (1 .. n) : IsFiniteSet(s) /\ Cardinality(s) \in Nat /\ Cardinality(s) <= n
  <2> TAKE s \in SUBSET (1 .. n)
  <2>1. IsFiniteSet(1 .. n) /\ Cardinality(1 .. n) <= n
    BY <1>1, FS_Interval
  <2>2. IsFiniteSet(s) /\ Cardinality(s) <= Cardinality(1 .. n)
    BY <2>1, FS_Subset
  <2>3. Cardinality(s) \in Nat /\ Cardinality(1 .. n) \in Nat
    BY <2>1, <2>2, FS_CardinalityType
  <2> QED BY <1>1, <2>1, <2>2, <2>3
<1>3. Fold(p, base, z) = (CHOOSE it : Solves(it, SUBSET (1 .. n)))[1 .. n]
  BY <1>1 DEF Fold, FoldLeft, MapThenFoldSet
<1> HIDE DEF n, Put
<1>4. ASSUME NEW k \in Nat, NEW it, Solves(it, Layer(k))
      PROVE  \E new : Solves(new, Layer(k + 1))
  <2> DEFINE new == [s \in Layer(k + 1) |->
                       IF s = {} THEN base ELSE Put(it[s \ {Max(s)}], Max(s))]
  <2>1. \A s \in Layer(k) : new[s] = it[s]
    <3>1. Layer(k) \subseteq Layer(k + 1)
      BY <1>2
    <3> HIDE DEF Layer
    <3> QED BY <1>4, <3>1
  <2>2. \A s \in Layer(k + 1) : s # {} => s \ {Max(s)} \in Layer(k)
    <3> TAKE s \in Layer(k + 1)
    <3> HAVE s # {}
    <3>1. Max(s) \in s
      BY <1>1, MaxIn
    <3>2. /\ s \in SUBSET (1 .. n) /\ Cardinality(s) <= k + 1
          /\ IsFiniteSet(s) /\ Cardinality(s) \in Nat
      BY <1>2
    <3>3. Cardinality(s \ {Max(s)}) = Cardinality(s) - 1
      BY <3>1, <3>2, FS_RemoveElement
    <3>4. Cardinality(s \ {Max(s)}) <= k
      BY <3>2, <3>3
    <3>5. s \ {Max(s)} \in SUBSET (1 .. n)
      BY <3>2
    <3> QED BY <3>4, <3>5
  <2> HIDE DEF Layer
  <2>3. \A s \in Layer(k + 1) : new[s] =
            IF s = {} THEN base ELSE Put(new[s \ {Max(s)}], Max(s))
    BY <2>1, <2>2
  <2>4. Solves(new, Layer(k + 1))
    BY <2>3
  <2> QED BY <2>4
<1>5. \E it : Solves(it, Layer(0))
  <2> DEFINE it == [s \in Layer(0) |-> base]
  <2>1. \A s \in Layer(0) : s = {}
    BY <1>2, FS_EmptySet
  <2> HIDE DEF Layer
  <2>2. Solves(it, Layer(0))
    BY <2>1
  <2> QED BY <2>2
<1> HIDE DEF Solves
<1>6. \E it : Solves(it, Layer(n))
  <2> DEFINE G == {k \in Nat : \E it : Solves(it, Layer(k))}
  <2>1. 0 \in G
    BY <1>5
  <2>2. ASSUME NEW k \in 1 .. n, k - 1 \in G PROVE k \in G
    <3>1. k \in Nat /\ k - 1 \in Nat /\ (k - 1) + 1 = k
      BY <1>1
    <3>2. \E it : Solves(it, Layer((k - 1) + 1))
      BY <1>4, <2>2, <3>1
    <3> QED BY <3>1, <3>2
  <2> HIDE DEF G
  <2>3. 0 .. n \subseteq G
    BY <1>1, <2>1, <2>2, UpTo
  <2>4. n \in G
    BY <1>1, <2>3
  <2> QED BY <2>4 DEF G
<1>7. Layer(n) = SUBSET (1 .. n)
  BY <1>2
<1>8. PICK it : it = (CHOOSE x : Solves(x, SUBSET (1 .. n))) /\ Solves(it, SUBSET (1 .. n))
  BY <1>1, <1>6, <1>7
<1> DEFINE run == [m \in 0 .. n |-> it[1 .. m]]
<1>9. \A s \in SUBSET (1 .. n) :
         it[s] = IF s = {} THEN base ELSE Put(it[s \ {Max(s)}], Max(s))
  BY <1>8 DEF Solves
<1>10. run[0] = base
  <2>1. 1 .. 0 = {} /\ 0 \in 0 .. n
    BY <1>1
  <2> QED BY <1>9, <2>1
<1>11. ASSUME NEW m \in 1 .. n
       PROVE  run[m] = Put(run[m - 1], m)
  <2>1. (1 .. m) \in SUBSET (1 .. n) /\ m \in 1 .. m /\ m \in Nat
    BY <1>1
  <2>2. Max(1 .. m) = m
    <3>1. Max(1 .. m) \in 1 .. m /\ \A y \in 1 .. m : y <= Max(1 .. m)
      BY <2>1, MaxIn
    <3> QED BY <2>1, <3>1
  <2>3. (1 .. m) \ {m} = 1 .. m - 1
    BY <2>1
  <2>4. it[1 .. m] = Put(it[1 .. m - 1], m)
    BY <1>9, <2>1, <2>2, <2>3
  <2> QED BY <1>1, <2>4
<1>12. Fold(p, base, z) = run[n]
  BY <1>1, <1>3, <1>8
<1> HIDE DEF run
<1> QED BY <1>10, <1>11, <1>12 DEF IsRun, n, Put

\* It has only one.
LEMMA RunUnique ==
    ASSUME NEW p, NEW base, NEW S, NEW z \in Seq(S), NEW run, NEW other,
           IsRun(p, base, z, run), IsRun(p, base, z, other),
           NEW n \in 0 .. Len(z)
    PROVE  run[n] = other[n]
<1> DEFINE G == {m \in 0 .. n : run[m] = other[m]}
<1>1. n \in Nat /\ Len(z) \in Nat
  OBVIOUS
<1>2. 0 \in G
  BY <1>1 DEF IsRun
<1>3. ASSUME NEW m \in 1 .. n, m - 1 \in G PROVE m \in G
  <2>1. m \in 1 .. Len(z) /\ m \in 0 .. n
    BY <1>1
  <2>2. run[m] = Combine(p, run[m - 1], z[m]) /\ other[m] = Combine(p, other[m - 1], z[m])
    BY <2>1 DEF IsRun
  <2> QED BY <1>3, <2>1, <2>2
<1> HIDE DEF G
<1>4. 0 .. n \subseteq G
  BY <1>1, <1>2, <1>3, UpTo
<1>5. n \in G
  BY <1>1, <1>4
<1> QED BY <1>5 DEF G

LEMMA FoldNothing == \A p, base : Fold(p, base, <<>>) = base
<1> TAKE p, base
<1>1. <<>> \in Seq({}) /\ Len(<<>>) = 0
  OBVIOUS
<1>2. PICK run : IsRun(p, base, <<>>, run) /\ Fold(p, base, <<>>) = run[0]
  BY <1>1, FoldRuns
<1> QED BY <1>2 DEF IsRun

(* One element more is one application more.  *)
LEMMA FoldOneMore ==
    ASSUME NEW p, NEW base, NEW S, NEW z \in Seq(S), NEW e \in S
    PROVE  Fold(p, base, Append(z, e)) = Combine(p, Fold(p, base, z), e)
<1> DEFINE n == Len(z)
           longer == Append(z, e)
<1>1. /\ longer \in Seq(S) /\ Len(longer) = n + 1 /\ n \in Nat
      /\ \A m \in 1 .. n : longer[m] = z[m]
      /\ longer[n + 1] = e
  OBVIOUS
<1> HIDE DEF longer
<1>2. PICK run : IsRun(p, base, z, run) /\ Fold(p, base, z) = run[n]
  BY FoldRuns
<1>3. PICK more : IsRun(p, base, longer, more) /\ Fold(p, base, longer) = more[n + 1]
  BY <1>1, FoldRuns
<1>4. IsRun(p, base, z, more)
  <2>1. \A m \in 1 .. n : m \in 1 .. n + 1
    BY <1>1
  <2> QED BY <1>1, <1>3, <2>1 DEF IsRun
<1>5. more[n] = run[n]
  BY <1>1, <1>2, <1>4, RunUnique
<1>6. more[n + 1] = Combine(p, more[(n + 1) - 1], longer[n + 1]) /\ (n + 1) - 1 = n
  <2>1. n + 1 \in 1 .. Len(longer)
    BY <1>1
  <2> QED BY <1>1, <1>3, <2>1 DEF IsRun
<1> QED BY <1>1, <1>2, <1>3, <1>5, <1>6 DEF longer

\* The fold of the first elements is what the run has got after them.
LEMMA FoldPrefix ==
    ASSUME NEW p, NEW base, NEW S, NEW z \in Seq(S), NEW run, IsRun(p, base, z, run),
           NEW n \in 0 .. Len(z)
    PROVE  Fold(p, base, SubSeq(z, 1, n)) = run[n]
<1> DEFINE y == SubSeq(z, 1, n)
<1>1. /\ n \in Nat /\ Len(z) \in Nat
      /\ y \in Seq(S) /\ Len(y) = n /\ \A m \in 1 .. n : y[m] = z[m]
  <2>1. n \in Nat /\ 1 \in 1 .. Len(z) + 1 /\ n \in 0 .. Len(z) /\ n <= Len(z)
    OBVIOUS
  <2>2. y \in Seq(S) /\ Len(y) = n
    BY <2>1
  <2>3. \A m \in 1 .. n : y[m] = z[m]
    BY <2>1
  <2> QED BY <2>1, <2>2, <2>3
<1> HIDE DEF y
<1>2. \A m \in 1 .. n : m \in 1 .. Len(z)
  BY <1>1
<1>3. IsRun(p, base, y, run)
  BY <1>1, <1>2 DEF IsRun
<1>4. PICK other : IsRun(p, base, y, other) /\ Fold(p, base, y) = other[Len(y)]
  BY <1>1, FoldRuns
<1>5. other[n] = run[n]
  <2>1. n \in 0 .. Len(y)
    BY <1>1
  <2> QED BY <1>1, <1>3, <1>4, <2>1, RunUnique
<1> QED BY <1>1, <1>4, <1>5 DEF y

\* A fold of two sequences is that of the second from where the first has got.
LEMMA FoldConcat ==
    ASSUME NEW p, NEW base, NEW S, NEW z \in Seq(S), NEW t \in Seq(S)
    PROVE  Fold(p, base, z \o t) = Fold(p, Fold(p, base, z), t)
<1> DEFINE n == Len(z)
           k == Len(t)
           whole == z \o t
<1>1. /\ n \in Nat /\ k \in Nat /\ whole \in Seq(S) /\ Len(whole) = n + k
      /\ \A m \in 1 .. n : whole[m] = z[m]
      /\ \A m \in 1 .. k : whole[n + m] = t[m]
  <2>1. /\ n \in Nat /\ k \in Nat /\ whole \in Seq(S) /\ Len(whole) = n + k
        /\ \A m \in 1 .. n + k : whole[m] = IF m <= n THEN z[m] ELSE t[m - n]
    BY ConcatProperties
  <2>2. \A m \in 1 .. k : n + m \in 1 .. n + k /\ ~ (n + m <= n) /\ (n + m) - n = m
    BY <2>1
  <2>3. \A m \in 1 .. n : m \in 1 .. n + k /\ m <= n
    BY <2>1
  <2> HIDE DEF n, k, whole
  <2> QED BY <2>1, <2>2, <2>3
<1> HIDE DEF whole
<1>2. PICK run : IsRun(p, base, whole, run) /\ Fold(p, base, whole) = run[n + k]
  <2>1. whole \in Seq(S)
    BY <1>1
  <2>2. \E run : IsRun(p, base, whole, run) /\ Fold(p, base, whole) = run[Len(whole)]
    BY ONLY <2>1, FoldRuns, Zenon
  <2> QED BY <1>1, <2>2
<1>3. PICK more : IsRun(p, Fold(p, base, z), t, more)
                  /\ Fold(p, Fold(p, base, z), t) = more[k]
  BY FoldRuns
<1>4. Fold(p, base, z) = run[n]
  <2>1. PICK other : IsRun(p, base, z, other) /\ Fold(p, base, z) = other[n]
    BY FoldRuns
  <2>2. \A m \in 1 .. n : m \in 1 .. n + k
    BY <1>1
  <2>3. IsRun(p, base, z, run)
    BY <1>1, <1>2, <2>2 DEF IsRun
  <2>4. n \in 0 .. Len(z)
    BY <1>1
  <2> QED BY <2>1, <2>3, <2>4, RunUnique
<1> DEFINE rest == [m \in 0 .. k |-> run[n + m]]
<1>5. IsRun(p, run[n], t, rest)
  <2>1. rest[0] = run[n]
    BY <1>1
  <2>2. ASSUME NEW m \in 1 .. k
        PROVE  rest[m] = Combine(p, rest[m - 1], t[m])
    <3>1. n + m \in 1 .. n + k /\ (n + m) - 1 = n + (m - 1) /\ m \in 0 .. k /\ m - 1 \in 0 .. k
      BY <1>1
    <3>2. run[n + m] = Combine(p, run[(n + m) - 1], whole[n + m])
      BY <1>1, <1>2, <3>1 DEF IsRun
    <3> QED BY <1>1, <3>1, <3>2
  <2> HIDE DEF rest
  <2> QED BY <2>1, <2>2 DEF IsRun
<1>6. rest[k] = run[n + k]
  BY <1>1
<1> HIDE DEF rest
<1>7. rest[k] = more[k]
  <2>1. k \in 0 .. Len(t)
    BY <1>1
  <2> QED BY <1>3, <1>4, <1>5, <2>1, RunUnique
<1> QED BY <1>2, <1>3, <1>6, <1>7 DEF whole

-----------------------------------------------------------------------------
LEMMA OneTo == ASSUME NEW n \in Nat PROVE IsFiniteSet(1 .. n) /\ Cardinality(1 .. n) = n
<1>1. IsFiniteSet(1 .. n) /\ Cardinality(1 .. n) = IF 1 > n THEN 0 ELSE n - 1 + 1
  BY FS_Interval
<1>2. (IF 1 > n THEN 0 ELSE n - 1 + 1) = n
  OBVIOUS
<1> QED BY <1>1, <1>2

(* SetToSeq lists the elements of a finite set, each once.  *)
LEMMA SetListed ==
    ASSUME NEW S, IsFiniteSet(S)
    PROVE  LET z == SetToSeq(S)
           IN /\ z \in Seq(S) /\ Len(z) = Cardinality(S)
              /\ \A i, j \in 1 .. Len(z) : z[i] = z[j] => i = j
              /\ \A e \in S : \E i \in 1 .. Len(z) : z[i] = e
<1> DEFINE n == Cardinality(S)
           z == SetToSeq(S)
<1>1. n \in Nat /\ \E f : f \in Bijection(1 .. n, S)
  BY FS_CardinalityType DEF ExistsBijection
<1>2. \E f : f \in [1 .. n -> S] /\ IsInjective(f)
  BY <1>1 DEF Bijection, Injection
<1>3. z \in [1 .. n -> S] /\ IsInjective(z)
  BY <1>2 DEF SetToSeq
<1> HIDE DEF z, n
<1>4. z \in Seq(S) /\ Len(z) = n
  BY <1>1, <1>3
<1>5. \A i, j \in 1 .. n : z[i] = z[j] => i = j
  BY <1>3 DEF IsInjective
<1>6. \A e \in S : \E i \in 1 .. n : z[i] = e
  <2>1. z \in Injection(1 .. n, S)
    BY <1>3 DEF Injection
  <2>2. IsFiniteSet(1 .. n) /\ Cardinality(1 .. n) = n
    BY <1>1, FS_Interval
  <2>3. z \in Surjection(1 .. n, S)
    <3>1. Cardinality(1 .. n) = Cardinality(S)
      BY <2>2 DEF n
    <3> QED BY <2>1, <3>1, FS_Injection
  <2> QED BY <2>3 DEF Surjection
<1> QED BY <1>4, <1>5, <1>6 DEF z, n

(* Pairs joined: the elements come in the order of the pairs.  *)
LEMMA FlattenPairs ==
    ASSUME NEW S, NEW s \in Seq(Seq(S)), \A i \in 1 .. Len(s) : Len(s[i]) = 2
    PROVE  LET z == FlattenSeq(s)
           IN /\ z \in Seq(S) /\ Len(z) = 2 * Len(s)
              /\ \A i \in 1 .. Len(s) : z[2 * i - 1] = s[i][1] /\ z[2 * i] = s[i][2]
<1> DEFINE n == Len(s)
           it == CHOOSE f : JoinsUp(s, n, f)
<1>1. n \in Nat /\ \A i \in 1 .. n : s[i] \in Seq(S) /\ Len(s[i]) = 2
  BY ElementOfSeq
<1>2. JoinsUp(s, n, it)
  BY <1>1, JoinExists
<1>3. CASE n = 0
  <2>1. FlattenSeq(s) = s /\ s = <<>>
    BY <1>3 DEF FlattenSeq
  <2> QED BY <1>1, <1>3, <2>1
<1>4. CASE n # 0
  <2>1. FlattenSeq(s) = it[n]
    BY <1>4 DEF FlattenSeq, JoinsUp
  <2> HIDE DEF it, n
  <2> DEFINE Good(m) ==
        /\ it[m] \in Seq(S) /\ Len(it[m]) = 2 * m
        /\ \A i \in 1 .. m : it[m][2 * i - 1] = s[i][1] /\ it[m][2 * i] = s[i][2]
             G == {m \in 0 .. n : m = 0 \/ Good(m)}
  <2>2. 0 \in G
    BY <1>1
  <2>3. ASSUME NEW m \in 1 .. n, m - 1 \in G
        PROVE  m \in G
    <3>1. m \in Nat /\ m \in 0 .. n /\ s[m] \in Seq(S) /\ Len(s[m]) = 2
      BY <1>1
    <3>2. it[m] = IF m = 1 THEN s[m] ELSE it[m - 1] \o s[m]
      BY <1>2 DEF JoinsUp
    <3>3. CASE m = 1
      BY <3>1, <3>2, <3>3
    <3>4. CASE m # 1
      <4> DEFINE a == it[m - 1]
                 b == s[m]
                 c == it[m]
      <4>1. m - 1 \in Nat /\ m - 1 # 0 /\ Good(m - 1)
        BY <2>3, <3>1, <3>4
      <4>2. c = a \o b /\ a \in Seq(S) /\ b \in Seq(S) /\ Len(a) = 2 * m - 2 /\ Len(b) = 2
        <5>1. c = a \o b
          BY <3>2, <3>4
        <5>2. 2 * (m - 1) = 2 * m - 2
          BY <3>1
        <5> HIDE DEF a, c
        <5> QED BY <3>1, <4>1, <5>1, <5>2 DEF a
      <4>3. \A i \in 1 .. m - 1 : a[2 * i - 1] = s[i][1] /\ a[2 * i] = s[i][2]
        BY <4>1
      <4> HIDE DEF a, b, c, Good, G
      <4>4. /\ c \in Seq(S) /\ Len(c) = 2 * m
            /\ \A i \in 1 .. 2 * m : c[i] = IF i <= 2 * m - 2 THEN a[i] ELSE b[i - (2 * m - 2)]
        <5>1. /\ c \in Seq(S) /\ Len(c) = Len(a) + Len(b)
              /\ \A i \in 1 .. Len(a) + Len(b) : c[i] = IF i <= Len(a) THEN a[i] ELSE b[i - Len(a)]
          BY <4>2, ConcatProperties
        <5>2. Len(a) + Len(b) = 2 * m
          BY <3>1, <4>2
        <5> QED BY <4>2, <5>1, <5>2
      <4>5. ASSUME NEW i \in 1 .. m - 1
            PROVE  c[2 * i - 1] = s[i][1] /\ c[2 * i] = s[i][2]
        <5>1. /\ 2 * i - 1 \in 1 .. 2 * m /\ 2 * i \in 1 .. 2 * m
              /\ 2 * i - 1 <= 2 * m - 2 /\ 2 * i <= 2 * m - 2
          BY <3>1
        <5> QED BY <4>3, <4>4, <5>1
      <4>6. c[2 * m - 1] = b[1] /\ c[2 * m] = b[2]
        <5>1. /\ 2 * m - 1 \in 1 .. 2 * m /\ 2 * m \in 1 .. 2 * m
              /\ ~ (2 * m - 1 <= 2 * m - 2) /\ ~ (2 * m <= 2 * m - 2)
              /\ (2 * m - 1) - (2 * m - 2) = 1 /\ 2 * m - (2 * m - 2) = 2
          BY <3>1
        <5> QED BY <4>4, <5>1
      <4>7. \A i \in 1 .. m : i \in 1 .. m - 1 \/ i = m
        BY <3>1
      <4> QED BY <3>1, <4>4, <4>5, <4>6, <4>7 DEF b, c, Good, G
    <3> QED BY <3>3, <3>4
  <2>4. n \in G
    <3> HIDE DEF G
    <3>1. 0 .. n \subseteq G
      BY <1>1, <2>2, <2>3, UpTo
    <3> QED BY <1>1, <3>1
  <2>5. Good(n)
    BY <1>4, <2>4
  <2> QED BY <2>1, <2>5 DEF n
<1> QED BY <1>3, <1>4
=============================================================================
