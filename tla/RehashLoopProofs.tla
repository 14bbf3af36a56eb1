-------------------------- MODULE RehashLoopProofs --------------------------
(***************************************************************************)
(* The loops of rehash_step compute what the formula of DictOps says, for  *)
(* every table and every number of rounds.  The invariant: the object is   *)
(* the start with the buckets up to rehashidx_ passed, the rounds used up  *)
(* are those buckets that held a node, the empty visits are the others,    *)
(* and the formula would have left the loop at none of them.               *)
(***************************************************************************)
EXTENDS RehashLoop, FiniteSetTheorems, TLAPS

\* The loop has come to bucket j of the start, and the formula is not done.
At(j) ==
    /\ is_rehashing(start) /\ start.used > 0
    /\ j \in start.rehashidx .. start.ht0.size
    /\ d = PassBuckets(start, j)
    /\ empty_visits = (j - start.rehashidx) - Cardinality(Occupied(start, j))
    /\ \A i \in start.rehashidx .. j-1 : ~ LeavesLoopAt(start, arg, i)

IInv ==
    /\ start \in Starts /\ arg \in Args
    /\ \/ /\ pc = "rounds"
          /\ \/ d = start /\ n = arg /\ empty_visits = 0
             \/ /\ At(d.rehashidx)
                /\ n = arg - Cardinality(Occupied(start, d.rehashidx))
                /\ d.rehashidx > start.rehashidx
                /\ start.ht0.bucket[d.rehashidx - 1] # {}
       \/ /\ pc = "visit"
          /\ At(d.rehashidx)
          /\ n = arg - Cardinality(Occupied(start, d.rehashidx)) - 1
          /\ ~ LeavesLoopAt(start, arg, d.rehashidx)
       \/ pc = "returned" /\ d = rehash_step(start, arg)

LEMMA Calls ==
    ASSUME NEW s \in Starts
    PROVE  /\ s.ht0.size \in Nat /\ s.ht1.size \in Nat /\ s.used \in Nat
           /\ s.rehashidx \in Int /\ s.rehashidx <= s.ht0.size
           /\ is_rehashing(s) => s.rehashidx \in Nat
BY CallAssumption DEF is_rehashing

LEMMA CallTables ==
    ASSUME NEW s \in Starts, NEW h \in {s.ht0, s.ht1}
    PROVE  /\ h = [size |-> h.size, bucket |-> h.bucket]
           /\ h.bucket = [i \in 0 .. h.size-1 |-> h.bucket[i]]
BY RecordAssumption

\* Passing no bucket changes nothing.
LEMMA PassNone ==
    ASSUME NEW s \in Starts
    PROVE  PassBuckets(s, s.rehashidx) = s
<1> DEFINE j == s.rehashidx
           passed == j .. j-1
           moved == UNION {s.ht0.bucket[i] : i \in passed}
           left == [i \in 0 .. s.ht0.size-1 |->
                      IF i \in passed THEN {} ELSE s.ht0.bucket[i]]
           filled == [i \in 0 .. s.ht1.size-1 |->
                        s.ht1.bucket[i] \cup {e \in moved : Slot(s.ht1, e.key) = i}]
<1>1. passed = {}
  BY Calls
<1>2. moved = {}
  BY <1>1
<1>3. left = s.ht0.bucket /\ filled = s.ht1.bucket
  BY <1>1, <1>2, CallTables
<1>4. PassBuckets(s, j) = Record([size |-> s.ht0.size, bucket |-> left],
                                [size |-> s.ht1.size, bucket |-> filled], s.used, j)
  BY DEF PassBuckets
<1>5. s = Record(s.ht0, s.ht1, s.used, j)
  BY RecordAssumption
<1>6. /\ [size |-> s.ht0.size, bucket |-> s.ht0.bucket] = s.ht0
      /\ [size |-> s.ht1.size, bucket |-> s.ht1.bucket] = s.ht1
  BY CallTables
<1> QED BY <1>3, <1>4, <1>5, <1>6

(* Occupied buckets, counted one after the other.  *)
LEMMA OccupiedNone ==
    ASSUME NEW s, s.rehashidx \in Int
    PROVE  Cardinality(Occupied(s, s.rehashidx)) = 0
<1>1. Occupied(s, s.rehashidx) = {}
  BY DEF Occupied
<1> QED BY <1>1, FS_EmptySet

LEMMA OccupiedCounted ==
    ASSUME NEW s, s.rehashidx \in Int, NEW j \in Int
    PROVE  IsFiniteSet(Occupied(s, j)) /\ Cardinality(Occupied(s, j)) \in Nat
<1>1. IsFiniteSet(s.rehashidx .. j-1)
  BY FS_Interval
<1>2. Occupied(s, j) \subseteq s.rehashidx .. j-1
  BY DEF Occupied
<1> QED BY <1>1, <1>2, FS_Subset, FS_CardinalityType

LEMMA OccupiedNext ==
    ASSUME NEW s, s.rehashidx \in Int, NEW j \in Int, s.rehashidx <= j
    PROVE  Cardinality(Occupied(s, j + 1)) =
              Cardinality(Occupied(s, j)) + (IF s.ht0.bucket[j] = {} THEN 0 ELSE 1)
<1>1. IsFiniteSet(Occupied(s, j)) /\ Cardinality(Occupied(s, j)) \in Nat
  BY OccupiedCounted
<1>2. CASE s.ht0.bucket[j] = {}
  <2>1. Occupied(s, j + 1) = Occupied(s, j)
    BY <1>2 DEF Occupied
  <2> QED BY <1>1, <1>2, <2>1
<1>3. CASE s.ht0.bucket[j] # {}
  <2>1. Occupied(s, j + 1) = Occupied(s, j) \cup {j} /\ j \notin Occupied(s, j)
    BY <1>3 DEF Occupied
  <2>2. Cardinality(Occupied(s, j) \cup {j}) = Cardinality(Occupied(s, j)) + 1
    BY <1>1, <2>1, FS_AddElement
  <2> QED BY <1>3, <2>1, <2>2
<1> QED BY <1>2, <1>3

\* What SkipBucket and MoveBucket do to the object p.
PassOne(p) ==
    LET chain == p.ht0.bucket[p.rehashidx]
        old == [i \in 0 .. p.ht0.size-1 |->
                  IF i = p.rehashidx THEN {} ELSE p.ht0.bucket[i]]
        new == [i \in 0 .. p.ht1.size-1 |->
                  p.ht1.bucket[i] \cup {e \in chain : Slot(p.ht1, e.key) = i}]
    IN IF chain = {} THEN [p EXCEPT !.rehashidx = @ + 1]
       ELSE Record([size |-> p.ht0.size, bucket |-> old],
                   [size |-> p.ht1.size, bucket |-> new], p.used, p.rehashidx + 1)

(* Passing one bucket more than j - 1 is passing bucket j.  *)
LEMMA PassNext ==
    ASSUME NEW s \in Starts, is_rehashing(s), NEW j \in s.rehashidx .. s.ht0.size-1
    PROVE  /\ PassBuckets(s, j).ht0.bucket[j] = s.ht0.bucket[j]
           /\ PassBuckets(s, j + 1) = PassOne(PassBuckets(s, j))
<1> DEFINE passed(k) == s.rehashidx .. k-1
           moved(k)  == UNION {s.ht0.bucket[i] : i \in passed(k)}
           left(k)   == [i \in 0 .. s.ht0.size-1 |->
                           IF i \in passed(k) THEN {} ELSE s.ht0.bucket[i]]
           filled(k) == [i \in 0 .. s.ht1.size-1 |->
                           s.ht1.bucket[i] \cup {e \in moved(k) : Slot(s.ht1, e.key) = i}]
           p     == PassBuckets(s, j)
           chain == s.ht0.bucket[j]
           old   == [i \in 0 .. p.ht0.size-1 |-> IF i = p.rehashidx THEN {} ELSE p.ht0.bucket[i]]
           new   == [i \in 0 .. p.ht1.size-1 |->
                       p.ht1.bucket[i] \cup {e \in chain : Slot(p.ht1, e.key) = i}]
<1> DEFINE After(k) ==
             [ht0 |-> [size |-> s.ht0.size, bucket |-> left(k)],
              ht1 |-> [size |-> s.ht1.size, bucket |-> filled(k)],
              used |-> s.used, rehashidx |-> k]
<1>1. PassBuckets(s, j) = After(j) /\ PassBuckets(s, j + 1) = After(j + 1)
  BY DEF PassBuckets, Record
<1>2. /\ s.rehashidx \in Nat /\ j \in Nat /\ s.ht0.size \in Nat /\ s.rehashidx <= j
      /\ j \in 0 .. s.ht0.size-1 /\ s.ht1.size \in Nat
  BY Calls DEF is_rehashing
<1>3. /\ p.ht0.size = s.ht0.size /\ p.ht0.bucket = left(j)
      /\ p.ht1.size = s.ht1.size /\ p.ht1.bucket = filled(j)
      /\ p.rehashidx = j /\ p.used = s.used
  <2> HIDE DEF left, filled
  <2> QED BY <1>1
<1>4. passed(j + 1) = passed(j) \cup {j} /\ j \notin passed(j)
  BY <1>2
<1>5. p.ht0.bucket[j] = chain
  BY <1>2, <1>3, <1>4
<1>6. moved(j + 1) = moved(j) \cup chain
  BY <1>4
<1>7. left(j + 1) = old
  <2>1. \A i \in 0 .. s.ht0.size-1 :
           (IF i \in passed(j + 1) THEN {} ELSE s.ht0.bucket[i]) =
           (IF i = j THEN {} ELSE left(j)[i])
    BY <1>4
  <2> QED BY <1>3, <2>1
<1>8. filled(j + 1) = new
  <2>1. \A k : Slot(p.ht1, k) = Slot(s.ht1, k)
    BY <1>3 DEF Slot
  <2>2. \A i \in 0 .. s.ht1.size-1 : new[i] = filled(j)[i] \cup {e \in chain : Slot(s.ht1, e.key) = i}
    BY <1>3, <2>1
  <2>3. \A i \in 0 .. s.ht1.size-1 :
           filled(j + 1)[i] = filled(j)[i] \cup {e \in chain : Slot(s.ht1, e.key) = i}
    BY <1>6
  <2>4. /\ new = [i \in 0 .. s.ht1.size-1 |-> new[i]]
        /\ filled(j + 1) = [i \in 0 .. s.ht1.size-1 |-> filled(j + 1)[i]]
    BY <1>3
  <2> HIDE DEF moved, filled, new
  <2> QED BY <2>2, <2>3, <2>4
<1>9. CASE chain # {}
  <2>1. PassOne(p) = Record([size |-> p.ht0.size, bucket |-> old],
                            [size |-> p.ht1.size, bucket |-> new], p.used, p.rehashidx + 1)
    BY <1>3, <1>5, <1>9 DEF PassOne
  <2>2. PassOne(p) = Record([size |-> s.ht0.size, bucket |-> left(j + 1)],
                            [size |-> s.ht1.size, bucket |-> filled(j + 1)], s.used, j + 1)
    BY <1>3, <1>7, <1>8, <2>1
  <2> QED BY <1>1, <1>5, <2>2 DEF Record
<1>10. CASE chain = {}
  <2>1. left(j + 1) = left(j)
    BY <1>2, <1>4, <1>10
  <2>2. filled(j + 1) = filled(j)
    BY <1>6, <1>10
  <2> HIDE DEF left, filled
  <2>3. PassOne(p) = [p EXCEPT !.rehashidx = @ + 1]
    BY <1>3, <1>5, <1>10 DEF PassOne
  <2> QED BY <1>1, <1>5, <2>1, <2>2, <2>3
<1> QED BY <1>5, <1>9, <1>10

-----------------------------------------------------------------------------
(* What the formula says where the loop ends. *)

LEMMA LeftAt ==
    ASSUME NEW s \in Starts, NEW a \in Args, is_rehashing(s), s.used > 0,
           NEW j \in s.rehashidx .. s.ht0.size, LeavesLoopAt(s, a, j),
           \A i \in s.rehashidx .. j-1 : ~ LeavesLoopAt(s, a, i)
    PROVE  rehash_step(s, a) = PassBuckets(s, j)
<1>1. s.rehashidx \in Int /\ s.ht0.size \in Int /\ s.used # 0
  BY Calls
<1>2. LoopExit(s, a) = {j}
  <2>1. j \in LoopExit(s, a)
    BY DEF LoopExit
  <2>2. \A k \in LoopExit(s, a) : k = j
    <3> TAKE k \in LoopExit(s, a)
    <3>1. /\ k \in s.rehashidx .. s.ht0.size /\ LeavesLoopAt(s, a, k)
          /\ \A i \in s.rehashidx .. k-1 : ~ LeavesLoopAt(s, a, i)
      BY DEF LoopExit
    <3>2. k \notin s.rehashidx .. j-1 /\ j \notin s.rehashidx .. k-1
      BY <3>1
    <3> QED BY <1>1, <3>1, <3>2
  <2> QED BY <2>1, <2>2
<1>3. (CHOOSE i \in {j} : TRUE) = j
  OBVIOUS
<1> QED BY <1>1, <1>2, <1>3 DEF rehash_step

LEMMA LeftNowhere ==
    ASSUME NEW s \in Starts, NEW a \in Args, is_rehashing(s), s.used > 0,
           \A i \in s.rehashidx .. s.ht0.size : ~ LeavesLoopAt(s, a, i)
    PROVE  rehash_step(s, a) = FinishRehash(PassBuckets(s, s.ht0.size))
<1>1. LoopExit(s, a) = {} /\ s.used # 0
  BY Calls DEF LoopExit
<1> QED BY <1>1 DEF rehash_step

-----------------------------------------------------------------------------
(* The loop. *)

LEMMA Where ==
    ASSUME start \in Starts, NEW j, At(j)
    PROVE  /\ d.ht0.size = start.ht0.size /\ d.used = start.used /\ d.rehashidx = j
           /\ is_rehashing(d) /\ start.rehashidx \in Nat /\ j \in Nat
           /\ start.ht0.size \in Nat
           /\ j < start.ht0.size => /\ d.ht0.bucket[j] = start.ht0.bucket[j]
                                    /\ PassBuckets(start, j + 1) = PassOne(d)
<1>1. /\ start.rehashidx \in Nat /\ start.ht0.size \in Nat
      /\ j \in start.rehashidx .. start.ht0.size
      /\ d = PassBuckets(start, j)
  BY Calls DEF At
<1>2. d.ht0.size = start.ht0.size /\ d.used = start.used /\ d.rehashidx = j
  BY <1>1 DEF PassBuckets, Record
<1>3. is_rehashing(d) /\ j \in Nat
  BY <1>1, <1>2 DEF is_rehashing
<1>4. ASSUME j < start.ht0.size
      PROVE  /\ d.ht0.bucket[j] = start.ht0.bucket[j]
             /\ PassBuckets(start, j + 1) = PassOne(d)
  <2>1. j \in start.rehashidx .. start.ht0.size-1
    BY <1>1, <1>4
  <2> QED BY <1>1, <2>1, PassNext DEF At
<1> QED BY <1>1, <1>2, <1>3, <1>4

\* The formula does not leave where the loop goes on.
LEMMA StaysAt ==
    ASSUME NEW s \in Starts, NEW a \in Nat, NEW j \in Nat, s.rehashidx \in Nat,
           s.rehashidx <= j,
           Cardinality(Occupied(s, j)) # a,
           \/ j = s.rehashidx
           \/ s.ht0.bucket[j - 1] # {}
           \/ (j - s.rehashidx) - Cardinality(Occupied(s, j))
                 <= 10 * (a - Cardinality(Occupied(s, j)) - 1)
    PROVE  ~ LeavesLoopAt(s, a, j)
<1>1. Cardinality(Occupied(s, j)) \in Nat
  BY OccupiedCounted
<1> QED BY <1>1 DEF LeavesLoopAt

LEMMA RoundStarts == IInv /\ NextRound => IInv'
<1> SUFFICES ASSUME IInv, NextRound PROVE IInv'
  OBVIOUS
<1>1. start \in Starts /\ arg \in Args /\ arg \in Nat
  BY CallAssumption DEF IInv
<1>2. /\ n' = n - 1 /\ UNCHANGED <<start, arg, d, empty_visits>>
      /\ pc' = IF is_rehashing(d) /\ n # 0 /\ d.used > 0 THEN "visit" ELSE "returned"
  BY DEF NextRound
<1>3. CASE d = start /\ n = arg /\ empty_visits = 0
  <2> DEFINE j == start.rehashidx
  <2>1. CASE ~ is_rehashing(start) \/ start.used = 0
    <3>1. pc' = "returned" /\ rehash_step(start, arg) = start
      BY <1>2, <1>3, <2>1 DEF rehash_step
    <3> QED BY <1>1, <1>2, <1>3, <3>1 DEF IInv
  <2>2. CASE is_rehashing(start) /\ start.used # 0
    <3>1. /\ j \in Nat /\ start.ht0.size \in Nat /\ j \in j .. start.ht0.size
          /\ start.used > 0
      BY <1>1, <2>2, Calls
    <3>2. Cardinality(Occupied(start, j)) = 0 /\ d = PassBuckets(start, j)
      BY <1>1, <1>3, <3>1, OccupiedNone, PassNone
    <3>3. At(j)
      BY <1>3, <2>2, <3>1, <3>2 DEF At
    <3>4. CASE arg = 0
      <4>1. LeavesLoopAt(start, arg, j)
        BY <3>2, <3>4 DEF LeavesLoopAt
      <4>2. rehash_step(start, arg) = d
        BY <1>1, <2>2, <3>1, <3>2, <4>1, LeftAt
      <4> QED BY <1>1, <1>2, <1>3, <3>4, <4>2 DEF IInv
    <3>5. CASE arg # 0
      <4>1. ~ LeavesLoopAt(start, arg, j)
        BY <1>1, <3>1, <3>2, <3>5, StaysAt
      <4>2. pc' = "visit" /\ n' = arg - Cardinality(Occupied(start, d.rehashidx)) - 1
        BY <1>1, <1>2, <1>3, <2>2, <3>1, <3>2, <3>5
      <4> QED BY <1>1, <1>2, <1>3, <3>3, <4>1, <4>2 DEF IInv, At
    <3> QED BY <3>4, <3>5
  <2> QED BY <2>1, <2>2
<1>4. CASE /\ At(d.rehashidx)
           /\ n = arg - Cardinality(Occupied(start, d.rehashidx))
           /\ d.rehashidx > start.rehashidx
           /\ start.ht0.bucket[d.rehashidx - 1] # {}
  <2> DEFINE j == d.rehashidx
             c == Cardinality(Occupied(start, j))
  <2>1. /\ is_rehashing(d) /\ start.rehashidx \in Nat /\ j \in Nat
        /\ start.ht0.size \in Nat /\ d.used > 0
        /\ is_rehashing(start) /\ start.used > 0
        /\ j \in start.rehashidx .. start.ht0.size /\ d = PassBuckets(start, j)
        /\ \A i \in start.rehashidx .. j-1 : ~ LeavesLoopAt(start, arg, i)
    BY <1>1, <1>4, Where DEF At
  <2>2. c \in Nat
    BY <2>1, OccupiedCounted
  <2>3. CASE n = 0
    <3>1. LeavesLoopAt(start, arg, j)
      BY <1>1, <1>4, <2>2, <2>3 DEF LeavesLoopAt
    <3>2. rehash_step(start, arg) = PassBuckets(start, j)
      BY <1>1, <2>1, <3>1, LeftAt
    <3>3. pc' = "returned" /\ d' = rehash_step(start, arg)
      BY <1>2, <2>1, <2>3, <3>2
    <3> QED BY <1>1, <1>2, <3>3 DEF IInv
  <2>4. CASE n # 0
    <3>1. ~ LeavesLoopAt(start, arg, j)
      BY <1>1, <1>4, <2>1, <2>2, <2>4, StaysAt
    <3>2. pc' = "visit" /\ n' = arg - c - 1
      BY <1>2, <1>4, <2>1, <2>4
    <3> QED BY <1>1, <1>2, <1>4, <3>1, <3>2 DEF IInv, At
  <2> QED BY <2>3, <2>4
<1> QED BY <1>3, <1>4 DEF IInv, NextRound

\* What the invariant says in the inner loop.
Visiting(j) ==
    /\ start \in Starts /\ arg \in Args /\ arg \in Nat
    /\ is_rehashing(start) /\ start.used > 0
    /\ start.rehashidx \in Nat /\ start.ht0.size \in Nat
    /\ j \in start.rehashidx .. start.ht0.size
    /\ d = PassBuckets(start, j) /\ d.rehashidx = j /\ d.ht0.size = start.ht0.size
    /\ Cardinality(Occupied(start, j)) \in Nat
    /\ empty_visits = (j - start.rehashidx) - Cardinality(Occupied(start, j))
    /\ n = arg - Cardinality(Occupied(start, j)) - 1
    /\ n # -1
    /\ \A i \in start.rehashidx .. j : ~ LeavesLoopAt(start, arg, i)
    /\ j < start.ht0.size => /\ d.ht0.bucket[j] = start.ht0.bucket[j]
                             /\ PassBuckets(start, j + 1) = PassOne(d)

LEMMA Visits ==
    ASSUME IInv, pc = "visit"
    PROVE  Visiting(d.rehashidx)
<1> DEFINE j == d.rehashidx
<1>1. /\ start \in Starts /\ arg \in Args /\ arg \in Nat /\ At(j)
      /\ n = arg - Cardinality(Occupied(start, j)) - 1
      /\ ~ LeavesLoopAt(start, arg, j)
  BY CallAssumption DEF IInv
<1>2. /\ is_rehashing(start) /\ start.used > 0
      /\ start.rehashidx \in Nat /\ start.ht0.size \in Nat /\ j \in Nat
      /\ j \in start.rehashidx .. start.ht0.size
      /\ d = PassBuckets(start, j) /\ d.ht0.size = start.ht0.size
      /\ empty_visits = (j - start.rehashidx) - Cardinality(Occupied(start, j))
      /\ j < start.ht0.size => /\ d.ht0.bucket[j] = start.ht0.bucket[j]
                               /\ PassBuckets(start, j + 1) = PassOne(d)
  BY <1>1, Where DEF At
<1>3. Cardinality(Occupied(start, j)) \in Nat
  BY <1>2, OccupiedCounted
<1>4. n # -1
  BY <1>1, <1>3 DEF LeavesLoopAt
<1>5. \A i \in start.rehashidx .. j : ~ LeavesLoopAt(start, arg, i)
  <2>1. \A i \in start.rehashidx .. j : i = j \/ i \in start.rehashidx .. j-1
    BY <1>2
  <2> QED BY <1>1, <2>1 DEF At
<1> QED BY <1>1, <1>2, <1>3, <1>4, <1>5 DEF Visiting

LEMMA BucketSkipped == IInv /\ SkipBucket => IInv'
<1> SUFFICES ASSUME IInv, SkipBucket PROVE IInv'
  OBVIOUS
<1>0. PICK j : j = d.rehashidx
  OBVIOUS
<1>k. PICK c : c = Cardinality(Occupied(start, j))
  OBVIOUS
<1>1. Visiting(j) /\ j < start.ht0.size /\ start.ht0.bucket[j] = {}
  BY <1>0, Visits DEF SkipBucket, Visiting
<1>2. /\ d' = [d EXCEPT !.rehashidx = @ + 1] /\ empty_visits' = empty_visits + 1
      /\ pc' = IF empty_visits + 1 > 10 * n THEN "returned" ELSE "visit"
      /\ UNCHANGED <<start, arg, n>>
  BY DEF SkipBucket
<1>3. j \in Nat /\ j + 1 \in start.rehashidx .. start.ht0.size
  BY <1>1 DEF Visiting
<1>4. d' = PassBuckets(start, j + 1)
  BY <1>0, <1>1, <1>2 DEF Visiting, PassOne
<1>5. d'.rehashidx = j + 1
  BY <1>4 DEF PassBuckets, Record
<1>6. Cardinality(Occupied(start, j + 1)) = c
  BY <1>1, <1>3, <1>k, OccupiedNext DEF Visiting
<1>7. /\ start.rehashidx <= j /\ c \in Nat /\ arg \in Nat /\ n = arg - c - 1
      /\ c # arg /\ start.rehashidx \in Nat
  BY <1>1, <1>k DEF Visiting
<1>8. empty_visits + 1 = (j + 1 - start.rehashidx) - Cardinality(Occupied(start, j + 1))
  BY <1>1, <1>3, <1>6, <1>7, <1>k DEF Visiting
<1>9. \A i \in start.rehashidx .. (j + 1) - 1 : ~ LeavesLoopAt(start, arg, i)
  BY <1>1, <1>3 DEF Visiting
<1>10. CASE empty_visits + 1 > 10 * n
  <2>1. LeavesLoopAt(start, arg, j + 1)
    <3>1. /\ (j + 1) - start.rehashidx - Cardinality(Occupied(start, j + 1))
               > 10 * (arg - Cardinality(Occupied(start, j + 1)) - 1)
          /\ j + 1 > start.rehashidx
      BY <1>3, <1>6, <1>7, <1>8, <1>10
    <3>2. start.ht0.bucket[(j + 1) - 1] = {}
      BY <1>1, <1>3
    <3> QED BY <3>1, <3>2 DEF LeavesLoopAt
  <2>2. rehash_step(start, arg) = PassBuckets(start, j + 1)
    BY <1>1, <1>3, <1>9, <2>1, LeftAt DEF Visiting
  <2>3. pc' = "returned"
    BY <1>2, <1>10
  <2> QED BY <1>1, <1>2, <1>4, <2>2, <2>3 DEF IInv, Visiting
<1>11. CASE ~ (empty_visits + 1 > 10 * n)
  <2>1. (j + 1) - start.rehashidx - Cardinality(Occupied(start, j + 1))
           <= 10 * (arg - Cardinality(Occupied(start, j + 1)) - 1)
    BY <1>3, <1>6, <1>7, <1>8, <1>11
  <2>2. start.rehashidx <= j + 1 /\ j + 1 \in Nat /\ start \in Starts
    BY <1>1, <1>3, <1>7 DEF Visiting
  <2>3. ~ LeavesLoopAt(start, arg, j + 1)
    BY <1>6, <1>7, <2>1, <2>2, StaysAt
  <2>4. At(j + 1)'
    BY <1>1, <1>2, <1>3, <1>4, <1>8, <1>9 DEF At, Visiting
  <2>5. pc' = "visit" /\ n' = arg - Cardinality(Occupied(start, j + 1)) - 1
    BY <1>2, <1>6, <1>7, <1>11
  <2>6. start' \in Starts /\ arg' \in Args
    BY <1>1, <1>2 DEF Visiting
  <2> QED BY <1>2, <1>5, <2>3, <2>4, <2>5, <2>6 DEF IInv, At
<1> QED BY <1>10, <1>11

LEMMA BucketMoved == IInv /\ MoveBucket => IInv'
<1> SUFFICES ASSUME IInv, MoveBucket PROVE IInv'
  OBVIOUS
<1>0. PICK j : j = d.rehashidx
  OBVIOUS
<1>k. PICK c : c = Cardinality(Occupied(start, j))
  OBVIOUS
<1>1. Visiting(j) /\ j < start.ht0.size /\ start.ht0.bucket[j] # {}
  BY <1>0, Visits DEF MoveBucket, Visiting
<1>2. d' = PassOne(d) /\ pc' = "rounds" /\ UNCHANGED <<start, arg, n, empty_visits>>
  BY DEF MoveBucket, PassOne
<1>3. j \in Nat /\ j + 1 \in start.rehashidx .. start.ht0.size
  BY <1>1 DEF Visiting
<1>4. d' = PassBuckets(start, j + 1)
  BY <1>1, <1>2 DEF Visiting
<1>5. d'.rehashidx = j + 1
  BY <1>4 DEF PassBuckets, Record
<1>6. Cardinality(Occupied(start, j + 1)) = c + 1
  BY <1>1, <1>3, <1>k, OccupiedNext DEF Visiting
<1>7. /\ start.rehashidx <= j /\ c \in Nat /\ arg \in Nat /\ n = arg - c - 1
      /\ start.rehashidx \in Nat
  BY <1>1, <1>k DEF Visiting
<1>8. empty_visits = (j + 1 - start.rehashidx) - Cardinality(Occupied(start, j + 1))
  BY <1>1, <1>3, <1>6, <1>7, <1>k DEF Visiting
<1>9. \A i \in start.rehashidx .. (j + 1) - 1 : ~ LeavesLoopAt(start, arg, i)
  BY <1>1, <1>3 DEF Visiting
<1>10. At(j + 1)'
  BY <1>1, <1>2, <1>3, <1>4, <1>8, <1>9 DEF At, Visiting
<1>11. n' = arg - Cardinality(Occupied(start, j + 1))
  BY <1>2, <1>6, <1>7
<1>12. j + 1 > start.rehashidx /\ start.ht0.bucket[(j + 1) - 1] # {}
  BY <1>1, <1>3, <1>7
<1>13. start' \in Starts /\ arg' \in Args
  BY <1>1, <1>2 DEF Visiting
<1> QED BY <1>2, <1>5, <1>10, <1>11, <1>12, <1>13 DEF IInv

LEMMA RehashCompleted == IInv /\ Complete => IInv'
<1> SUFFICES ASSUME IInv, Complete PROVE IInv'
  OBVIOUS
<1>1. Visiting(start.ht0.size)
  <2>1. Visiting(d.rehashidx) /\ d.rehashidx >= start.ht0.size
    BY Visits DEF Complete, Visiting
  <2>2. d.rehashidx = start.ht0.size
    BY <2>1 DEF Visiting
  <2> QED BY <2>1, <2>2
<1>2. rehash_step(start, arg) = FinishRehash(d)
  BY <1>1, LeftNowhere DEF Visiting
<1> QED BY <1>1, <1>2 DEF Complete, IInv, Visiting

-----------------------------------------------------------------------------
(* What a call has done so far: the buckets before rehashidx_ are moved, the
   rounds it used are those of the occupied ones, and the formula does not
   leave the loop at any of them.  *)
THEOREM Invariance == Spec => []IInv
<1>1. Init => IInv
  BY DEF Init, IInv
<1>2. IInv /\ [Next]_vars => IInv'
  <2>1. IInv /\ UNCHANGED vars => IInv'
    BY DEF IInv, At, vars
  <2> QED BY <2>1, RoundStarts, BucketSkipped, BucketMoved, RehashCompleted DEF Next
<1> QED BY <1>1, <1>2, PTL DEF Spec

(* Whatever the table and the number of rounds, the two loops of rehash_step
   end with the object the formula gives: everything proved of the formula
   holds of the code.  *)
THEOREM LoopsComputeFormula == Spec => []ComputesRehashStep
<1>1. IInv => ComputesRehashStep
  BY DEF IInv, ComputesRehashStep
<1> QED BY <1>1, Invariance, PTL

(* A call with rounds to spend, on a table that counts an element, passes a
   bucket or completes the rehash.  *)
THEOREM CallsProgress == Spec => []MakesProgress
<1>1. IInv => MakesProgress
  <2> SUFFICES ASSUME IInv, pc = "returned", is_rehashing(start), start.used > 0, arg > 0
               PROVE  ~ is_rehashing(d) \/ d.rehashidx > start.rehashidx
    BY DEF MakesProgress
  <2>1. /\ start \in Starts /\ arg \in Nat /\ d = rehash_step(start, arg)
        /\ start.rehashidx \in Nat /\ start.used # 0 /\ start.ht0.size \in Nat
    BY Calls, CallAssumption DEF IInv
  <2>2. ~ LeavesLoopAt(start, arg, start.rehashidx)
    BY <2>1, OccupiedNone DEF LeavesLoopAt
  <2>3. \A j \in LoopExit(start, arg) : j > start.rehashidx
    BY <2>1, <2>2 DEF LoopExit
  <2>4. CASE LoopExit(start, arg) = {}
    <3>1. d = FinishRehash(PassBuckets(start, start.ht0.size))
      BY <2>1, <2>4 DEF rehash_step
    <3> QED BY <3>1 DEF FinishRehash, Record, is_rehashing
  <2>5. CASE LoopExit(start, arg) # {}
    <3>1. PICK j \in LoopExit(start, arg) : d = PassBuckets(start, j)
      BY <2>1, <2>5 DEF rehash_step
    <3> QED BY <2>3, <3>1 DEF PassBuckets, Record
  <2> QED BY <2>4, <2>5
<1> QED BY <1>1, Invariance, PTL
=============================================================================
