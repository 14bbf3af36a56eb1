----------------------------- MODULE DictProofs -----------------------------
(***************************************************************************)
(* The inductive invariant of module Dict, and from it the refinement to   *)
(* the map of module LossyMap.                                             *)
(***************************************************************************)
EXTENDS Dict, FiniteSetTheorems, TLAPS

Sound(d) ==
    /\ IsDict(d)
    /\ AtHome(d.ht0) /\ AtHome(d.ht1)
    /\ Unique(d.ht0) /\ Unique(d.ht1)
    /\ OnlyPassed(d)

Counted(d) ==
    /\ IsFiniteSet(Nodes(d.ht0)) /\ IsFiniteSet(Nodes(d.ht1))
    /\ d.used >= get_all_length(d)

-----------------------------------------------------------------------------
(* Tables. *)

LEMMA SlotInRange ==
    ASSUME NEW h, h.size \in Nat \ {0}, NEW k \in Key
    PROVE  Slot(h, k) \in 0 .. h.size-1
BY DictAssumption, SMT DEF Slot

LEMMA SlotOfSize ==
    ASSUME NEW h, NEW g, h.size = g.size, NEW k
    PROVE  Slot(h, k) = Slot(g, k)
BY DEF Slot

LEMMA EmptyTable ==
    ASSUME NEW n \in Nat
    PROVE  /\ IsTable(Table(n))
           /\ Table(n).size = n
           /\ AtHome(Table(n))
           /\ Unique(Table(n))
           /\ \A i \in 0 .. n-1 : Table(n).bucket[i] = {}
BY DEF Table, IsTable, AtHome, Unique

(* Replacing one bucket by well-placed nodes of pairwise different keys
   keeps a table in order.  *)
LEMMA WithBucketSound ==
    ASSUME NEW h, IsTable(h), h.size > 0, AtHome(h), Unique(h),
           NEW k \in Key, NEW B \in SUBSET Entry,
           \A e \in B : Slot(h, e.key) = Slot(h, k),
           \A e, f \in B : e.key = f.key => e = f
    PROVE  LET g == WithBucket(h, k, B)
           IN  /\ IsTable(g)
               /\ g.size = h.size
               /\ AtHome(g)
               /\ Unique(g)
               /\ \A i \in 0 .. h.size-1 :
                     g.bucket[i] = IF i = Slot(h, k) THEN B ELSE h.bucket[i]
<1> DEFINE g == WithBucket(h, k, B)
<1>1. Slot(h, k) \in 0 .. h.size-1
  BY SlotInRange DEF IsTable
<1>2. /\ g = [size |-> g.size, bucket |-> g.bucket]
      /\ g.size = h.size
      /\ g.bucket = [h.bucket EXCEPT ![Slot(h, k)] = B]
  BY DEF WithBucket
<1>3. IsTable(g)
  BY <1>1, <1>2 DEF IsTable
<1>4. \A i \in 0 .. h.size-1 :
         g.bucket[i] = IF i = Slot(h, k) THEN B ELSE h.bucket[i]
  BY <1>1, <1>2 DEF IsTable
<1>5. AtHome(g)
  BY <1>2, <1>4, SlotOfSize DEF AtHome
<1>6. Unique(g)
  BY <1>2, <1>4 DEF Unique
<1> QED BY <1>2, <1>3, <1>4, <1>5, <1>6

-----------------------------------------------------------------------------
(* Starting, advancing and completing a rehash. *)

LEMMA NewDictSound == Sound(NewDict)
<1>1. INIT_HT_SIZE \in Nat /\ INIT_HT_SIZE > 0
  BY DictAssumption
<1> QED
  BY <1>1, EmptyTable DEF NewDict, Record, Sound, IsDict, OnlyPassed, is_rehashing

LEMMA StartRehashSound ==
    ASSUME NEW d, Sound(d), ~ is_rehashing(d), NEW n \in Nat \ {0}
    PROVE  Sound(StartRehash(d, n))
<1> DEFINE r == StartRehash(d, n)
<1>1. r = [ht0 |-> d.ht0, ht1 |-> Table(n), used |-> d.used, rehashidx |-> 0]
  BY DEF StartRehash, Record
<1>2. /\ r.ht0 = d.ht0 /\ r.ht1 = Table(n) /\ r.used = d.used /\ r.rehashidx = 0
      /\ r = Record(r.ht0, r.ht1, r.used, r.rehashidx)
  BY <1>1 DEF Record
<1>3. /\ IsTable(Table(n)) /\ AtHome(Table(n)) /\ Unique(Table(n))
      /\ Table(n).size = n /\ \A i \in 0 .. n-1 : Table(n).bucket[i] = {}
  BY EmptyTable
<1>4. IsTable(d.ht0) /\ d.used \in Nat /\ d.ht0.size \in Nat /\ d.ht0.size > 0
  BY DEF Sound, IsDict, IsTable
<1>5. IsDict(r)
  BY <1>2, <1>3, <1>4 DEF IsDict, is_rehashing
<1>6. OnlyPassed(r)
  BY <1>2, <1>3 DEF OnlyPassed
<1> QED
  BY <1>2, <1>3, <1>5, <1>6 DEF Sound

LEMMA ExpandSound ==
    ASSUME NEW d, Sound(d)
    PROVE  Sound(expand_if_needed(d))
<1>1. 2 * d.ht0.size \in Nat \ {0}
  BY DEF Sound, IsDict, IsTable
<1> QED BY <1>1, StartRehashSound DEF expand_if_needed

LEMMA ShrinkSound ==
    ASSUME NEW d, Sound(d)
    PROVE  Sound(shrink_if_needed(d))
<1>1. LargerOf(INIT_HT_SIZE, d.ht0.size \div 2) \in Nat \ {0}
  <2>1. d.ht0.size \in Nat
    BY DEF Sound, IsDict, IsTable
  <2>2. d.ht0.size \div 2 \in Nat
    BY <2>1
  <2> QED BY <2>2, DictAssumption DEF LargerOf
<1> QED BY <1>1, StartRehashSound DEF shrink_if_needed

(* Passing buckets keeps both tables in order: a relinked node cannot meet
   its key in ht_[1], which holds only keys of buckets passed before.  *)
LEMMA PassBucketsSound ==
    ASSUME NEW d, Sound(d), is_rehashing(d), NEW j \in d.rehashidx .. d.ht0.size
    PROVE  /\ Sound(PassBuckets(d, j))
           /\ PassBuckets(d, j).rehashidx = j
           /\ PassBuckets(d, j).ht0.size = d.ht0.size
           /\ PassBuckets(d, j).ht1.size = d.ht1.size
           /\ PassBuckets(d, j).used = d.used
<1> DEFINE p == PassBuckets(d, j)
           passed == d.rehashidx .. j-1
           moved == UNION {d.ht0.bucket[i] : i \in passed}
           left == [i \in 0 .. d.ht0.size-1 |->
                      IF i \in passed THEN {} ELSE d.ht0.bucket[i]]
           filled == [i \in 0 .. d.ht1.size-1 |->
                        d.ht1.bucket[i] \cup {e \in moved : Slot(d.ht1, e.key) = i}]
<1>1. /\ p.ht0 = [size |-> d.ht0.size, bucket |-> left]
      /\ p.ht1 = [size |-> d.ht1.size, bucket |-> filled]
      /\ p = [ht0 |-> p.ht0, ht1 |-> p.ht1, used |-> d.used, rehashidx |-> j]
  BY DEF PassBuckets, Record
<1>2. /\ d.rehashidx \in Nat
      /\ d.ht0.size \in Nat
      /\ d.ht1.size \in Nat
      /\ d.ht0.size > 0 /\ d.ht1.size > 0
      /\ passed \subseteq 0 .. d.ht0.size-1
      /\ j \in Nat
  BY DEF Sound, IsDict, IsTable, is_rehashing
<1>3. moved \subseteq Entry
  BY <1>2 DEF Sound, IsDict, IsTable
<1>4. IsTable(p.ht0) /\ IsTable(p.ht1)
  <2>1. left \in [0 .. d.ht0.size-1 -> SUBSET Entry]
    BY DEF Sound, IsDict, IsTable
  <2>2. filled \in [0 .. d.ht1.size-1 -> SUBSET Entry]
    BY <1>3 DEF Sound, IsDict, IsTable
  <2> QED BY <1>1, <1>2, <2>1, <2>2 DEF IsTable
<1>11. /\ p.used = d.used /\ p.rehashidx = j
      /\ p.ht0.size = d.ht0.size /\ p.ht0.bucket = left
      /\ p.ht1.size = d.ht1.size /\ p.ht1.bucket = filled
      /\ p = Record(p.ht0, p.ht1, p.used, p.rehashidx)
  BY <1>1 DEF Record
<1>12. \A k : Slot(p.ht0, k) = Slot(d.ht0, k) /\ Slot(p.ht1, k) = Slot(d.ht1, k)
  BY <1>11, SlotOfSize
<1>13. d.used \in Nat
  BY DEF Sound, IsDict
<1>5. IsDict(p)
  BY <1>2, <1>4, <1>11, <1>13 DEF IsDict, is_rehashing
<1>6. \A e \in moved : e \in Entry /\ Slot(d.ht0, e.key) \in passed
                       /\ e \in d.ht0.bucket[Slot(d.ht0, e.key)]
  BY <1>2, <1>3 DEF Sound, AtHome
<1>7. AtHome(p.ht0) /\ AtHome(p.ht1)
  <2>1. AtHome(p.ht0)
    BY <1>11, <1>12 DEF Sound, AtHome
  <2>2. AtHome(p.ht1)
    BY <1>11, <1>12 DEF Sound, AtHome
  <2> QED BY <2>1, <2>2
<1>8. Unique(p.ht0)
  BY <1>1 DEF Sound, Unique
<1>9. Unique(p.ht1)
  <2> SUFFICES ASSUME NEW i \in 0 .. d.ht1.size-1, NEW e \in filled[i], NEW f \in filled[i],
                      e.key = f.key
               PROVE  e = f
    BY <1>11, ZenonT(30) DEF Unique
  <2>1. CASE e \in d.ht1.bucket[i] /\ f \in d.ht1.bucket[i]
    BY <2>1 DEF Sound, Unique
  <2>2. CASE e \in moved /\ f \in moved
    BY <2>2, <1>2, <1>6 DEF Sound, Unique
  <2>3. \A x \in d.ht1.bucket[i] : Slot(d.ht0, x.key) < d.rehashidx
    BY DEF Sound, OnlyPassed, Passed
  <2>4. \A x \in moved : ~ (Slot(d.ht0, x.key) < d.rehashidx)
    BY <1>2, <1>6
  <2> QED BY <2>1, <2>2, <2>3, <2>4
<1>10. OnlyPassed(p)
  <2>0. is_rehashing(p) /\ p.rehashidx = j
    BY <1>2, <1>11 DEF is_rehashing
  <2>4. p.ht1.bucket = filled /\ p.ht1.size = d.ht1.size
    BY <1>11
  <2> SUFFICES ASSUME NEW i \in 0 .. d.ht1.size-1, NEW e \in p.ht1.bucket[i]
               PROVE  Slot(p.ht0, e.key) < j
    <3> HIDE DEF p, filled
    <3> QED BY <2>0, <2>4 DEF OnlyPassed, Passed
  <2>5. e \in filled[i]
    BY <2>4
  <2>1. Slot(p.ht0, e.key) = Slot(d.ht0, e.key)
    BY <1>12
  <2>2. CASE e \in d.ht1.bucket[i]
    <3>1. e \in Entry
      BY <2>2 DEF Sound, IsDict, IsTable
    <3>2. Slot(d.ht0, e.key) \in Nat
      BY <3>1, <1>2, SlotInRange DEF Entry
    <3>3. Slot(d.ht0, e.key) < d.rehashidx
      BY <2>2 DEF Sound, OnlyPassed, Passed
    <3> QED BY <2>1, <3>2, <3>3, <1>2
  <2>3. CASE e \in moved
    BY <2>1, <2>3, <1>2, <1>6
  <2> QED BY <2>5, <2>2, <2>3
<1> QED BY <1>1, <1>5, <1>7, <1>8, <1>9, <1>10, SMTT(30) DEF Sound

LEMMA FinishRehashSound ==
    ASSUME NEW d, Sound(d), is_rehashing(d)
    PROVE  Sound(FinishRehash(d))
<1> DEFINE r == FinishRehash(d)
<1>1. r = [ht0 |-> d.ht1, ht1 |-> Table(0), used |-> d.used, rehashidx |-> -1]
  BY DEF FinishRehash, Record
<1>2. /\ r.ht0 = d.ht1 /\ r.ht1 = Table(0) /\ r.used = d.used /\ r.rehashidx = -1
      /\ r = Record(r.ht0, r.ht1, r.used, r.rehashidx)
  BY <1>1 DEF Record
<1>3. /\ IsTable(Table(0)) /\ AtHome(Table(0)) /\ Unique(Table(0))
      /\ Table(0).size = 0
  BY EmptyTable
<1>4. IsTable(d.ht1) /\ d.used \in Nat /\ d.ht1.size > 0
  BY DEF Sound, IsDict
<1>5. IsDict(r)
  BY <1>2, <1>3, <1>4 DEF IsDict, is_rehashing
<1>6. OnlyPassed(r)
  BY <1>2, <1>3 DEF OnlyPassed
<1> QED BY <1>2, <1>3, <1>5, <1>6 DEF Sound

LEMMA RehashStepSound ==
    ASSUME NEW d, Sound(d), NEW n \in Nat
    PROVE  Sound(rehash_step(d, n))
<1>1. CASE ~ is_rehashing(d) \/ d.used = 0
  BY <1>1 DEF rehash_step
<1>2. CASE is_rehashing(d) /\ d.used # 0
  <2>1. d.ht0.size \in d.rehashidx .. d.ht0.size
    BY <1>2 DEF Sound, IsDict, IsTable, is_rehashing
  <2>2. Sound(FinishRehash(PassBuckets(d, d.ht0.size)))
    <3>1. /\ Sound(PassBuckets(d, d.ht0.size))
          /\ PassBuckets(d, d.ht0.size).rehashidx = d.ht0.size
      BY <1>2, <2>1, PassBucketsSound
    <3>2. is_rehashing(PassBuckets(d, d.ht0.size))
      BY <3>1, SMTT(30) DEF is_rehashing, Sound, IsDict, IsTable
    <3> QED BY <3>1, <3>2, FinishRehashSound
  <2>3. \A j \in LoopExit(d, n) : Sound(PassBuckets(d, j))
    BY <1>2, PassBucketsSound DEF LoopExit
  <2> QED BY <1>2, <2>2, <2>3 DEF rehash_step
<1> QED BY <1>1, <1>2

-----------------------------------------------------------------------------
(* Writing and removing a field. *)

LEMMA WithMainSound ==
    ASSUME NEW d, Sound(d), NEW u \in Nat,
           NEW g, IsTable(g), g.size = d.ht0.size, AtHome(g), Unique(g)
    PROVE  Sound(WithMain(d, g, u))
<1> DEFINE w == WithMain(d, g, u)
<1>1. /\ w.ht0 = g /\ w.ht1 = d.ht1 /\ w.used = u /\ w.rehashidx = d.rehashidx
      /\ w = Record(w.ht0, w.ht1, w.used, w.rehashidx)
  BY DEF WithMain, Record
<1>2. IsDict(w)
  BY <1>1 DEF Sound, IsDict, is_rehashing
<1>3. OnlyPassed(w)
  BY <1>1, SlotOfSize DEF Sound, OnlyPassed, Passed, is_rehashing
<1> QED BY <1>1, <1>2, <1>3 DEF Sound

LEMMA WithNewSound ==
    ASSUME NEW d, Sound(d), NEW u \in Nat,
           NEW g, IsTable(g), g.size = d.ht1.size, AtHome(g), Unique(g),
           \A i \in 0 .. g.size-1 : g.bucket[i] \subseteq d.ht1.bucket[i]
    PROVE  Sound(WithNew(d, g, u))
<1> DEFINE w == WithNew(d, g, u)
<1>1. /\ w.ht0 = d.ht0 /\ w.ht1 = g /\ w.used = u /\ w.rehashidx = d.rehashidx
      /\ w = Record(w.ht0, w.ht1, w.used, w.rehashidx)
  BY DEF WithNew, Record
<1>2. IsDict(w)
  BY <1>1 DEF Sound, IsDict, is_rehashing
<1>3. OnlyPassed(w)
  BY <1>1 DEF Sound, OnlyPassed, Passed, is_rehashing
<1> QED BY <1>1, <1>2, <1>3 DEF Sound

(* The node written takes the place of the one that held the key.  *)
LEMMA ReplaceSound ==
    ASSUME NEW h, IsTable(h), h.size > 0, AtHome(h), Unique(h),
           NEW k \in Key, NEW v \in Value
    PROVE  LET new == [key |-> k, value |-> v]
               g   == WithBucket(h, k, (h.bucket[Slot(h, k)] \ Found(h, k)) \cup {new})
           IN  /\ IsTable(g) /\ AtHome(g) /\ Unique(g)
               /\ g.size = h.size
               /\ Found(g, k) = {new}
               /\ Nodes(g) = (Nodes(h) \ Found(h, k)) \cup {new}
<1> DEFINE new == [key |-> k, value |-> v]
           s == Slot(h, k)
           B == (h.bucket[s] \ Found(h, k)) \cup {new}
           g == WithBucket(h, k, B)
<1>1. s \in 0 .. h.size-1
  BY SlotInRange DEF IsTable
<1>2. h.bucket[s] \in SUBSET Entry
  BY <1>1 DEF IsTable
<1>3. new \in Entry /\ new.key = k
  BY DEF Entry
<1>4. B \in SUBSET Entry
  BY <1>2, <1>3
<1>5. \A e \in B : Slot(h, e.key) = s
  BY <1>1, <1>3 DEF AtHome
<1>6. \A e \in h.bucket[s] \ Found(h, k) : e.key # k
  BY DEF Found
<1>7. \A e, f \in B : e.key = f.key => e = f
  BY <1>1, <1>3, <1>6 DEF Unique
<1>8. /\ IsTable(g) /\ AtHome(g) /\ Unique(g) /\ g.size = h.size
      /\ \A i \in 0 .. h.size-1 : g.bucket[i] = IF i = s THEN B ELSE h.bucket[i]
  BY <1>4, <1>5, <1>7, WithBucketSound
<1>9. Found(g, k) = {new}
  <2>1. Slot(g, k) = s
    BY <1>8, SlotOfSize
  <2>2. g.bucket[s] = B
    BY <1>1, <1>8
  <2> QED BY <2>1, <2>2, <1>3, <1>6 DEF Found
<1>10. Nodes(g) = (Nodes(h) \ Found(h, k)) \cup {new}
  <2>1. \A i \in 0 .. h.size-1 : i # s => h.bucket[i] \cap Found(h, k) = {}
    BY <1>1 DEF AtHome, Found
  <2> QED BY <2>1, <1>1, <1>8, SMTT(30) DEF Nodes
<1> QED BY <1>8, <1>9, <1>10

LEMMA UnlinkSound ==
    ASSUME NEW h, IsTable(h), h.size > 0, AtHome(h), Unique(h), NEW k \in Key
    PROVE  LET g == Unlink(h, k)
           IN  /\ IsTable(g) /\ AtHome(g) /\ Unique(g)
               /\ g.size = h.size
               /\ \A i \in 0 .. g.size-1 : g.bucket[i] \subseteq h.bucket[i]
               /\ Nodes(g) = Nodes(h) \ Found(h, k)
<1> DEFINE s == Slot(h, k)
           B == h.bucket[s] \ Found(h, k)
           g == Unlink(h, k)
<1>1. s \in 0 .. h.size-1
  BY SlotInRange DEF IsTable
<1>2. B \in SUBSET Entry
  BY <1>1 DEF IsTable
<1>3. \A e \in B : Slot(h, e.key) = s
  BY <1>1 DEF AtHome
<1>4. \A e, f \in B : e.key = f.key => e = f
  BY <1>1 DEF Unique
<1>5. /\ IsTable(g) /\ AtHome(g) /\ Unique(g) /\ g.size = h.size
      /\ \A i \in 0 .. h.size-1 : g.bucket[i] = IF i = s THEN B ELSE h.bucket[i]
  BY <1>2, <1>3, <1>4, WithBucketSound DEF Unlink
<1>6. Nodes(g) = Nodes(h) \ Found(h, k)
  <2>1. \A i \in 0 .. h.size-1 : i # s => h.bucket[i] \cap Found(h, k) = {}
    BY <1>1 DEF AtHome, Found
  <2> QED BY <2>1, <1>1, <1>5 DEF Nodes
<1> QED BY <1>5, <1>6

(* What a walk finds is one node of the table.  *)
LEMMA FoundOne ==
    ASSUME NEW h, IsTable(h), h.size > 0, Unique(h), NEW k \in Key, Found(h, k) # {}
    PROVE  \E e \in Nodes(h) : Found(h, k) = {e} /\ e.key = k
<1>1. Slot(h, k) \in 0 .. h.size-1
  BY SlotInRange DEF IsTable
<1>2. PICK e \in h.bucket[Slot(h, k)] : e.key = k
  BY DEF Found
<1>3. Found(h, k) = {e}
  BY <1>1, <1>2 DEF Found, Unique
<1>4. e \in Nodes(h)
  BY <1>1, <1>2 DEF Nodes
<1> QED BY <1>2, <1>3, <1>4

LEMMA StoreInMainSound ==
    ASSUME NEW d, Sound(d), NEW k \in Key, NEW v \in Value
    PROVE  Sound(StoreInMain(d, k, v))
<1> DEFINE new == [key |-> k, value |-> v]
           B == d.ht0.bucket[Slot(d.ht0, k)]
           g == WithBucket(d.ht0, k, (B \ Found(d.ht0, k)) \cup {new})
<1>1. IsTable(d.ht0) /\ d.ht0.size > 0 /\ AtHome(d.ht0) /\ Unique(d.ht0) /\ d.used \in Nat
  BY DEF Sound, IsDict
<1>2. IsTable(g) /\ AtHome(g) /\ Unique(g) /\ g.size = d.ht0.size
  BY <1>1, ReplaceSound
<1>3. \A u \in Nat : Sound(WithMain(d, g, u))
  BY <1>2, WithMainSound
<1>4. CASE Found(d.ht0, k) # {}
  BY <1>1, <1>3, <1>4 DEF StoreInMain
<1>5. CASE Found(d.ht0, k) = {}
  <2>1. g = WithBucket(d.ht0, k, B \cup {new})
    BY <1>5
  <2>2. Sound(WithMain(d, g, d.used + 1))
    BY <1>1, <1>3
  <2> QED BY <1>5, <2>1, <2>2, ExpandSound DEF StoreInMain
<1> QED BY <1>4, <1>5

-----------------------------------------------------------------------------
(* The count. *)

LEMMA CountedLess ==
    ASSUME NEW d, Counted(d), d.used \in Nat, NEW e,
           NEW S, S = Nodes(d.ht0) \/ S = Nodes(d.ht1), e \in S
    PROVE  /\ d.used - 1 \in Nat
           /\ IsFiniteSet(S \ {e})
           /\ Cardinality(S \ {e}) = Cardinality(S) - 1
<1>1. IsFiniteSet(S)
  BY DEF Counted
<1>2. IsFiniteSet(S \ {e}) /\ Cardinality(S \ {e}) = Cardinality(S) - 1
  BY <1>1, FS_RemoveElement
<1>3. Cardinality(Nodes(d.ht0)) \in Nat /\ Cardinality(Nodes(d.ht1)) \in Nat
  BY FS_CardinalityType DEF Counted
<1>4. Cardinality(S \ {e}) \in Nat
  BY <1>2, FS_CardinalityType
<1>5. Cardinality(S) \in Nat /\ Cardinality(S) > 0
  BY <1>2, <1>3, <1>4
<1>6. d.used > 0
  BY <1>3, <1>5 DEF Counted, get_all_length
<1> QED BY <1>2, <1>6

LEMMA StartRehashCounted ==
    ASSUME NEW d, Sound(d), Counted(d), ~ is_rehashing(d), NEW n \in Nat
    PROVE  Counted(StartRehash(d, n))
<1> DEFINE r == StartRehash(d, n)
<1>1. r.ht0 = d.ht0 /\ r.ht1 = Table(n) /\ r.used = d.used
  BY DEF StartRehash, Record
<1>2. Nodes(Table(n)) = {}
  BY EmptyTable DEF Nodes
<1>3. Nodes(d.ht1) = {}
  BY DEF Sound, IsDict, IsTable, Nodes
<1> QED BY <1>1, <1>2, <1>3 DEF Counted, get_all_length

LEMMA InNodes ==
    ASSUME NEW h
    PROVE  \A x : x \in Nodes(h) <=> \E i \in 0 .. h.size-1 : x \in h.bucket[i]
BY DEF Nodes

LEMMA NodesAfterFilling ==
    ASSUME NEW h, NEW g, g.size = h.size, NEW M,
           \A i \in 0 .. h.size-1 :
              g.bucket[i] = h.bucket[i] \cup {e \in M : Slot(h, e.key) = i},
           \A e \in M : Slot(h, e.key) \in 0 .. h.size-1
    PROVE  Nodes(g) = Nodes(h) \cup M
<1>1. \A x : x \in Nodes(g) <=> x \in Nodes(h) \/ x \in M
  <2> TAKE x
  <2>1. x \in Nodes(g) <=> \E i \in 0 .. h.size-1 : x \in g.bucket[i]
    BY InNodes
  <2>2. x \in Nodes(h) <=> \E i \in 0 .. h.size-1 : x \in h.bucket[i]
    BY InNodes
  <2>3. \A i \in 0 .. h.size-1 :
           x \in g.bucket[i] <=> x \in h.bucket[i] \/ (x \in M /\ Slot(h, x.key) = i)
    OBVIOUS
  <2> QED BY <2>1, <2>2, <2>3
<1> QED BY <1>1

LEMMA PassBucketsCounted ==
    ASSUME NEW d, Sound(d), Counted(d), is_rehashing(d),
           NEW j \in d.rehashidx .. d.ht0.size
    PROVE  Counted(PassBuckets(d, j))
<1> DEFINE p == PassBuckets(d, j)
           passed == d.rehashidx .. j-1
           moved == UNION {d.ht0.bucket[i] : i \in passed}
           left == [i \in 0 .. d.ht0.size-1 |->
                      IF i \in passed THEN {} ELSE d.ht0.bucket[i]]
           filled == [i \in 0 .. d.ht1.size-1 |->
                        d.ht1.bucket[i] \cup {e \in moved : Slot(d.ht1, e.key) = i}]
           A == Nodes(d.ht0)
           B == Nodes(d.ht1)
<1>1. /\ p.ht0.size = d.ht0.size /\ p.ht0.bucket = left
      /\ p.ht1.size = d.ht1.size /\ p.ht1.bucket = filled
      /\ p.used = d.used
  BY DEF PassBuckets, Record
<1>2. /\ d.rehashidx \in Nat /\ d.ht0.size \in Nat
      /\ d.ht1.size \in Nat /\ d.ht1.size > 0 /\ d.used \in Nat
      /\ passed \subseteq 0 .. d.ht0.size-1
  BY DEF Sound, IsDict, IsTable, is_rehashing
<1>3. moved \subseteq A
  BY <1>2 DEF Nodes
<1>14. /\ \A i \in 0 .. d.ht0.size-1 :
             p.ht0.bucket[i] = IF i \in passed THEN {} ELSE d.ht0.bucket[i]
       /\ \A i \in 0 .. d.ht1.size-1 :
             p.ht1.bucket[i] = d.ht1.bucket[i] \cup {e \in moved : Slot(d.ht1, e.key) = i}
  <2>1. \A i \in 0 .. d.ht0.size-1 :
           left[i] = IF i \in passed THEN {} ELSE d.ht0.bucket[i]
    OBVIOUS
  <2>2. \A i \in 0 .. d.ht1.size-1 :
           filled[i] = d.ht1.bucket[i] \cup {e \in moved : Slot(d.ht1, e.key) = i}
    <3> HIDE DEF moved
    <3> QED OBVIOUS
  <2> HIDE DEF left, filled
  <2> QED BY <1>1, <2>1, <2>2
<1>15. \A x : x \in moved <=> \E i \in passed : x \in d.ht0.bucket[i]
  OBVIOUS
<1>4. Nodes(p.ht0) = A \ moved
  <2>1. \A i \in 0 .. d.ht0.size-1 : i \notin passed => d.ht0.bucket[i] \cap moved = {}
    BY <1>2 DEF Sound, AtHome
  <2> HIDE DEF p, left, filled, moved, passed
  <2>2. passed \in SUBSET (0 .. d.ht0.size-1) /\ p.ht0.size = d.ht0.size
    BY <1>1, <1>2
  <2>3. Nodes(p.ht0) = Nodes(d.ht0) \ moved
    <3>1. \A i \in 0 .. d.ht0.size-1 :
             p.ht0.bucket[i] = IF i \in passed THEN {} ELSE d.ht0.bucket[i]
      BY <1>14
    <3> HIDE DEF A, moved, passed, p
    <3>2. \A x : x \in Nodes(p.ht0) <=> x \in Nodes(d.ht0) /\ x \notin moved
      <4> TAKE x
      <4>1. x \in Nodes(p.ht0) <=> \E i \in 0 .. d.ht0.size-1 : x \in p.ht0.bucket[i]
        BY <2>2, InNodes
      <4>2. x \in Nodes(d.ht0) <=> \E i \in 0 .. d.ht0.size-1 : x \in d.ht0.bucket[i]
        BY InNodes
      <4> QED BY <4>1, <4>2, <3>1, <1>15, <2>1, <2>2
    <3> QED BY <3>2
  <2> QED BY <2>3
<1>5. Nodes(p.ht1) = B \cup moved
  <2>1. \A e \in moved : Slot(d.ht1, e.key) \in 0 .. d.ht1.size-1
    <3>1. moved \subseteq Entry
      BY <1>2 DEF Sound, IsDict, IsTable
    <3> QED BY <3>1, <1>2, SlotInRange DEF Entry
  <2> HIDE DEF p, left, filled, moved, passed
  <2> QED BY <1>1, <1>14, <2>1, NodesAfterFilling, SMTT(30)
<1>6. IsFiniteSet(A) /\ IsFiniteSet(B) /\ IsFiniteSet(moved)
  BY <1>3, FS_Subset DEF Counted
<1>7. /\ IsFiniteSet(A \ moved)
      /\ Cardinality(A \ moved) = Cardinality(A) - Cardinality(moved)
  <2>1. A \cap moved = moved
    BY <1>3
  <2> HIDE DEF A, moved
  <2>2. /\ IsFiniteSet(A \ moved)
        /\ Cardinality(A \ moved) = Cardinality(A) - Cardinality(A \cap moved)
    BY <1>6, FS_Difference
  <2> QED BY <2>1, <2>2
<1>8. /\ IsFiniteSet(B \cup moved)
      /\ Cardinality(B \cup moved) <= Cardinality(B) + Cardinality(moved)
  <2>1. Cardinality(B \cap moved) \in Nat
    BY <1>6, FS_Intersection, FS_CardinalityType
  <2>2. Cardinality(B) \in Nat /\ Cardinality(moved) \in Nat
    BY <1>6, FS_CardinalityType
  <2>3. /\ IsFiniteSet(B \cup moved)
        /\ Cardinality(B \cup moved) =
              Cardinality(B) + Cardinality(moved) - Cardinality(B \cap moved)
    BY <1>6, FS_Union
  <2> QED BY <2>1, <2>2, <2>3
<1>9. /\ Cardinality(A) \in Nat /\ Cardinality(B) \in Nat /\ Cardinality(moved) \in Nat
      /\ Cardinality(B \cup moved) \in Nat
  BY <1>6, <1>8, FS_CardinalityType
<1>10. d.used >= Cardinality(A) + Cardinality(B)
  BY DEF Counted, get_all_length
<1>11. d.used >= Cardinality(A \ moved) + Cardinality(B \cup moved)
  BY <1>2, <1>7, <1>8, <1>9, <1>10
<1>13. get_all_length(p) = Cardinality(A \ moved) + Cardinality(B \cup moved)
  BY <1>4, <1>5 DEF get_all_length
<1>16. p.used = d.used
  BY <1>1
<1>17. Counted(p)
  <2> HIDE DEF p, moved, left, filled, passed, A, B
  <2> QED BY <1>4, <1>5, <1>7, <1>8, <1>11, <1>13, <1>16 DEF Counted
<1> QED BY <1>17

LEMMA FinishRehashCounted ==
    ASSUME NEW d, Counted(d), d.used \in Nat
    PROVE  Counted(FinishRehash(d))
<1> DEFINE r == FinishRehash(d)
<1>1. r.ht0 = d.ht1 /\ r.ht1 = Table(0) /\ r.used = d.used
  BY DEF FinishRehash, Record
<1>2. Nodes(Table(0)) = {} /\ IsFiniteSet({}) /\ Cardinality({}) = 0
  BY FS_EmptySet DEF Table, Nodes
<1>3. Cardinality(Nodes(d.ht0)) \in Nat /\ Cardinality(Nodes(d.ht1)) \in Nat
  BY FS_CardinalityType DEF Counted
<1> QED BY <1>1, <1>2, <1>3 DEF Counted, get_all_length

LEMMA RehashStepCounted ==
    ASSUME NEW d, Sound(d), Counted(d), NEW n \in Nat
    PROVE  Counted(rehash_step(d, n))
<1>1. CASE ~ is_rehashing(d) \/ d.used = 0
  BY <1>1 DEF rehash_step
<1>2. CASE is_rehashing(d) /\ d.used # 0
  <2>1. d.ht0.size \in d.rehashidx .. d.ht0.size
    BY <1>2 DEF Sound, IsDict, IsTable, is_rehashing
  <2>2. Counted(PassBuckets(d, d.ht0.size)) /\ Sound(PassBuckets(d, d.ht0.size))
    BY <1>2, <2>1, PassBucketsCounted, PassBucketsSound
  <2>3. Counted(FinishRehash(PassBuckets(d, d.ht0.size)))
    BY <2>2, FinishRehashCounted DEF Sound, IsDict
  <2>4. \A j \in LoopExit(d, n) : Counted(PassBuckets(d, j))
    BY <1>2, PassBucketsCounted DEF LoopExit
  <2> QED BY <1>2, <2>3, <2>4 DEF rehash_step
<1> QED BY <1>1, <1>2

LEMMA StoreInMainCounted ==
    ASSUME NEW d, Sound(d), Counted(d), NEW k \in Key, NEW v \in Value
    PROVE  Counted(StoreInMain(d, k, v))
<1> DEFINE new == [key |-> k, value |-> v]
           old == Found(d.ht0, k)
           b == d.ht0.bucket[Slot(d.ht0, k)]
           g == WithBucket(d.ht0, k, (b \ old) \cup {new})
           A == Nodes(d.ht0)
           B == Nodes(d.ht1)
<1>1. IsTable(d.ht0) /\ d.ht0.size > 0 /\ AtHome(d.ht0) /\ Unique(d.ht0) /\ d.used \in Nat
  BY DEF Sound, IsDict
<1>2. Nodes(g) = (A \ old) \cup {new}
  BY <1>1, ReplaceSound
<1>3. /\ IsFiniteSet(A) /\ IsFiniteSet(B)
      /\ Cardinality(A) \in Nat /\ Cardinality(B) \in Nat
      /\ d.used >= Cardinality(A) + Cardinality(B)
  BY FS_CardinalityType DEF Counted, get_all_length
<1>4. \A u : /\ WithMain(d, g, u).ht0 = g
             /\ WithMain(d, g, u).ht1 = d.ht1
             /\ WithMain(d, g, u).used = u
  BY DEF WithMain, Record
<1>7. /\ old # {} => StoreInMain(d, k, v) = WithMain(d, g, d.used)
      /\ old = {} => StoreInMain(d, k, v) = expand_if_needed(WithMain(d, g, d.used + 1))
  <2>1. old = {} => g = WithBucket(d.ht0, k, b \cup {new})
    OBVIOUS
  <2> QED BY <2>1 DEF StoreInMain
<1>8. \A u \in Nat : Sound(WithMain(d, g, u))
  BY <1>1, ReplaceSound, WithMainSound
<1>10. A = Nodes(d.ht0) /\ B = Nodes(d.ht1)
  OBVIOUS
<1>11. d.ht0.size \in Nat
  BY <1>1 DEF IsTable
<1>9. old # {} => \E e \in A : old = {e}
  BY <1>1, FoundOne
<1> HIDE DEF g, A, B, new, old, b
<1>5. CASE old # {}
  <2>1. PICK e \in A : old = {e}
    BY <1>5, <1>9
  <2>2. IsFiniteSet(A \ {e}) /\ Cardinality(A \ {e}) = Cardinality(A) - 1
    BY <1>3, FS_RemoveElement
  <2>3. IsFiniteSet(Nodes(g)) /\ Cardinality(Nodes(g)) <= Cardinality(A)
    <3>1. IsFiniteSet((A \ {e}) \cup {new}) /\
            Cardinality((A \ {e}) \cup {new}) =
               IF new \in A \ {e} THEN Cardinality(A \ {e}) ELSE Cardinality(A \ {e}) + 1
      BY <2>2, FS_AddElement
    <3> QED BY <3>1, <2>1, <2>2, <1>2, <1>3
  <2>4. Cardinality(Nodes(g)) \in Nat
    BY <2>3, FS_CardinalityType
  <2>5. d.used >= Cardinality(Nodes(g)) + Cardinality(B)
    BY <1>1, <1>3, <2>3, <2>4
  <2>6. Counted(WithMain(d, g, d.used))
    BY <1>3, <1>4, <1>10, <2>3, <2>5 DEF Counted, get_all_length
  <2> QED BY <1>5, <1>7, <2>6
<1>6. CASE old = {}
  <2>1. Nodes(g) = A \cup {new}
    BY <1>2, <1>6
  <2>2. IsFiniteSet(Nodes(g)) /\ Cardinality(Nodes(g)) <= Cardinality(A) + 1
    <3>1. /\ IsFiniteSet(A \cup {new})
          /\ Cardinality(A \cup {new}) =
               IF new \in A THEN Cardinality(A) ELSE Cardinality(A) + 1
      BY <1>3, FS_AddElement
    <3> QED BY <3>1, <2>1, <1>3
  <2>3. Cardinality(Nodes(g)) \in Nat
    BY <2>2, FS_CardinalityType
  <2>4. d.used + 1 >= Cardinality(Nodes(g)) + Cardinality(B)
    BY <1>1, <1>3, <2>2, <2>3
  <2>5. Counted(WithMain(d, g, d.used + 1))
    BY <1>3, <1>4, <1>10, <2>2, <2>4 DEF Counted, get_all_length
  <2>6. Sound(WithMain(d, g, d.used + 1))
    BY <1>1, <1>8
  <2>7. Counted(expand_if_needed(WithMain(d, g, d.used + 1)))
    <3>1. 2 * WithMain(d, g, d.used + 1).ht0.size \in Nat
      <4>1. IsTable(WithMain(d, g, d.used + 1).ht0)
        BY <2>6 DEF Sound, IsDict
      <4> QED BY <4>1 DEF IsTable
    <3> QED BY <2>5, <2>6, <3>1, StartRehashCounted DEF expand_if_needed
  <2> QED BY <1>6, <1>7, <2>7
<1> QED BY <1>5, <1>6

LEMMA EraseFirstSound ==
    ASSUME NEW d, Sound(d), Counted(d), NEW k \in Key
    PROVE  Sound(EraseFirst(d, k)) /\ Counted(EraseFirst(d, k))
<1>1. /\ IsTable(d.ht0) /\ d.ht0.size > 0 /\ AtHome(d.ht0) /\ Unique(d.ht0)
      /\ IsTable(d.ht1) /\ AtHome(d.ht1) /\ Unique(d.ht1) /\ d.used \in Nat
      /\ is_rehashing(d) => d.ht1.size > 0
  BY DEF Sound, IsDict
<1>2. /\ IsFiniteSet(Nodes(d.ht0)) /\ IsFiniteSet(Nodes(d.ht1))
      /\ Cardinality(Nodes(d.ht0)) \in Nat /\ Cardinality(Nodes(d.ht1)) \in Nat
      /\ d.used >= Cardinality(Nodes(d.ht0)) + Cardinality(Nodes(d.ht1))
  BY FS_CardinalityType DEF Counted, get_all_length
<1>3. ASSUME NEW w, Sound(w), Counted(w)
      PROVE  Sound(shrink_if_needed(w)) /\ Counted(shrink_if_needed(w))
  <2>1. LargerOf(INIT_HT_SIZE, w.ht0.size \div 2) \in Nat
    <3>1. w.ht0.size \in Nat
      BY <1>3 DEF Sound, IsDict, IsTable
    <3>2. w.ht0.size \div 2 \in Nat
      BY <3>1
    <3> QED BY <3>2, DictAssumption DEF LargerOf
  <2> QED BY <1>3, <2>1, ShrinkSound, StartRehashCounted DEF shrink_if_needed
<1>4. CASE Found(d.ht0, k) # {}
  <2> DEFINE g == Unlink(d.ht0, k)
             w == WithMain(d, g, d.used - 1)
  <2>1. PICK e \in Nodes(d.ht0) : Found(d.ht0, k) = {e}
    BY <1>1, <1>4, FoundOne
  <2>2. /\ d.used - 1 \in Nat
        /\ IsFiniteSet(Nodes(d.ht0) \ {e})
        /\ Cardinality(Nodes(d.ht0) \ {e}) = Cardinality(Nodes(d.ht0)) - 1
    BY <1>1, CountedLess
  <2>3. /\ IsTable(g) /\ AtHome(g) /\ Unique(g) /\ g.size = d.ht0.size
        /\ Nodes(g) = Nodes(d.ht0) \ {e}
    BY <1>1, <2>1, UnlinkSound
  <2>4. Sound(w)
    BY <2>2, <2>3, WithMainSound
  <2>5. w.ht0 = g /\ w.ht1 = d.ht1 /\ w.used = d.used - 1
    BY DEF WithMain, Record
  <2>6. d.used - 1 >= Cardinality(Nodes(g)) + Cardinality(Nodes(d.ht1))
    BY <1>1, <1>2, <2>2, <2>3
  <2>7. Counted(w)
    BY <1>2, <2>2, <2>3, <2>5, <2>6 DEF Counted, get_all_length
  <2> HIDE DEF w
  <2>8. Sound(shrink_if_needed(w)) /\ Counted(shrink_if_needed(w))
    BY <2>4, <2>7, <1>3
  <2> USE DEF w
  <2> QED BY <1>4, <2>8 DEF EraseFirst
<1>5. CASE Found(d.ht0, k) = {} /\ is_rehashing(d) /\ Found(d.ht1, k) # {}
  <2> DEFINE g == Unlink(d.ht1, k)
             w == WithNew(d, g, d.used - 1)
  <2>1. PICK e \in Nodes(d.ht1) : Found(d.ht1, k) = {e}
    BY <1>1, <1>5, FoundOne
  <2>2. /\ d.used - 1 \in Nat
        /\ IsFiniteSet(Nodes(d.ht1) \ {e})
        /\ Cardinality(Nodes(d.ht1) \ {e}) = Cardinality(Nodes(d.ht1)) - 1
    BY <1>1, CountedLess, Z3T(30)
  <2>3. /\ IsTable(g) /\ AtHome(g) /\ Unique(g) /\ g.size = d.ht1.size
        /\ \A i \in 0 .. g.size-1 : g.bucket[i] \subseteq d.ht1.bucket[i]
        /\ Nodes(g) = Nodes(d.ht1) \ {e}
    BY <1>1, <1>5, <2>1, UnlinkSound
  <2>4. Sound(w)
    BY <2>2, <2>3, WithNewSound
  <2>5. w.ht0 = d.ht0 /\ w.ht1 = g /\ w.used = d.used - 1
    BY DEF WithNew, Record
  <2>6. d.used - 1 >= Cardinality(Nodes(d.ht0)) + Cardinality(Nodes(g))
    BY <1>1, <1>2, <2>2, <2>3
  <2>7. Counted(w)
    BY <1>2, <2>2, <2>3, <2>5, <2>6 DEF Counted, get_all_length
  <2> HIDE DEF w
  <2>8. Sound(shrink_if_needed(w)) /\ Counted(shrink_if_needed(w))
    BY <2>4, <2>7, <1>3
  <2> USE DEF w
  <2> QED BY <1>5, <2>8 DEF EraseFirst
<1>6. CASE Found(d.ht0, k) = {} /\ ~ (is_rehashing(d) /\ Found(d.ht1, k) # {})
  BY <1>6 DEF EraseFirst
<1> QED BY <1>4, <1>5, <1>6

-----------------------------------------------------------------------------
(* The invariant, and what follows from it. *)

IInv == Sound(dict) /\ Counted(dict)

(* Every call of set_field, del_field and rehash_step, in any order, on any
   keys, with any hash function and any sizes, keeps the tables in order and
   the count no smaller than the number of nodes.  *)
THEOREM Invariance == Spec => []IInv
<1>1. Init => IInv
  <2>1. NewDict.ht0 = Table(INIT_HT_SIZE) /\ NewDict.ht1 = Table(0) /\ NewDict.used = 0
    BY DEF NewDict, Record
  <2>2. \A n \in Nat : Nodes(Table(n)) = {}
    BY EmptyTable DEF Nodes
  <2>3. Nodes(NewDict.ht0) = {} /\ Nodes(NewDict.ht1) = {}
    BY <2>1, <2>2, DictAssumption
  <2>4. Counted(NewDict)
    BY <2>1, <2>3, FS_EmptySet DEF Counted, get_all_length
  <2> QED BY <2>4, NewDictSound DEF Init, IInv
<1>2. IInv /\ [Next]_dict => IInv'
  <2> SUFFICES ASSUME IInv, [Next]_dict
               PROVE  IInv'
    OBVIOUS
  <2>1. Sound(rehash_step(dict, 1)) /\ Counted(rehash_step(dict, 1))
    BY RehashStepSound, RehashStepCounted DEF IInv
  <2>2. ASSUME NEW k \in Key, NEW v \in Value, SetField(k, v)
        PROVE  IInv'
    BY <2>1, <2>2, StoreInMainSound, StoreInMainCounted DEF SetField, set_field, IInv
  <2>3. ASSUME NEW k \in Key, DelField(k)
        PROVE  IInv'
    BY <2>1, <2>3, EraseFirstSound DEF DelField, del_field, IInv
  <2>4. ASSUME NEW n \in Rounds, RehashStep(n)
        PROVE  IInv'
    BY <2>4, BoundAssumption, RehashStepSound, RehashStepCounted DEF RehashStep, IInv
  <2>5. CASE UNCHANGED dict
    BY <2>5 DEF IInv
  <2> QED BY <2>2, <2>3, <2>4, <2>5 DEF Next
<1> QED BY <1>1, <1>2, PTL DEF Spec

(* rehashidx_ stays within ht_[0], used_ never goes below zero, and ht_[1]
   is allocated exactly while a rehash is under way.  *)
THEOREM TypeCorrect == Spec => []TypeOK
<1>1. IInv => TypeOK
  BY DEF IInv, Sound, TypeOK
<1> QED BY <1>1, Invariance, PTL

(* Every node is where the walk for its key looks.  *)
THEOREM NodesAtHome == Spec => []HomeBuckets
<1>1. IInv => HomeBuckets
  BY DEF IInv, Sound, HomeBuckets
<1> QED BY <1>1, Invariance, PTL

(* No chain holds a key twice.  *)
THEOREM NoDuplicateInChain == Spec => []UniqueKeys
<1>1. IInv => UniqueKeys
  BY DEF IInv, Sound, UniqueKeys
<1> QED BY <1>1, Invariance, PTL

(* ht_[1] only holds keys whose bucket of ht_[0] the rehash has passed.  *)
THEOREM MovedInOrder == Spec => []NewTableOnlyPassed
<1>1. IInv => NewTableOnlyPassed
  BY DEF IInv, Sound, NewTableOnlyPassed
<1> QED BY <1>1, Invariance, PTL

(* used_ is never smaller than the number of nodes stored.  *)
THEOREM CountCovers == Spec => []UsedCoversNodes
<1>1. IInv => UsedCoversNodes
  BY DEF IInv, Counted, UsedCoversNodes
<1> QED BY <1>1, Invariance, PTL

LEMMA ReadAfterStore ==
    ASSUME NEW d, Sound(d), NEW k \in Key, NEW v \in Value
    PROVE  get_field(StoreInMain(d, k, v), k) = v
<1> DEFINE new == [key |-> k, value |-> v]
           old == Found(d.ht0, k)
           b == d.ht0.bucket[Slot(d.ht0, k)]
           g == WithBucket(d.ht0, k, (b \ old) \cup {new})
           s == StoreInMain(d, k, v)
<1>1. IsTable(d.ht0) /\ d.ht0.size > 0 /\ AtHome(d.ht0) /\ Unique(d.ht0)
  BY DEF Sound, IsDict
<1>2. Found(g, k) = {new}
  BY <1>1, ReplaceSound
<1>3. \A u : WithMain(d, g, u).ht0 = g
  BY DEF WithMain, Record
<1>4. \A w : expand_if_needed(w).ht0 = w.ht0
  BY DEF expand_if_needed, StartRehash, Record
<1>5. s.ht0 = g
  <2>1. old = {} => g = WithBucket(d.ht0, k, b \cup {new})
    OBVIOUS
  <2> QED BY <2>1, <1>3, <1>4 DEF StoreInMain
<1>6. (CHOOSE e \in {new} : TRUE).value = v
  <2>1. (CHOOSE e \in {new} : TRUE) \in {new}
    OBVIOUS
  <2> QED BY <2>1
<1>7. Found(s.ht0, k) = {new} /\ ValueIn({new}) = v
  BY <1>2, <1>5, <1>6 DEF ValueIn
<1> HIDE DEF s, new
<1>8. get_field(s, k) = v
  BY <1>7 DEF get_field
<1> QED BY <1>8 DEF s

(* After a set_field, get_field returns the value written, at every point of
   a rehash.  *)
THEOREM WritesAreRead == Spec => []ReadYourWrite
<1>1. IInv => ReadYourWrite
  BY RehashStepSound, ReadAfterStore DEF IInv, ReadYourWrite, set_field
<1> QED BY <1>1, Invariance, PTL

-----------------------------------------------------------------------------
(***************************************************************************)
(* The refinement.  The hash table implements the two-layer map: every     *)
(* call is a write, a removal, the end of a rehash, or nothing.            *)
(***************************************************************************)

\* The layers, of a dict and one key.
TopAt(d, k)  == IF Passed(d, k) THEN ValueIn(Found(d.ht0, k)) ELSE NoValue
BaseAt(d, k) == IF Passed(d, k) THEN ValueIn(Found(d.ht1, k)) ELSE ValueIn(Found(d.ht0, k))

SameAt(d, e, k) == TopAt(e, k) = TopAt(d, k) /\ BaseAt(e, k) = BaseAt(d, k)

Same(d, e) == \A k \in Key : SameAt(d, e, k)

\* From d to e a rehash has ended.
Ended(d, e) ==
    /\ is_rehashing(d) /\ ~ is_rehashing(e)
    /\ \A k \in Key : TopAt(e, k) = NoValue /\ BaseAt(e, k) = BaseAt(d, k)

LEMMA Tables ==
    ASSUME NEW d, Sound(d)
    PROVE  /\ IsTable(d.ht0) /\ d.ht0.size > 0 /\ AtHome(d.ht0) /\ Unique(d.ht0)
           /\ IsTable(d.ht1) /\ AtHome(d.ht1) /\ Unique(d.ht1)
           /\ is_rehashing(d) <=> d.ht1.size > 0
           /\ d.rehashidx \in {-1} \cup (0 .. d.ht0.size)
           /\ d.used \in Nat
           /\ \A k \in Key : Slot(d.ht0, k) \in 0 .. d.ht0.size-1
           /\ is_rehashing(d) => \A k \in Key : Slot(d.ht1, k) \in 0 .. d.ht1.size-1
<1>1. /\ IsTable(d.ht0) /\ d.ht0.size > 0 /\ AtHome(d.ht0) /\ Unique(d.ht0)
      /\ IsTable(d.ht1) /\ AtHome(d.ht1) /\ Unique(d.ht1)
      /\ is_rehashing(d) <=> d.ht1.size > 0
      /\ d.rehashidx \in {-1} \cup (0 .. d.ht0.size)
      /\ d.used \in Nat
  BY DEF Sound, IsDict
<1>2. d.ht0.size \in Nat \ {0} /\ (is_rehashing(d) => d.ht1.size \in Nat \ {0})
  BY <1>1 DEF IsTable
<1> QED BY <1>1, <1>2, SlotInRange

LEMMA EmptyValue == ValueIn({}) = NoValue
BY DEF ValueIn

(* What a walk in ht_[1] finds has been passed in ht_[0].  *)
LEMMA FoundInNew ==
    ASSUME NEW d, Sound(d), is_rehashing(d), NEW k \in Key, ~ Passed(d, k)
    PROVE  Found(d.ht1, k) = {}
<1>1. Slot(d.ht1, k) \in 0 .. d.ht1.size-1
  BY Tables
<1> QED BY <1>1 DEF Found, Sound, OnlyPassed

-----------------------------------------------------------------------------
(* The steps of a rehash. *)

LEMMA StartSame ==
    ASSUME NEW d, Sound(d), ~ is_rehashing(d), NEW n \in Nat \ {0}
    PROVE  Same(d, StartRehash(d, n))
<1> DEFINE r == StartRehash(d, n)
<1>1. r.ht0 = d.ht0 /\ r.rehashidx = 0
  BY DEF StartRehash, Record
<1>2. \A k \in Key : ~ Passed(d, k) /\ ~ Passed(r, k)
  BY <1>1, Tables DEF Passed
<1> QED BY <1>1, <1>2 DEF Same, SameAt, TopAt, BaseAt

LEMMA ExpandSame ==
    ASSUME NEW d, Sound(d)
    PROVE  /\ Same(d, expand_if_needed(d))
           /\ is_rehashing(d) => expand_if_needed(d) = d
<1>1. 2 * d.ht0.size \in Nat \ {0}
  BY DEF Sound, IsDict, IsTable
<1>2. Same(d, d)
  BY DEF Same, SameAt
<1> QED BY <1>1, <1>2, StartSame DEF expand_if_needed

LEMMA ShrinkSame ==
    ASSUME NEW d, Sound(d)
    PROVE  /\ Same(d, shrink_if_needed(d))
           /\ is_rehashing(d) => shrink_if_needed(d) = d
<1>1. LargerOf(INIT_HT_SIZE, d.ht0.size \div 2) \in Nat \ {0}
  <2>1. d.ht0.size \in Nat
    BY DEF Sound, IsDict, IsTable
  <2>2. d.ht0.size \div 2 \in Nat
    BY <2>1
  <2> QED BY <2>2, DictAssumption DEF LargerOf
<1>2. Same(d, d)
  BY DEF Same, SameAt
<1> QED BY <1>1, <1>2, StartSame DEF shrink_if_needed

(* Relinking nodes changes no layer: what was read in ht_[0] is the base,
   and is found in ht_[1] afterwards, where no other node had its key.  *)
LEMMA PassSame ==
    ASSUME NEW d, Sound(d), is_rehashing(d), NEW j \in d.rehashidx .. d.ht0.size
    PROVE  Same(d, PassBuckets(d, j))
<1> DEFINE p == PassBuckets(d, j)
           passed == d.rehashidx .. j-1
           moved == UNION {d.ht0.bucket[i] : i \in passed}
           left == [i \in 0 .. d.ht0.size-1 |->
                      IF i \in passed THEN {} ELSE d.ht0.bucket[i]]
           filled == [i \in 0 .. d.ht1.size-1 |->
                        d.ht1.bucket[i] \cup {e \in moved : Slot(d.ht1, e.key) = i}]
<1>1. /\ p.ht0 = [size |-> d.ht0.size, bucket |-> left]
      /\ p.ht1 = [size |-> d.ht1.size, bucket |-> filled]
      /\ p.rehashidx = j
  BY DEF PassBuckets, Record
<1>2. /\ d.rehashidx \in Nat /\ j \in Nat /\ d.ht0.size \in Nat
      /\ d.rehashidx <= j /\ j <= d.ht0.size
      /\ passed \subseteq 0 .. d.ht0.size-1
  BY DEF Sound, IsDict, IsTable, is_rehashing
<1>3. /\ p.ht0.size = d.ht0.size /\ p.ht0.bucket = left
      /\ p.ht1.size = d.ht1.size /\ p.ht1.bucket = filled
  BY <1>1
<1> HIDE DEF p
<1> SUFFICES ASSUME NEW k \in Key PROVE SameAt(d, p, k)
  BY DEF Same, p
<1> DEFINE s == Slot(d.ht0, k)
           t == Slot(d.ht1, k)
<1>4. s \in 0 .. d.ht0.size-1 /\ t \in 0 .. d.ht1.size-1
  BY Tables
<1>5. Slot(p.ht0, k) = s /\ Slot(p.ht1, k) = t
  BY <1>3, SlotOfSize
<1>6. /\ Passed(d, k) <=> s < d.rehashidx
      /\ Passed(p, k) <=> s < j
  BY <1>1, <1>2, <1>5 DEF Passed, is_rehashing
<1>7. /\ Found(p.ht0, k) = {e \in left[s] : e.key = k}
      /\ Found(p.ht1, k) = {e \in filled[t] : e.key = k}
      /\ Found(d.ht0, k) = {e \in d.ht0.bucket[s] : e.key = k}
      /\ Found(d.ht1, k) = {e \in d.ht1.bucket[t] : e.key = k}
  BY <1>3, <1>5 DEF Found
<1>8. \A e : e \in moved /\ e.key = k <=> s \in passed /\ e \in Found(d.ht0, k)
  <2>1. \A i \in passed : \A e \in d.ht0.bucket[i] : Slot(d.ht0, e.key) = i
    BY <1>2 DEF Sound, AtHome
  <2> QED BY <1>7, <2>1
<1>9. \A e \in moved : e.key = k => Slot(d.ht1, e.key) = t
  OBVIOUS
<1>10. Found(p.ht1, k) = Found(d.ht1, k) \cup (IF s \in passed THEN Found(d.ht0, k) ELSE {})
  <2>1. filled[t] = d.ht1.bucket[t] \cup {e \in moved : Slot(d.ht1, e.key) = t}
    BY <1>4
  <2> HIDE DEF moved, filled, s, t, passed
  <2> QED BY <2>1, <1>7, <1>8, <1>9
<1>11. Found(p.ht0, k) = IF s \in passed THEN {} ELSE Found(d.ht0, k)
  BY <1>4, <1>7
<1>12. CASE s < d.rehashidx
  <2>1. s \notin passed /\ Passed(d, k) /\ Passed(p, k)
    BY <1>2, <1>4, <1>6, <1>12
  <2> QED BY <2>1, <1>10, <1>11 DEF SameAt, TopAt, BaseAt
<1>13. CASE s \in passed
  <2>1. ~ Passed(d, k) /\ Passed(p, k)
    BY <1>2, <1>4, <1>6, <1>13
  <2>2. Found(d.ht1, k) = {}
    BY <2>1, FoundInNew
  <2>3. Found(p.ht0, k) = {} /\ Found(p.ht1, k) = Found(d.ht0, k)
    BY <1>10, <1>11, <1>13, <2>2
  <2> QED BY <2>1, <2>3, EmptyValue DEF SameAt, TopAt, BaseAt
<1>14. CASE ~ (s < d.rehashidx) /\ s \notin passed
  <2>1. ~ Passed(d, k) /\ ~ Passed(p, k)
    BY <1>2, <1>4, <1>6, <1>14
  <2> QED BY <2>1, <1>11, <1>14 DEF SameAt, TopAt, BaseAt
<1> QED BY <1>12, <1>13, <1>14

(* Replacing ht_[0] by ht_[1] when all is passed drops the top layer.  *)
LEMMA FinishEnds ==
    ASSUME NEW d, Sound(d), is_rehashing(d), d.rehashidx = d.ht0.size
    PROVE  Ended(d, FinishRehash(d))
<1> DEFINE r == FinishRehash(d)
<1>1. r.ht0 = d.ht1 /\ r.rehashidx = -1
  BY DEF FinishRehash, Record
<1>2. ~ is_rehashing(r)
  BY <1>1 DEF is_rehashing
<1>3. \A k \in Key : Passed(d, k) /\ ~ Passed(r, k)
  <2>1. d.ht0.size \in Nat /\ \A k \in Key : Slot(d.ht0, k) \in 0 .. d.ht0.size-1
    BY Tables DEF IsTable
  <2> QED BY <1>2, <2>1 DEF Passed
<1> QED BY <1>1, <1>2, <1>3 DEF Ended, TopAt, BaseAt

LEMMA StepLayers ==
    ASSUME NEW d, Sound(d), NEW n \in Nat
    PROVE  LET e == rehash_step(d, n)
           IN \/ Same(d, e) /\ (is_rehashing(e) <=> is_rehashing(d))
              \/ Ended(d, e)
<1>1. CASE ~ is_rehashing(d) \/ d.used = 0
  BY <1>1 DEF rehash_step, Same, SameAt
<1>2. CASE is_rehashing(d) /\ d.used # 0
  <2> DEFINE p(j) == PassBuckets(d, j)
  <2>1. d.ht0.size \in d.rehashidx .. d.ht0.size
    BY <1>2 DEF Sound, IsDict, IsTable, is_rehashing
  <2>2. \A j \in d.rehashidx .. d.ht0.size :
           /\ Sound(p(j)) /\ Same(d, p(j)) /\ is_rehashing(p(j))
           /\ p(j).rehashidx = j /\ p(j).ht0.size = d.ht0.size
    <3> TAKE j \in d.rehashidx .. d.ht0.size
    <3>1. /\ Sound(p(j)) /\ Same(d, p(j))
          /\ p(j).rehashidx = j /\ p(j).ht0.size = d.ht0.size
      BY <1>2, PassBucketsSound, PassSame
    <3>2. j # -1
      BY <1>2, Tables DEF is_rehashing
    <3> QED BY <3>1, <3>2 DEF is_rehashing
  <2>3. Ended(d, FinishRehash(p(d.ht0.size)))
    <3> DEFINE q == p(d.ht0.size)
    <3>1. Sound(q) /\ Same(d, q) /\ is_rehashing(q) /\ q.rehashidx = q.ht0.size
      BY <2>1, <2>2
    <3> HIDE DEF q
    <3>2. Ended(q, FinishRehash(q))
      BY <3>1, FinishEnds
    <3>3. Ended(d, FinishRehash(q))
      BY <1>2, <3>1, <3>2 DEF Ended, Same, SameAt
    <3> QED BY <3>3 DEF q
  <2>4. \A j \in LoopExit(d, n) : Same(d, p(j)) /\ is_rehashing(p(j))
    BY <2>2 DEF LoopExit
  <2> QED BY <1>2, <2>3, <2>4 DEF rehash_step
<1> QED BY <1>1, <1>2

-----------------------------------------------------------------------------
(* Writes and removals. *)

(* Replacing nodes of one key leaves those of another alone.  *)
LEMMA FoundOther ==
    ASSUME NEW h, IsTable(h), h.size > 0, NEW k \in Key, NEW g \in Key, g # k, NEW N,
           \A e \in N : e.key = k
    PROVE  Found(WithBucket(h, k, (h.bucket[Slot(h, k)] \ Found(h, k)) \cup N), g) = Found(h, g)
<1> DEFINE s == Slot(h, k)
           B == (h.bucket[s] \ Found(h, k)) \cup N
           w == WithBucket(h, k, B)
<1>1. s \in 0 .. h.size-1 /\ Slot(h, g) \in 0 .. h.size-1
  BY SlotInRange DEF IsTable
<1>2. w.size = h.size /\ w.bucket = [h.bucket EXCEPT ![s] = B]
  BY DEF WithBucket
<1>3. Slot(w, g) = Slot(h, g)
  BY <1>2, SlotOfSize
<1>4. w.bucket[Slot(h, g)] = IF Slot(h, g) = s THEN B ELSE h.bucket[Slot(h, g)]
  BY <1>1, <1>2 DEF IsTable
<1>5. {e \in B : e.key = g} = {e \in h.bucket[s] : e.key = g}
  BY DEF Found
<1> HIDE DEF w, B, s
<1>6. Found(w, g) = Found(h, g)
  BY <1>3, <1>4, <1>5 DEF Found
<1> QED BY <1>6 DEF w, B, s

LEMMA UnlinkFound ==
    ASSUME NEW h, IsTable(h), h.size > 0, NEW k \in Key
    PROVE  /\ Unlink(h, k).size = h.size
           /\ Found(Unlink(h, k), k) = {}
           /\ \A g \in Key : g # k => Found(Unlink(h, k), g) = Found(h, g)
<1> DEFINE u == Unlink(h, k)
           s == Slot(h, k)
           B == h.bucket[s] \ Found(h, k)
<1>1. s \in 0 .. h.size-1
  BY SlotInRange DEF IsTable
<1>2. u.size = h.size /\ u.bucket = [h.bucket EXCEPT ![s] = B]
  BY DEF Unlink, WithBucket
<1>3. Slot(u, k) = s /\ u.bucket[s] = B
  BY <1>1, <1>2, SlotOfSize DEF IsTable
<1>4. Found(u, k) = {}
  BY <1>3 DEF Found
<1>6. \A g \in Key : g # k => Found(u, g) = Found(h, g)
  <2> DEFINE N == {}
  <2>1. u = WithBucket(h, k, (h.bucket[Slot(h, k)] \ Found(h, k)) \cup N)
    BY DEF Unlink
  <2>2. \A e \in N : e.key = k
    OBVIOUS
  <2> HIDE DEF N, u
  <2> QED BY <2>1, <2>2, FoundOther
<1> QED BY <1>2, <1>4, <1>6

\* From d to e only what is said of k has changed, in one of the layers.
BaseSet(d, e, k, x) ==
    /\ BaseAt(e, k) = x /\ TopAt(e, k) = TopAt(d, k)
    /\ \A g \in Key : g # k => SameAt(d, e, g)

TopSet(d, e, k, x) ==
    /\ TopAt(e, k) = x /\ BaseAt(e, k) = BaseAt(d, k)
    /\ \A g \in Key : g # k => SameAt(d, e, g)

(* A table in the place of ht_[0] that differs in what a walk for k finds.  *)
LEMMA MainLayers ==
    ASSUME NEW d, NEW h, h.size = d.ht0.size, NEW u, NEW k \in Key,
           \A g \in Key : g # k => Found(h, g) = Found(d.ht0, g)
    PROVE  LET w == WithMain(d, h, u)
               x == ValueIn(Found(h, k))
           IN /\ is_rehashing(w) <=> is_rehashing(d)
              /\ Passed(d, k) => TopSet(d, w, k, x)
              /\ ~ Passed(d, k) => BaseSet(d, w, k, x)
<1> DEFINE w == WithMain(d, h, u)
<1>1. w.ht0 = h /\ w.ht1 = d.ht1 /\ w.rehashidx = d.rehashidx
  BY DEF WithMain, Record
<1>2. is_rehashing(w) <=> is_rehashing(d)
  BY <1>1 DEF is_rehashing
<1>3. \A g : Passed(w, g) <=> Passed(d, g)
  BY <1>1, <1>2, SlotOfSize DEF Passed
<1> HIDE DEF w
<1>4. \A g \in Key : g # k => SameAt(d, w, g)
  BY <1>1, <1>3 DEF SameAt, TopAt, BaseAt
<1>5. Passed(d, k) => TopSet(d, w, k, ValueIn(Found(h, k)))
  BY <1>1, <1>3, <1>4 DEF TopSet, TopAt, BaseAt
<1>6. ~ Passed(d, k) => BaseSet(d, w, k, ValueIn(Found(h, k)))
  BY <1>1, <1>3, <1>4 DEF BaseSet, TopAt, BaseAt
<1> QED BY <1>2, <1>5, <1>6 DEF w

LEMMA SetThenSame ==
    ASSUME NEW d, NEW w, NEW e, Same(w, e), NEW k \in Key, NEW x
    PROVE  /\ BaseSet(d, w, k, x) => BaseSet(d, e, k, x)
           /\ TopSet(d, w, k, x) => TopSet(d, e, k, x)
BY DEF Same, SameAt, BaseSet, TopSet

LEMMA StoreLayers ==
    ASSUME NEW d, Sound(d), NEW k \in Key, NEW v \in Value
    PROVE  LET e == StoreInMain(d, k, v)
           IN /\ is_rehashing(d) => is_rehashing(e)
              /\ \/ is_rehashing(d) /\ TopSet(d, e, k, v)
                 \/ ~ Passed(d, k) /\ BaseSet(d, e, k, v)
<1> DEFINE new == [key |-> k, value |-> v]
           b == d.ht0.bucket[Slot(d.ht0, k)]
           g == WithBucket(d.ht0, k, (b \ Found(d.ht0, k)) \cup {new})
           e == StoreInMain(d, k, v)
<1>1. IsTable(d.ht0) /\ d.ht0.size > 0 /\ AtHome(d.ht0) /\ Unique(d.ht0) /\ d.used \in Nat
  BY Tables
<1>2. /\ IsTable(g) /\ AtHome(g) /\ Unique(g) /\ g.size = d.ht0.size
      /\ Found(g, k) = {new}
  BY <1>1, ReplaceSound
<1>3. \A y \in Key : y # k => Found(g, y) = Found(d.ht0, y)
  <2> DEFINE N == {new}
  <2>1. g = WithBucket(d.ht0, k, (d.ht0.bucket[Slot(d.ht0, k)] \ Found(d.ht0, k)) \cup N)
    OBVIOUS
  <2>2. \A y \in N : y.key = k
    OBVIOUS
  <2> HIDE DEF N, g
  <2> QED BY <1>1, <2>1, <2>2, FoundOther, ZenonT(30)
<1>4. ValueIn({new}) = v
  <2>1. (CHOOSE y \in {new} : TRUE) = new
    OBVIOUS
  <2> QED BY <2>1 DEF ValueIn
<1>5. \E u \in Nat : LET w == WithMain(d, g, u) IN e = w \/ e = expand_if_needed(w)
  <2>1. CASE Found(d.ht0, k) # {}
    BY <1>1, <2>1 DEF StoreInMain
  <2>2. CASE Found(d.ht0, k) = {}
    <3>1. g = WithBucket(d.ht0, k, b \cup {new})
      BY <2>2
    <3>2. e = expand_if_needed(WithMain(d, g, d.used + 1)) /\ d.used + 1 \in Nat
      BY <1>1, <2>2, <3>1 DEF StoreInMain
    <3> QED BY <3>2
  <2> QED BY <2>1, <2>2
<1> HIDE DEF g, e, new
<1>6. PICK u \in Nat : LET w == WithMain(d, g, u) IN e = w \/ e = expand_if_needed(w)
  BY <1>5
<1> DEFINE w == WithMain(d, g, u)
<1>7. Sound(w)
  BY <1>2, WithMainSound
<1>8. /\ is_rehashing(w) <=> is_rehashing(d)
      /\ Passed(d, k) => TopSet(d, w, k, v)
      /\ ~ Passed(d, k) => BaseSet(d, w, k, v)
  BY <1>2, <1>3, <1>4, MainLayers
<1> HIDE DEF w
<1>9. Same(w, e) /\ (is_rehashing(w) => e = w)
  <2>1. e = w \/ e = expand_if_needed(w)
    BY <1>6 DEF w
  <2> QED BY <1>7, <2>1, ExpandSame DEF Same, SameAt
<1>10. Passed(d, k) => is_rehashing(d)
  BY DEF Passed
<1>11. /\ is_rehashing(d) => is_rehashing(e)
       /\ \/ is_rehashing(d) /\ TopSet(d, e, k, v)
          \/ ~ Passed(d, k) /\ BaseSet(d, e, k, v)
  BY <1>8, <1>9, <1>10, SetThenSame
<1> QED BY <1>11 DEF e

(* The same for ht_[1].  *)
LEMMA NewLayers ==
    ASSUME NEW d, NEW h, NEW u, NEW k \in Key, Passed(d, k),
           \A g \in Key : g # k => Found(h, g) = Found(d.ht1, g)
    PROVE  LET w == WithNew(d, h, u)
           IN /\ is_rehashing(w) <=> is_rehashing(d)
              /\ BaseSet(d, w, k, ValueIn(Found(h, k)))
<1> DEFINE w == WithNew(d, h, u)
<1>1. w.ht0 = d.ht0 /\ w.ht1 = h /\ w.rehashidx = d.rehashidx
  BY DEF WithNew, Record
<1>2. is_rehashing(w) <=> is_rehashing(d)
  BY <1>1 DEF is_rehashing
<1>3. \A g : Passed(w, g) <=> Passed(d, g)
  BY <1>1, <1>2 DEF Passed
<1> HIDE DEF w
<1>4. BaseSet(d, w, k, ValueIn(Found(h, k)))
  BY <1>1, <1>3 DEF BaseSet, SameAt, TopAt, BaseAt
<1> QED BY <1>2, <1>4 DEF w

LEMMA FoundValue ==
    ASSUME NEW h, IsTable(h), h.size > 0, NEW k \in Key, Found(h, k) # {}
    PROVE  ValueIn(Found(h, k)) \in Value /\ ValueIn(Found(h, k)) # NoValue
<1>1. Slot(h, k) \in 0 .. h.size-1
  BY SlotInRange DEF IsTable
<1>2. Found(h, k) \subseteq Entry
  BY <1>1 DEF Found, IsTable
<1>3. (CHOOSE e \in Found(h, k) : TRUE) \in Entry
  BY <1>2
<1>4. ValueIn(Found(h, k)) \in Value
  BY <1>3 DEF ValueIn, Entry
<1> QED BY <1>4, DictAssumption

LEMMA EraseLayers ==
    ASSUME NEW d, Sound(d), Counted(d), NEW k \in Key
    PROVE  LET e == EraseFirst(d, k)
           IN /\ is_rehashing(d) => is_rehashing(e)
              /\ \/ /\ is_rehashing(d) /\ TopAt(d, k) # NoValue
                    /\ TopSet(d, e, k, NoValue)
                 \/ TopAt(d, k) = NoValue /\ BaseSet(d, e, k, NoValue)
<1>1. /\ IsTable(d.ht0) /\ d.ht0.size > 0 /\ AtHome(d.ht0) /\ Unique(d.ht0)
      /\ IsTable(d.ht1) /\ AtHome(d.ht1) /\ Unique(d.ht1) /\ d.used \in Nat
      /\ is_rehashing(d) => d.ht1.size > 0
  BY Tables
<1>2. Passed(d, k) => is_rehashing(d)
  BY DEF Passed
<1>3. CASE Found(d.ht0, k) # {}
  <2> DEFINE h == Unlink(d.ht0, k)
             w == WithMain(d, h, d.used - 1)
             e == EraseFirst(d, k)
  <2>1. d.used - 1 \in Nat
    BY <1>1, <1>3, FoundOne, CountedLess
  <2>2. IsTable(h) /\ AtHome(h) /\ Unique(h) /\ h.size = d.ht0.size
    BY <1>1, UnlinkSound
  <2>3. Sound(w)
    BY <2>1, <2>2, WithMainSound
  <2>4. Found(h, k) = {} /\ \A g \in Key : g # k => Found(h, g) = Found(d.ht0, g)
    BY <1>1, UnlinkFound
  <2>5. e = shrink_if_needed(w)
    BY <1>3 DEF EraseFirst
  <2> HIDE DEF e, h
  <2>6. /\ is_rehashing(w) <=> is_rehashing(d)
        /\ Passed(d, k) => TopSet(d, w, k, NoValue)
        /\ ~ Passed(d, k) => BaseSet(d, w, k, NoValue)
    BY <2>2, <2>4, MainLayers, EmptyValue
  <2> HIDE DEF w
  <2>7. Same(w, e) /\ (is_rehashing(w) => e = w)
    BY <2>3, <2>5, ShrinkSame
  <2>8. ValueIn(Found(d.ht0, k)) # NoValue
    BY <1>1, <1>3, FoundValue
  <2>9. IF Passed(d, k) THEN TopAt(d, k) # NoValue ELSE TopAt(d, k) = NoValue
    BY <2>8 DEF TopAt
  <2>10. /\ is_rehashing(d) => is_rehashing(e)
         /\ \/ is_rehashing(d) /\ TopAt(d, k) # NoValue /\ TopSet(d, e, k, NoValue)
            \/ TopAt(d, k) = NoValue /\ BaseSet(d, e, k, NoValue)
    BY <1>2, <2>6, <2>7, <2>9, SetThenSame
  <2> QED BY <2>10 DEF e
<1>4. CASE Found(d.ht0, k) = {} /\ is_rehashing(d) /\ Found(d.ht1, k) # {}
  <2> DEFINE h == Unlink(d.ht1, k)
             w == WithNew(d, h, d.used - 1)
             e == EraseFirst(d, k)
  <2>1. d.used - 1 \in Nat
    BY <1>1, <1>4, FoundOne, CountedLess
  <2>2. /\ IsTable(h) /\ AtHome(h) /\ Unique(h) /\ h.size = d.ht1.size
        /\ \A i \in 0 .. h.size-1 : h.bucket[i] \subseteq d.ht1.bucket[i]
    BY <1>1, <1>4, UnlinkSound
  <2>3. Sound(w)
    BY <2>1, <2>2, WithNewSound
  <2>4. Found(h, k) = {} /\ \A g \in Key : g # k => Found(h, g) = Found(d.ht1, g)
    BY <1>1, <1>4, UnlinkFound
  <2>5. e = shrink_if_needed(w)
    BY <1>4 DEF EraseFirst
  <2>6. Passed(d, k)
    BY <1>4, FoundInNew
  <2> HIDE DEF e, h
  <2>7. (is_rehashing(w) <=> is_rehashing(d)) /\ BaseSet(d, w, k, NoValue)
    BY <2>4, <2>6, NewLayers, EmptyValue
  <2> HIDE DEF w
  <2>8. Same(w, e) /\ (is_rehashing(w) => e = w)
    BY <2>3, <2>5, ShrinkSame
  <2>9. TopAt(d, k) = NoValue
    BY <1>4, EmptyValue DEF TopAt
  <2>10. (is_rehashing(d) => is_rehashing(e)) /\ BaseSet(d, e, k, NoValue)
    BY <2>7, <2>8, SetThenSame
  <2> QED BY <2>9, <2>10 DEF e
<1>5. CASE Found(d.ht0, k) = {} /\ ~ (is_rehashing(d) /\ Found(d.ht1, k) # {})
  <2>1. EraseFirst(d, k) = d
    BY <1>5 DEF EraseFirst
  <2>2. TopAt(d, k) = NoValue /\ BaseAt(d, k) = NoValue
    BY <1>2, <1>5, EmptyValue DEF TopAt, BaseAt
  <2>3. BaseSet(d, d, k, NoValue)
    BY <2>2 DEF BaseSet, SameAt
  <2> QED BY <2>1, <2>2, <2>3
<1> QED BY <1>3, <1>4, <1>5

-----------------------------------------------------------------------------
(* The refinement. *)

Tops(d)  == [k \in Key |-> TopAt(d, k)]
Bases(d) == [k \in Key |-> BaseAt(d, k)]

LEMMA Layers ==
    /\ TopLayer = Tops(dict) /\ BaseLayer = Bases(dict)
    /\ TopLayer' = Tops(dict') /\ BaseLayer' = Bases(dict')
BY DEF TopLayer, BaseLayer, Tops, Bases, TopAt, BaseAt, Passed, is_rehashing, Found, Slot

LEMMA SetLayers ==
    ASSUME NEW d, NEW e, NEW k \in Key, NEW x
    PROVE  /\ TopSet(d, e, k, x) => Tops(e) = [Tops(d) EXCEPT ![k] = x] /\ Bases(e) = Bases(d)
           /\ BaseSet(d, e, k, x) => Bases(e) = [Bases(d) EXCEPT ![k] = x] /\ Tops(e) = Tops(d)
<1>1. ASSUME TopSet(d, e, k, x)
      PROVE  Tops(e) = [Tops(d) EXCEPT ![k] = x] /\ Bases(e) = Bases(d)
  BY <1>1 DEF TopSet, SameAt, Tops, Bases
<1>2. ASSUME BaseSet(d, e, k, x)
      PROVE  Bases(e) = [Bases(d) EXCEPT ![k] = x] /\ Tops(e) = Tops(d)
  BY <1>2 DEF BaseSet, SameAt, Tops, Bases
<1> QED BY <1>1, <1>2

LEMMA KeptLayers ==
    ASSUME NEW d, NEW e
    PROVE  /\ Same(d, e) => Tops(e) = Tops(d) /\ Bases(e) = Bases(d)
           /\ Ended(d, e) => Tops(e) = LM!Nothing /\ Bases(e) = Bases(d)
<1>1. Same(d, e) => Tops(e) = Tops(d) /\ Bases(e) = Bases(d)
  BY DEF Same, SameAt, Tops, Bases
<1>2. Ended(d, e) => Tops(e) = LM!Nothing /\ Bases(e) = Bases(d)
  BY DEF Ended, Tops, Bases, LM!Nothing
<1> QED BY <1>1, <1>2

(* A call that takes one step of a rehash, then changes what is said of k.  *)
LEMMA BaseChanges ==
    ASSUME NEW d, NEW k \in Key, NEW x,
           \/ Same(dict, d) /\ (is_rehashing(d) <=> is_rehashing(dict))
           \/ Ended(dict, d),
           TopAt(d, k) = NoValue, BaseSet(d, dict', k, x),
           is_rehashing(d) => is_rehashing(dict')
    PROVE  LM!ChangeBase(k, x)
<1>1. /\ TopLayer = Tops(dict) /\ BaseLayer = Bases(dict)
      /\ TopLayer' = Tops(dict') /\ BaseLayer' = Bases(dict')
  BY Layers
<1>2. Bases(dict') = [Bases(d) EXCEPT ![k] = x] /\ Tops(dict') = Tops(d)
  BY SetLayers
<1>3. is_rehashing(dict)' = is_rehashing(dict') /\ is_rehashing(dict') \in BOOLEAN
  BY DEF is_rehashing
<1>4. CASE Same(dict, d) /\ (is_rehashing(d) <=> is_rehashing(dict))
  <2>1. Tops(d) = Tops(dict) /\ Bases(d) = Bases(dict)
    BY <1>4, KeptLayers
  <2>2. Tops(dict)[k] = NoValue
    BY <2>1 DEF Tops
  <2>3. is_rehashing(dict) => is_rehashing(dict')
    BY <1>4
  <2> QED BY <1>1, <1>2, <1>3, <2>1, <2>2, <2>3 DEF LM!ChangeBase
<1>5. CASE Ended(dict, d)
  <2>1. Tops(d) = LM!Nothing /\ Bases(d) = Bases(dict)
    BY <1>5, KeptLayers
  <2>2. is_rehashing(dict)
    BY <1>5 DEF Ended
  <2> QED BY <1>1, <1>2, <1>3, <2>1, <2>2 DEF LM!ChangeBase
<1> QED BY <1>4, <1>5

LEMMA TopChanges ==
    ASSUME NEW d, NEW k \in Key, NEW x,
           Same(dict, d), is_rehashing(d) <=> is_rehashing(dict),
           is_rehashing(d), is_rehashing(dict'), TopSet(d, dict', k, x)
    PROVE  LM!ChangeTop(k, x)
<1>1. /\ TopLayer = Tops(dict) /\ BaseLayer = Bases(dict)
      /\ TopLayer' = Tops(dict') /\ BaseLayer' = Bases(dict')
  BY Layers
<1>2. /\ Tops(dict') = [Tops(d) EXCEPT ![k] = x] /\ Bases(dict') = Bases(d)
      /\ Tops(d) = Tops(dict) /\ Bases(d) = Bases(dict)
  BY SetLayers, KeptLayers
<1>3. is_rehashing(dict)' = is_rehashing(dict)
  BY DEF is_rehashing
<1> QED BY <1>1, <1>2, <1>3 DEF LM!ChangeTop

LEMMA SetFieldWrites ==
    ASSUME IInv, NEW k \in Key, NEW v \in Value, SetField(k, v)
    PROVE  LM!Write(k, v)
<1> DEFINE d == rehash_step(dict, 1)
<1>1. Sound(dict) /\ Sound(d)
  BY RehashStepSound DEF IInv
<1>2. \/ Same(dict, d) /\ (is_rehashing(d) <=> is_rehashing(dict))
      \/ Ended(dict, d)
  BY <1>1, StepLayers
<1>3. dict' = StoreInMain(d, k, v)
  BY DEF SetField, set_field
<1> HIDE DEF d
<1>4. /\ is_rehashing(d) => is_rehashing(dict')
      /\ \/ is_rehashing(d) /\ TopSet(d, dict', k, v)
         \/ ~ Passed(d, k) /\ BaseSet(d, dict', k, v)
  BY <1>1, <1>3, StoreLayers
<1>5. CASE is_rehashing(d) /\ TopSet(d, dict', k, v)
  <2>1. Same(dict, d) /\ (is_rehashing(d) <=> is_rehashing(dict))
    BY <1>2, <1>5 DEF Ended
  <2> QED BY <1>4, <1>5, <2>1, TopChanges DEF LM!Write
<1>6. CASE ~ Passed(d, k) /\ BaseSet(d, dict', k, v)
  <2>1. TopAt(d, k) = NoValue
    BY <1>6 DEF TopAt
  <2> QED BY <1>2, <1>4, <1>6, <2>1, BaseChanges DEF LM!Write
<1> QED BY <1>4, <1>5, <1>6

LEMMA DelFieldRemoves ==
    ASSUME IInv, NEW k \in Key, DelField(k)
    PROVE  LM!Remove(k)
<1> DEFINE d == rehash_step(dict, 1)
<1>1. Sound(dict) /\ Sound(d) /\ Counted(d)
  BY RehashStepSound, RehashStepCounted DEF IInv
<1>2. \/ Same(dict, d) /\ (is_rehashing(d) <=> is_rehashing(dict))
      \/ Ended(dict, d)
  BY <1>1, StepLayers
<1>3. dict' = EraseFirst(d, k)
  BY DEF DelField, del_field
<1> HIDE DEF d
<1>4. /\ is_rehashing(d) => is_rehashing(dict')
      /\ \/ /\ is_rehashing(d) /\ TopAt(d, k) # NoValue
            /\ TopSet(d, dict', k, NoValue)
         \/ TopAt(d, k) = NoValue /\ BaseSet(d, dict', k, NoValue)
  BY <1>1, <1>3, EraseLayers
<1>5. CASE /\ is_rehashing(d) /\ TopAt(d, k) # NoValue
           /\ TopSet(d, dict', k, NoValue)
  <2>1. Same(dict, d) /\ (is_rehashing(d) <=> is_rehashing(dict))
    BY <1>2, <1>5 DEF Ended
  <2>2. LM!ChangeTop(k, NoValue)
    BY <1>4, <1>5, <2>1, TopChanges
  <2>3. TopLayer[k] # NoValue
    BY <1>5, <2>1, Layers DEF Same, SameAt, Tops
  <2> QED BY <2>2, <2>3 DEF LM!Remove
<1>6. CASE TopAt(d, k) = NoValue /\ BaseSet(d, dict', k, NoValue)
  BY <1>2, <1>4, <1>6, BaseChanges DEF LM!Remove
<1> QED BY <1>4, <1>5, <1>6

LEMMA RehashStepFinishes ==
    ASSUME IInv, NEW n \in Rounds, RehashStep(n)
    PROVE  LM!Finish \/ UNCHANGED LM!vars
<1>1. dict' = rehash_step(dict, n) /\ n \in Nat /\ Sound(dict)
  BY BoundAssumption DEF RehashStep, IInv
<1>2. \/ Same(dict, dict') /\ (is_rehashing(dict') <=> is_rehashing(dict))
      \/ Ended(dict, dict')
  BY <1>1, StepLayers
<1>3. /\ TopLayer = Tops(dict) /\ BaseLayer = Bases(dict)
      /\ TopLayer' = Tops(dict') /\ BaseLayer' = Bases(dict')
  BY Layers
<1>4. is_rehashing(dict)' = is_rehashing(dict')
  BY DEF is_rehashing
<1>5. CASE Same(dict, dict') /\ (is_rehashing(dict') <=> is_rehashing(dict))
  <2>1. TopLayer' = TopLayer /\ BaseLayer' = BaseLayer
    BY <1>3, <1>5, KeptLayers
  <2>2. is_rehashing(dict)' = is_rehashing(dict)
    BY <1>5 DEF is_rehashing
  <2> QED BY <2>1, <2>2 DEF LM!vars
<1>6. CASE Ended(dict, dict')
  <2>1. TopLayer' = LM!Nothing /\ BaseLayer' = BaseLayer
    BY <1>3, <1>6, KeptLayers
  <2>2. is_rehashing(dict) /\ is_rehashing(dict)' = FALSE
    BY <1>6 DEF Ended, is_rehashing
  <2> QED BY <2>1, <2>2 DEF LM!Finish
<1> QED BY <1>2, <1>5, <1>6

(* Every behaviour of the table is one of the two-layer map: a call writes
   or removes one key, ends a rehash, or changes nothing a reader sees.  *)
THEOREM Refinement == Spec => ImplementsLossyMap
<1>1. Init => LM!Init
  <2> SUFFICES ASSUME Init PROVE LM!Init
    OBVIOUS
  <2>1. dict.ht0 = Table(INIT_HT_SIZE) /\ dict.rehashidx = -1
    BY DEF Init, NewDict, Record
  <2>2. ~ is_rehashing(dict) /\ is_rehashing(dict) = FALSE
    BY <2>1 DEF is_rehashing
  <2>3. \A k \in Key : Found(dict.ht0, k) = {}
    <3> TAKE k \in Key
    <3>1. Slot(dict.ht0, k) \in 0 .. INIT_HT_SIZE-1
      BY <2>1, SlotInRange, DictAssumption DEF Table
    <3> QED BY <2>1, <3>1 DEF Found, Table
  <2>4. \A k \in Key : TopAt(dict, k) = NoValue /\ BaseAt(dict, k) = NoValue
    BY <2>2, <2>3, EmptyValue DEF TopAt, BaseAt, Passed
  <2>5. TopLayer = LM!Nothing /\ BaseLayer = LM!Nothing
    BY <2>4, Layers DEF Tops, Bases, LM!Nothing
  <2> QED BY <2>2, <2>5 DEF LM!Init
<1>2. IInv /\ [Next]_dict => [LM!Next]_(LM!vars)
  <2> SUFFICES ASSUME IInv, [Next]_dict
               PROVE  LM!Next \/ UNCHANGED LM!vars
    OBVIOUS
  <2>1. ASSUME NEW k \in Key, NEW v \in Value, SetField(k, v)
        PROVE  LM!Next
    BY <2>1, SetFieldWrites DEF LM!Next
  <2>2. ASSUME NEW k \in Key, DelField(k)
        PROVE  LM!Next
    BY <2>2, DelFieldRemoves DEF LM!Next
  <2>3. ASSUME NEW n \in Rounds, RehashStep(n)
        PROVE  LM!Next \/ UNCHANGED LM!vars
    BY <2>3, RehashStepFinishes DEF LM!Next
  <2>4. CASE UNCHANGED dict
    <3>1. TopLayer' = TopLayer /\ BaseLayer' = BaseLayer
      BY <2>4, Layers
    <3>2. is_rehashing(dict)' = is_rehashing(dict)
      BY <2>4 DEF is_rehashing
    <3> QED BY <3>1, <3>2 DEF LM!vars
  <2> QED BY <2>1, <2>2, <2>3, <2>4 DEF Next
<1> QED BY <1>1, <1>2, Invariance, PTL DEF Spec, ImplementsLossyMap, LM!Spec

LEMMA ReadIsLayered ==
    ASSUME NEW d, Sound(d), NEW k \in Key
    PROVE  get_field(d, k) = IF TopAt(d, k) # NoValue THEN TopAt(d, k) ELSE BaseAt(d, k)
<1>1. IsTable(d.ht0) /\ d.ht0.size > 0
  BY Tables
<1>2. CASE Found(d.ht0, k) # {}
  <2>1. ValueIn(Found(d.ht0, k)) # NoValue
    BY <1>1, <1>2, FoundValue
  <2> QED BY <1>2, <2>1 DEF TopAt, BaseAt, get_field
<1>3. CASE Found(d.ht0, k) = {} /\ is_rehashing(d)
  <2>1. ~ Passed(d, k) => Found(d.ht1, k) = {}
    BY <1>3, FoundInNew
  <2> QED BY <1>3, <2>1, EmptyValue DEF TopAt, BaseAt, get_field
<1>4. CASE Found(d.ht0, k) = {} /\ ~ is_rehashing(d)
  BY <1>4, EmptyValue DEF TopAt, BaseAt, get_field, Passed
<1> QED BY <1>2, <1>3, <1>4

(* get_field returns what the two-layer map shows: it looks in ht_[0] first,
   and what it misses there and finds in ht_[1] was moved before.  *)
THEOREM ReadsRefine == Spec => []ReadsAgree
<1>1. IInv => ReadsAgree
  <2> SUFFICES ASSUME IInv, NEW k \in Key
               PROVE  LM!Visible(k) = get_field(dict, k)
    BY DEF ReadsAgree
  <2>1. LM!Visible(k) = IF TopAt(dict, k) # NoValue THEN TopAt(dict, k)
                                                   ELSE BaseAt(dict, k)
    BY Layers DEF LM!Visible, Tops, Bases
  <2> QED BY <2>1, ReadIsLayered DEF IInv
<1> QED BY <1>1, Invariance, PTL

(* A store or a removal that follows the end of a rehash may open the next
   one, at its first bucket.  *)
LEMMA Reopened ==
    ASSUME NEW d, ~ is_rehashing(d), NEW k, NEW v
    PROVE  StoreInMain(d, k, v).rehashidx <= 0 /\ EraseFirst(d, k).rehashidx <= 0
<1>1. d.rehashidx = -1
  BY DEF is_rehashing
<1>2. ASSUME NEW w, w.rehashidx = -1
      PROVE  expand_if_needed(w).rehashidx <= 0 /\ shrink_if_needed(w).rehashidx <= 0
  BY <1>2 DEF expand_if_needed, shrink_if_needed, StartRehash, Record
<1>3. \A h, u : WithMain(d, h, u).rehashidx = -1
  BY <1>1 DEF WithMain, Record
<1>4. StoreInMain(d, k, v).rehashidx <= 0
  BY <1>2, <1>3 DEF StoreInMain
<1>5. EraseFirst(d, k).rehashidx <= 0
  BY <1>1, <1>2, <1>3 DEF EraseFirst
<1> QED BY <1>4, <1>5

(* If a call on other keys changes what is read of k, a rehash has ended
   and k was in a bucket it had passed.  *)
LEMMA LostByEnd ==
    ASSUME Sound(dict), Sound(dict'), NEW k \in Key, NEW d,
           \/ Same(dict, d) /\ (is_rehashing(d) <=> is_rehashing(dict))
           \/ Ended(dict, d),
           SameAt(d, dict', k),
           ~ is_rehashing(d) => dict'.rehashidx <= 0,
           get_field(dict', k) # get_field(dict, k)
    PROVE  Passed(dict, k) /\ Found(dict.ht0, k) # {} /\ RehashEnds
<1>1. /\ get_field(dict, k) = IF TopAt(dict, k) # NoValue THEN TopAt(dict, k)
                                                         ELSE BaseAt(dict, k)
      /\ get_field(dict', k) = IF TopAt(d, k) # NoValue THEN TopAt(d, k)
                                                       ELSE BaseAt(d, k)
  BY ReadIsLayered DEF SameAt
<1>2. Ended(dict, d)
  BY <1>1 DEF Same, SameAt
<1>3. TopAt(dict, k) # NoValue
  BY <1>1, <1>2 DEF Ended
<1>4. Passed(dict, k) /\ Found(dict.ht0, k) # {}
  BY <1>3, EmptyValue DEF TopAt
<1>5. dict'.ht0 # dict.ht0
  BY <1>4 DEF get_field
<1> QED BY <1>2, <1>4, <1>5 DEF RehashEnds, Ended

(* What a reader sees of a key changes only by a call on that key, or at the
   end of a rehash, for a key that was written after its bucket had been
   passed.  *)
THEOREM LossIsConfined == Spec => OnlyStrandedLost
<1> DEFINE Lost(k)   == Passed(dict, k) /\ Found(dict.ht0, k) # {} /\ RehashEnds
           Called(k) == (\E v \in Value : SetField(k, v)) \/ DelField(k)
<1>1. ASSUME IInv, IInv', Next, NEW k \in Key,
             get_field(dict', k) # get_field(dict, k), ~ Called(k)
      PROVE  Lost(k)
  <2> DEFINE d == rehash_step(dict, 1)
  <2>1. Sound(dict) /\ Sound(dict') /\ Sound(d) /\ Counted(d)
    BY <1>1, RehashStepSound, RehashStepCounted DEF IInv
  <2>2. ASSUME NEW n \in Nat
        PROVE  LET e == rehash_step(dict, n)
               IN \/ Same(dict, e) /\ (is_rehashing(e) <=> is_rehashing(dict))
                  \/ Ended(dict, e)
    BY <2>1, StepLayers
  <2>3. ASSUME NEW g \in Key, NEW v \in Value, SetField(g, v)
        PROVE  Lost(k)
    <3>1. dict' = StoreInMain(d, g, v) /\ g # k
      BY <1>1, <2>3 DEF SetField, set_field
    <3> HIDE DEF d
    <3>2. TopSet(d, dict', g, v) \/ BaseSet(d, dict', g, v)
      BY <2>1, <3>1, StoreLayers
    <3>3. SameAt(d, dict', k)
      BY <3>1, <3>2 DEF TopSet, BaseSet
    <3>4. ~ is_rehashing(d) => dict'.rehashidx <= 0
      BY <3>1, Reopened
    <3>5. \/ Same(dict, d) /\ (is_rehashing(d) <=> is_rehashing(dict))
          \/ Ended(dict, d)
      BY <2>2 DEF d
    <3> QED BY <1>1, <2>1, <3>3, <3>4, <3>5, LostByEnd
  <2>4. ASSUME NEW g \in Key, DelField(g)
        PROVE  Lost(k)
    <3>1. dict' = EraseFirst(d, g) /\ g # k
      BY <1>1, <2>4 DEF DelField, del_field
    <3> HIDE DEF d
    <3>2. TopSet(d, dict', g, NoValue) \/ BaseSet(d, dict', g, NoValue)
      BY <2>1, <3>1, EraseLayers
    <3>3. SameAt(d, dict', k)
      BY <3>1, <3>2 DEF TopSet, BaseSet
    <3>4. ~ is_rehashing(d) => dict'.rehashidx <= 0
      BY <3>1, Reopened
    <3>5. \/ Same(dict, d) /\ (is_rehashing(d) <=> is_rehashing(dict))
          \/ Ended(dict, d)
      BY <2>2 DEF d
    <3> QED BY <1>1, <2>1, <3>3, <3>4, <3>5, LostByEnd
  <2>5. ASSUME NEW n \in Rounds, RehashStep(n)
        PROVE  Lost(k)
    <3>1. dict' = rehash_step(dict, n) /\ n \in Nat
      BY <2>5, BoundAssumption DEF RehashStep
    <3>2. \/ Same(dict, dict') /\ (is_rehashing(dict') <=> is_rehashing(dict))
          \/ Ended(dict, dict')
      BY <2>2, <3>1
    <3>3. SameAt(dict', dict', k)
      BY DEF SameAt
    <3>4. ~ is_rehashing(dict') => dict'.rehashidx <= 0
      BY DEF is_rehashing
    <3> QED BY <1>1, <2>1, <3>2, <3>3, <3>4, LostByEnd
  <2> QED BY <1>1, <2>3, <2>4, <2>5 DEF Next
<1> DEFINE Confined == \A k \in Key :
                         get_field(dict', k) # get_field(dict, k) =>
                            \/ Passed(dict, k) /\ Found(dict.ht0, k) # {} /\ RehashEnds
                            \/ \E v \in Value : SetField(k, v)
                            \/ DelField(k)
<1>2. IInv /\ IInv' /\ [Next]_dict => [Confined]_dict
  BY <1>1
<1> QED BY <1>2, Invariance, PTL DEF Spec, OnlyStrandedLost
=============================================================================
