-------------------------- MODULE PersistenceProofs -------------------------
(***************************************************************************)
(* What a save leaves in dump.rdb, whatever happens to it, for every       *)
(* database, hash function and length of the strings.                      *)
(*                                                                         *)
(* A save puts the tokens of key after key on a stream, and of the stream  *)
(* a prefix reaches the file.  So the proof follows a decoder over the     *)
(* prefixes of what is written: it is "quiet" as long as no prefix takes it *)
(* to an end (SoFar), has read what the keys so far say (KeyWritten), and  *)
(* only the end of a whole file makes a load return something.  The        *)
(* inductive invariant IInv says this of the open stream.                  *)
(*                                                                         *)
(* The lemmas about a hash are those of HashObjectProofs, instantiated for *)
(* the hashes a load builds, those about folds the ones of VectorLemmas.   *)
(* RdbLen comes twice, as the codec Rdb uses (RL) and with its own run.    *)
(***************************************************************************)
EXTENDS Persistence, RdbLen, SequenceTheorems, FiniteSetTheorems, TLAPS

\* A load folds with ReadToken, and of a hash it makes what set_field does.
Step(p, x, e) == IF p = "token" THEN ReadToken(x, e) ELSE set_field(x, e.key, e.value)

INSTANCE VectorLemmas WITH Combine <- Step

\* The lemmas about a hash, of any whose values are any strings.
H == INSTANCE HashObjectProofs
        WITH Value <- Key, obj <- NewObject, Rounds <- {1}, Batch <- 1, MaxUsed <- 0

LEMMA Assumed == H!HashObjectAssumption /\ H!HashCallAssumption
<1>1. H!HashObjectAssumption
  BY HashObjectAssumption, PersistenceAssumption DEF HT!DictAssumption, H!HT!DictAssumption
<1>2. H!HashCallAssumption
  BY DEF H!D!BoundAssumption
<1> QED BY <1>1, <1>2

-----------------------------------------------------------------------------
(* The operators of the instance are those of the commands. *)

\* Those of a table,
LEMMA StepSame ==
    ASSUME NEW d, NEW n
    PROVE  HT!rehash_step(d, n) = H!HT!rehash_step(d, n)
<1>0. \A A : HT!Cardinality(A) = H!HT!Cardinality(A)
  BY DEF HT!Cardinality, H!HT!Cardinality
<1>1. \A j : HT!Occupied(d, j) = H!HT!Occupied(d, j)
  BY DEF HT!Occupied, H!HT!Occupied
<1>2. ASSUME NEW j
      PROVE  HT!LeavesLoopAt(d, n, j) <=> H!HT!LeavesLoopAt(d, n, j)
  BY <1>1, <1>0 DEF HT!LeavesLoopAt, H!HT!LeavesLoopAt
<1>3. HT!LoopExit(d, n) = H!HT!LoopExit(d, n)
  BY <1>2 DEF HT!LoopExit, H!HT!LoopExit
<1>4. ASSUME NEW j
      PROVE  HT!PassBuckets(d, j) = H!HT!PassBuckets(d, j)
  BY DEF HT!PassBuckets, H!HT!PassBuckets, HT!Slot, H!HT!Slot, HT!Record, H!HT!Record
<1>5. ASSUME NEW e
      PROVE  HT!FinishRehash(e) = H!HT!FinishRehash(e)
  BY DEF HT!FinishRehash, H!HT!FinishRehash, HT!Record, H!HT!Record, HT!Table, H!HT!Table
<1> QED BY <1>3, <1>4, <1>5 DEF HT!rehash_step, H!HT!rehash_step,
           HT!is_rehashing, H!HT!is_rehashing

LEMMA TableSame ==
    /\ HT!NewDict = H!HT!NewDict
    /\ \A d, f, v : HT!set_field(d, f, v) = H!HT!set_field(d, f, v)
    /\ \A d, f : HT!get_field(d, f) = H!HT!get_field(d, f)
<1>1. ASSUME NEW d, NEW f, NEW v
      PROVE  HT!StoreInMain(d, f, v) = H!HT!StoreInMain(d, f, v)
  BY DEF HT!StoreInMain, H!HT!StoreInMain, HT!Found, H!HT!Found, HT!WithMain, H!HT!WithMain,
         HT!WithBucket, H!HT!WithBucket, HT!Slot, H!HT!Slot,
         HT!expand_if_needed, H!HT!expand_if_needed,
         HT!is_rehashing, H!HT!is_rehashing, HT!StartRehash, H!HT!StartRehash,
         HT!Record, H!HT!Record, HT!Table, H!HT!Table
<1>2. ASSUME NEW d, NEW f, NEW v
      PROVE  HT!set_field(d, f, v) = H!HT!set_field(d, f, v)
  BY <1>1, StepSame DEF HT!set_field, H!HT!set_field
<1>3. ASSUME NEW d, NEW f
      PROVE  HT!get_field(d, f) = H!HT!get_field(d, f)
  BY DEF HT!get_field, H!HT!get_field, HT!Found, H!HT!Found, HT!Slot, H!HT!Slot,
         HT!ValueIn, H!HT!ValueIn, HT!is_rehashing, H!HT!is_rehashing
<1>4. HT!NewDict = H!HT!NewDict
  BY DEF HT!NewDict, H!HT!NewDict, HT!Record, H!HT!Record, HT!Table, H!HT!Table
<1> QED BY <1>2, <1>3, <1>4

\* and those of an object.  A promotion folds the one set_field or the other.
LEMMA ObjectSame ==
    /\ NewObject = H!NewObject
    /\ \A o, f, v : set_field(o, f, v) = H!set_field(o, f, v)
    /\ \A o, f : get_field(o, f) = H!get_field(o, f)
    /\ \A o : size(o) = H!size(o)
    /\ \A o : promote_to_hashtable(o) = H!promote_to_hashtable(o)
    /\ \A zl : should_use_ziplist(zl) <=> H!should_use_ziplist(zl)
<1>1. ASSUME NEW zl, NEW f
      PROVE  find_in_ziplist(zl, f) = H!find_in_ziplist(zl, f)
  BY DEF find_in_ziplist, H!find_in_ziplist, SelectInSeq, H!SelectInSeq, Min, H!Min
<1>2. ASSUME NEW zl
      PROVE  should_use_ziplist(zl) <=> H!should_use_ziplist(zl)
  BY DEF should_use_ziplist, H!should_use_ziplist
<1>3. ASSUME NEW o
      PROVE  promote_to_hashtable(o) = H!promote_to_hashtable(o)
  <2> DEFINE zl == o.ziplist
             All == SUBSET (DOMAIN zl)
             Ours(it) == it = [s \in All |->
                IF s = {} THEN HT!NewDict
                ELSE HT!set_field(it[s \ {Max(s)}], zl[Max(s)].key, zl[Max(s)].value)]
             Theirs(it) == it = [s \in All |->
                IF s = {} THEN H!HT!NewDict
                ELSE H!HT!set_field(it[s \ {H!Max(s)}], zl[H!Max(s)].key, zl[H!Max(s)].value)]
  <2>1. \A s : Max(s) = H!Max(s)
    BY DEF Max, H!Max
  <2>2. promote_to_hashtable(o).dict = (CHOOSE it : Ours(it))[DOMAIN zl]
    BY DEF promote_to_hashtable, FoldLeft, MapThenFoldSet
  <2>3. H!promote_to_hashtable(o).dict = (CHOOSE it : Theirs(it))[DOMAIN zl]
    BY DEF H!promote_to_hashtable, H!FoldLeft, H!MapThenFoldSet
  <2> HIDE DEF zl, All
  <2>4. \A it : Ours(it) <=> Theirs(it)
    BY <2>1, TableSame
  <2> HIDE DEF Ours, Theirs
  <2>5. (CHOOSE it : Ours(it)) = (CHOOSE it : Theirs(it))
    BY <2>4
  <2>6. promote_to_hashtable(o).dict = H!promote_to_hashtable(o).dict
    BY <2>2, <2>3, <2>5
  <2>7. \A p, q : [encoding |-> "HASHTABLE", ziplist |-> <<>>, dict |-> p].dict = p
    OBVIOUS
  <2> QED BY <2>6 DEF promote_to_hashtable, H!promote_to_hashtable
<1>4. ASSUME NEW o, NEW f, NEW v
      PROVE  StoreInZiplist(o, f, v) = H!StoreInZiplist(o, f, v)
  BY <1>1, <1>2, <1>3 DEF StoreInZiplist, H!StoreInZiplist, Pair, H!Pair
<1>5. ASSUME NEW o, NEW f, NEW v
      PROVE  set_field(o, f, v) = H!set_field(o, f, v)
  BY <1>3, <1>4, TableSame DEF set_field, H!set_field
<1>6. ASSUME NEW o, NEW f
      PROVE  get_field(o, f) = H!get_field(o, f)
  BY <1>1, TableSame DEF get_field, H!get_field
<1>7. NewObject = H!NewObject /\ \A o : size(o) = H!size(o)
  BY TableSame DEF NewObject, H!NewObject, size, H!size
<1> QED BY <1>2, <1>3, <1>5, <1>6, <1>7

-----------------------------------------------------------------------------
(* The length codec. *)

(* A length whose bits 6 and 7 are clear gets the mark as a digit of its own. *)
LEMMA MarkedFaithful ==
    ASSUME NEW n \in Nat, n >= 64, n < 16384, (n \div 64) % 4 = 0
    PROVE  /\ RL!Marked(n) = n + 64
           /\ RL!Marked(n) \div 256 = n \div 256
           /\ RL!Marked(n) % 256 = (n % 64) + 64
           /\ n = (n % 64) + 256 * (n \div 256)
<1>1. (n \div 64) % 2 = 0
  OBVIOUS
<1>2. 2^6 = 64
  OBVIOUS
<1>3. RL!Marked(n) = n + 64
  BY <1>1, <1>2 DEF RL!Marked, RL!Bit
<1> QED BY <1>3

(* Every length that is faithful survives, whatever its size.  *)
LEMMA FaithfulLengthsSurvive == \A n \in Nat : RL!RoundTrip(n)
<1> SUFFICES ASSUME NEW n \in Nat, RL!Faithful(n)
             PROVE  RL!RoundTrip(n)
  BY DEF RL!RoundTrip
<1>0. 2^14 = 16384
  OBVIOUS
<1>1. CASE n < 64
  <2>1. RL!writeLen(n) = [ok |-> TRUE, bytes |-> <<n>>]
    BY <1>1 DEF RL!writeLen
  <2>2. n \div 64 = 0 /\ n % 64 = n
    BY <1>1
  <2>3. RL!readLen(<<n>>) = [ok |-> TRUE, len |-> n, used |-> 1]
    <3>1. <<n>>[1] = n
      OBVIOUS
    <3> QED BY <2>2, <3>1 DEF RL!readLen
  <2> QED BY <2>1, <2>3 DEF RL!RoundTrip, RL!Read
<1>2. CASE n >= 64
  <2> DEFINE lo == (n % 64) + 64
             hi == n \div 256
  <2>1. n < 16384 /\ (n \div 64) % 4 = 0
    BY <1>0, <1>2 DEF RL!Faithful
  <2>2. RL!writeLen(n) = [ok |-> TRUE, bytes |-> <<lo, hi>>]
    <3>1. RL!Marked(n) % 256 = lo /\ RL!Marked(n) \div 256 = hi
      BY <1>2, <2>1, MarkedFaithful
    <3>2. ~ (n < 64) /\ n < 2^14
      BY <1>0, <1>2, <2>1
    <3> QED BY <3>1, <3>2 DEF RL!writeLen
  <2>3. lo \div 64 = 1 /\ lo % 64 = n % 64
    OBVIOUS
  <2>4. RL!readLen(<<lo, hi>>) = [ok |-> TRUE, len |-> (lo % 64) + 256 * hi, used |-> 2]
    BY <2>3 DEF RL!readLen
  <2>5. (lo % 64) + 256 * hi = n
    BY <1>2, <2>1, <2>3, MarkedFaithful
  <2>6. Len(<<lo, hi>>) = 2
    OBVIOUS
  <2>7. /\ RL!writeLen(n).ok = TRUE
        /\ RL!writeLen(n).bytes = <<lo, hi>>
    <3> HIDE DEF lo, hi
    <3> QED BY <2>2
  <2>8. RL!Read(n) = [ok |-> TRUE, len |-> n, used |-> 2]
    <3> HIDE DEF lo, hi
    <3> QED BY <2>4, <2>5, <2>7 DEF RL!Read
  <2> HIDE DEF lo, hi
  <2> QED BY <2>6, <2>7, <2>8 DEF RL!RoundTrip
<1> QED BY <1>1, <1>2

(* Every other length that is written is refused by the reader or loses
   bit 6.  *)
LEMMA DamagedLengthsAreShort == \A n \in Nat : RL!Damage(n)
<1> SUFFICES ASSUME NEW n \in Nat, RL!writeLen(n).ok, ~ RL!Faithful(n)
             PROVE  \/ ~ RL!Read(n).ok
                    \/ RL!Read(n).len < n /\ RL!Read(n).used = Len(RL!writeLen(n).bytes)
  BY DEF RL!Damage
<1> DEFINE m  == RL!Marked(n)
           lo == m % 256
           hi == m \div 256
           r  == (n \div 64) % 4
<1>0. 2^14 = 16384 /\ 2^6 = 64
  OBVIOUS
<1>1. n >= 64 /\ r # 0
  <2>1. n < 64 \/ n < 2^14
    BY <1>0 DEF RL!writeLen, RL!Error
  <2> QED BY <2>1, <1>0 DEF RL!Faithful
<1>2. n < 16384
  BY <1>0, <1>1 DEF RL!writeLen, RL!Error
<1>3. RL!writeLen(n) = [ok |-> TRUE, bytes |-> <<lo, hi>>]
  BY <1>0, <1>1, <1>2 DEF RL!writeLen
<1>4. RL!writeLen(n).bytes = <<lo, hi>>
  <2> HIDE DEF lo, hi
  <2> QED BY <1>3
<1>5. RL!Read(n) = RL!readLen(<<lo, hi>>)
  BY <1>4 DEF RL!Read
<1>6. Len(<<lo, hi>>) = 2
  OBVIOUS
<1>7. CASE r = 1
  <2>1. (n \div 64) % 2 = 1
    BY <1>7
  <2>2. m = n
    BY <2>1, <1>0 DEF RL!Marked, RL!Bit
  <2>3. lo \div 64 = 1 /\ (lo % 64) + 256 * hi = n - 64
    BY <1>7, <2>2
  <2>4. RL!readLen(<<lo, hi>>) = [ok |-> TRUE, len |-> (lo % 64) + 256 * hi, used |-> 2]
    BY <2>3 DEF RL!readLen
  <2>5. RL!Read(n).len = n - 64 /\ RL!Read(n).used = 2
    BY <1>5, <2>3, <2>4
  <2>6. n - 64 < n
    OBVIOUS
  <2> QED BY <1>4, <1>6, <2>5, <2>6
<1>8. CASE r \in {2, 3}
  <2>1. m \in {n, n + 64} /\ (r = 2 => m = n + 64) /\ (r = 3 => m = n)
    <3>1. (r = 2 => (n \div 64) % 2 = 0) /\ (r = 3 => (n \div 64) % 2 = 1)
      OBVIOUS
    <3> QED BY <3>1, <1>0, <1>8 DEF RL!Marked, RL!Bit
  <2>2. lo \div 64 = 3
    BY <1>8, <2>1
  <2>3. RL!readLen(<<lo, hi>>) = RL!Error
    BY <2>2 DEF RL!readLen
  <2> QED BY <1>5, <2>3 DEF RL!Error
<1>9. r \in {1, 2, 3}
  BY <1>1
<1> QED BY <1>7, <1>8, <1>9

\* Those are the operators of the codec that a run of RdbLen tries.
LEMMA CodecSame ==
    ASSUME NEW n
    PROVE  (RL!RoundTrip(n) <=> RoundTrip(n)) /\ (RL!Damage(n) <=> Damage(n))
<1>1. /\ RL!writeLen(n) = writeLen(n)
      /\ \A b : RL!readLen(b) = readLen(b)
      /\ RL!Faithful(n) <=> Faithful(n)
  BY DEF RL!writeLen, writeLen, RL!readLen, readLen, RL!Faithful, Faithful,
         RL!Marked, Marked, RL!Bit, Bit, RL!Error, Error
<1>2. RL!Read(n) = Read(n)
  BY <1>1 DEF RL!Read, Read
<1> QED BY <1>1, <1>2 DEF RL!RoundTrip, RoundTrip, RL!Damage, Damage

LEMMA LengthType == LengthSpec => [](length \in Nat)
<1>1. InitLength => length \in Nat
  BY DEF InitLength
<1>2. length \in Nat /\ [Grow]_length => (length \in Nat)'
  BY DEF Grow
<1> QED BY <1>1, <1>2, PTL DEF LengthSpec

(* However long the string grows: while its length is faithful, a save and a
   load keep it (writeLen and readLen of Rdb.cpp).  *)
THEOREM SavedLengthsSurvive == LengthSpec => []FaithfulRoundTrip
<1>1. length \in Nat => FaithfulRoundTrip
  BY FaithfulLengthsSurvive, CodecSame DEF FaithfulRoundTrip
<1> QED BY <1>1, LengthType, PTL

(* ... and otherwise the reader throws or reads too little, never too much.  *)
THEOREM SavedLengthsNeverRunOn == LengthSpec => []DamageIsShort
<1>1. length \in Nat => DamageIsShort
  BY DamagedLengthsAreShort, CodecSame DEF DamageIsShort
<1> QED BY <1>1, LengthType, PTL

-----------------------------------------------------------------------------
(* What a load may return: strings and hashes under strings. *)

IsText(x) == \E s \in Key : x = StringObject(s)

IsMap(x) == x = HashObject(x.hash) /\ H!IsObject(x.hash)

IsDb(db) ==
    /\ db = [k \in DOMAIN db |-> db[k]]
    /\ DOMAIN db \subseteq Key /\ IsFiniteSet(DOMAIN db)
    /\ \A k \in DOMAIN db : IsText(db[k]) \/ IsMap(db[k])

LEMMA Strings ==
    /\ DbKey \subseteq Key /\ Field \subseteq Key /\ Value \subseteq Key
    /\ EmptyString \in Key /\ NoValue \notin Key
    /\ \A s \in Key : Length[s] \in Nat
BY PersistenceAssumption

LEMMA NothingIsDb == IsDb(Empty)
<1>1. DOMAIN <<>> = {} /\ <<>> = [k \in {} |-> <<>>[k]]
  OBVIOUS
<1> QED BY <1>1, FS_EmptySet DEF IsDb, Empty

LEMMA DbAssigned ==
    ASSUME NEW db, IsDb(db), NEW k \in Key, NEW x, IsText(x) \/ IsMap(x)
    PROVE  IsDb(Assign(db, k, x))
<1> DEFINE e == Assign(db, k, x)
<1>1. /\ DOMAIN e = DOMAIN db \cup {k} /\ e[k] = x
      /\ \A j \in DOMAIN db : j # k => e[j] = db[j]
      /\ e = [j \in DOMAIN e |-> e[j]]
  BY DEF Assign
<1> HIDE DEF e
<1>2. IsFiniteSet(DOMAIN e)
  BY <1>1, FS_AddElement DEF IsDb
<1> QED BY <1>1, <1>2 DEF IsDb, e

\* What set_field and HSET make of an object is an object.
LEMMA ObjectWritten ==
    ASSUME NEW o, H!IsObject(o), NEW f \in Key, NEW v \in Key
    PROVE  H!IsObject(set_field(o, f, v))
BY Assumed, ObjectSame, H!SetKeeps

LEMMA NewIsObject == H!IsObject(NewObject)
BY Assumed, ObjectSame, H!NewKeeps

LEMMA ObjectIsMap == ASSUME NEW o, H!IsObject(o) PROVE IsMap(HashObject(o))
<1>1. HashObject(o).hash = o
  BY DEF HashObject
<1> QED BY <1>1 DEF IsMap

-----------------------------------------------------------------------------
(* The decoder. *)

Token ==
    {Magic} \cup {Op(n) : n \in Nat} \cup {Num(n) : n \in Nat} \cup {Str(s) : s \in Key}

Members == {"expects", "db", "key", "field", "pairs", "hash"}

IsDecoder(d) ==
    /\ DOMAIN d = Members /\ d = [x \in Members |-> d[x]]
    /\ IsDb(d.db) /\ d.key \in Key /\ d.field \in Key /\ H!IsObject(d.hash)

\* ... that is to read next what why says.
At(d, why) == IsDecoder(d) /\ d.expects = why

LEMMA FirstState == At(Decoder, "magic") /\ Decoder.db = Empty
<1>1. /\ DOMAIN Decoder = Members /\ Decoder = [x \in Members |-> Decoder[x]]
      /\ Decoder.expects = "magic" /\ Decoder.db = Empty /\ Decoder.key = EmptyString
      /\ Decoder.field = EmptyString /\ Decoder.hash = NewObject
  BY DEF Decoder, Members
<1> QED BY <1>1, NothingIsDb, NewIsObject, Strings DEF IsDecoder, At

\* The assignments of a reader, and the members after each of them.
Keyed(d, s, why)   == [d EXCEPT !.key = s, !.expects = why]
Fielded(d, s, why) == [d EXCEPT !.field = s, !.expects = why]
Filled(d, n, o)    == [d EXCEPT !.pairs = n, !.hash = o]

LEMMA StopIs ==
    ASSUME NEW d, IsDecoder(d), NEW why
    PROVE  LET e == Stop(d, why)
           IN /\ At(e, why) /\ e.db = d.db /\ e.key = d.key
              /\ e.field = d.field /\ e.pairs = d.pairs /\ e.hash = d.hash
<1> DEFINE e == [d EXCEPT !.expects = why]
<1>1. DOMAIN d = Members /\ d = [x \in Members |-> d[x]]
  BY DEF IsDecoder
<1>2. /\ DOMAIN e = Members /\ e = [x \in Members |-> e[x]]
      /\ e.expects = why /\ e.db = d.db /\ e.key = d.key
      /\ e.field = d.field /\ e.pairs = d.pairs /\ e.hash = d.hash
  BY <1>1 DEF Members
<1> HIDE DEF e
<1> QED BY <1>2 DEF IsDecoder, At, Stop, e

LEMMA KeyRead ==
    ASSUME NEW d, IsDecoder(d), NEW s \in Key, NEW why
    PROVE  LET e == Keyed(d, s, why)
           IN /\ At(e, why) /\ e.db = d.db /\ e.key = s
              /\ e.field = d.field /\ e.pairs = d.pairs /\ e.hash = d.hash
<1> DEFINE e == [d EXCEPT !.key = s, !.expects = why]
<1>1. DOMAIN d = Members /\ d = [x \in Members |-> d[x]]
  BY DEF IsDecoder
<1>2. /\ DOMAIN e = Members /\ e = [x \in Members |-> e[x]]
      /\ e.expects = why /\ e.db = d.db /\ e.key = s
      /\ e.field = d.field /\ e.pairs = d.pairs /\ e.hash = d.hash
  BY <1>1 DEF Members
<1> HIDE DEF e
<1> QED BY <1>2 DEF IsDecoder, At, Keyed, e

LEMMA FieldRead ==
    ASSUME NEW d, IsDecoder(d), NEW s \in Key, NEW why
    PROVE  LET e == Fielded(d, s, why)
           IN /\ At(e, why) /\ e.db = d.db /\ e.key = d.key
              /\ e.field = s /\ e.pairs = d.pairs /\ e.hash = d.hash
<1> DEFINE e == [d EXCEPT !.field = s, !.expects = why]
<1>1. DOMAIN d = Members /\ d = [x \in Members |-> d[x]]
  BY DEF IsDecoder
<1>2. /\ DOMAIN e = Members /\ e = [x \in Members |-> e[x]]
      /\ e.expects = why /\ e.db = d.db /\ e.key = d.key
      /\ e.field = s /\ e.pairs = d.pairs /\ e.hash = d.hash
  BY <1>1 DEF Members
<1> HIDE DEF e
<1> QED BY <1>2 DEF IsDecoder, At, Fielded, e

LEMMA PairsRead ==
    ASSUME NEW d, IsDecoder(d), NEW n, NEW o, H!IsObject(o)
    PROVE  LET e == Filled(d, n, o)
           IN /\ IsDecoder(e) /\ e.expects = d.expects /\ e.db = d.db /\ e.key = d.key
              /\ e.field = d.field /\ e.pairs = n /\ e.hash = o
<1> DEFINE e == [d EXCEPT !.pairs = n, !.hash = o]
<1>1. DOMAIN d = Members /\ d = [x \in Members |-> d[x]]
  BY DEF IsDecoder
<1>2. /\ DOMAIN e = Members /\ e = [x \in Members |-> e[x]]
      /\ e.expects = d.expects /\ e.db = d.db /\ e.key = d.key
      /\ e.field = d.field /\ e.pairs = n /\ e.hash = o
  BY <1>1 DEF Members
<1> HIDE DEF e
<1> QED BY <1>2 DEF IsDecoder, Filled, e

Emplaced(d, x) == IF d.key \in DOMAIN d.db THEN d.db ELSE Assign(d.db, d.key, x)

LEMMA EmplaceIs ==
    ASSUME NEW d, IsDecoder(d), NEW x, IsText(x) \/ IsMap(x)
    PROVE  LET e == Emplace(d, x)
           IN At(e, "type") /\ e.db = Emplaced(d, x)
<1> DEFINE db == Emplaced(d, x)
           e  == [d EXCEPT !.db = db, !.expects = "type"]
<1>1. DOMAIN d = Members /\ d = [y \in Members |-> d[y]]
  BY DEF IsDecoder
<1>2. IsDb(db)
  BY DbAssigned DEF IsDecoder, Emplaced
<1>3. e = Emplace(d, x)
  BY DEF Emplaced, Emplace
<1> HIDE DEF db
<1>4. /\ DOMAIN e = Members /\ e = [y \in Members |-> e[y]]
      /\ e.expects = "type" /\ e.db = db /\ e.key = d.key
      /\ e.field = d.field /\ e.pairs = d.pairs /\ e.hash = d.hash
  BY <1>1 DEF Members
<1> HIDE DEF e
<1> QED BY <1>2, <1>3, <1>4 DEF IsDecoder, At, db

LEMMA NextPairIs ==
    ASSUME NEW d, IsDecoder(d)
    PROVE  LET e == NextPair(d)
           IN /\ d.pairs = 0 => At(e, "type") /\ e.db = Emplaced(d, HashObject(d.hash))
              /\ d.pairs # 0 => /\ At(e, "field") /\ e.db = d.db /\ e.key = d.key
                                /\ e.pairs = d.pairs /\ e.hash = d.hash
<1>1. IsMap(HashObject(d.hash))
  BY ObjectIsMap DEF IsDecoder
<1> QED BY <1>1, EmplaceIs, StopIs DEF NextPair

LEMMA NextPairKeeps == ASSUME NEW d, IsDecoder(d) PROVE IsDecoder(NextPair(d))
BY NextPairIs DEF At

LEMMA StringRead ==
    ASSUME NEW t \in Token
    PROVE  LET r == readString(t) IN
           \/ \E s \in Key : r = GotString(s)
           \/ r = Lost
           \/ r = Thrown
<1>1. t.kind = "str" => t.str \in Key
  BY DEF Token, Magic, Op, Num, Str
<1> QED BY <1>1, Strings DEF readString

(* Whatever comes next, a decoder holds a database.  *)
LEMMA ReadKeeps ==
    ASSUME NEW d, IsDecoder(d), NEW t \in Token
    PROVE  IsDecoder(ReadToken(d, t))
<1> HIDE DEF IsDecoder
<1>1. \A why : IsDecoder(Stop(d, why))
  BY StopIs DEF At
<1>2. IsDecoder(ReadType(d, t))
  BY <1>1 DEF ReadType
<1>3. IsDecoder(ReadCount(d, t))
  <2> DEFINE e == Filled(d, LengthRead(t).len, NewObject)
  <2>1. IsDecoder(e)
    BY PairsRead, NewIsObject
  <2>2. ReadCount(d, t) \in {Stop(d, "exception"), Stop(d, "unknown"), NextPair(e)}
    BY DEF ReadCount, Filled
  <2> HIDE DEF e
  <2> QED BY <1>1, <2>1, <2>2, NextPairKeeps
<1>4. IsDecoder(ReadString(d, t))
  <2> DEFINE r == readString(t)
  <2>1. CASE ~ r.ok
    <3>1. ReadString(d, t) = Stop(d, r.why)
      BY <2>1 DEF ReadString
    <3> QED BY <1>1, <3>1
  <2>2. ASSUME NEW s \in Key, r = GotString(s)
        PROVE  IsDecoder(ReadString(d, t))
    <3>1. r.ok /\ r.str = s
      BY <2>2 DEF GotString
    <3> DEFINE new == set_field(d.hash, d.field, s)
               e1 == Keyed(d, s, "string")
               e2 == Keyed(d, s, "count")
               e3 == Fielded(d, s, "value")
               e4 == Filled(d, d.pairs - 1, new)
    <3>2. H!IsObject(new)
      BY ObjectWritten DEF IsDecoder
    <3>3. IsDecoder(e4)
      BY <3>2, PairsRead
    <3>4. IsDecoder(e1) /\ IsDecoder(e2) /\ IsDecoder(e3)
      BY KeyRead, FieldRead DEF At
    <3>6. ReadString(d, t) \in {e1, e2, e3, NextPair(e4), Emplace(d, StringObject(s))}
      <4> HIDE DEF r
      <4> QED BY <3>1 DEF ReadString, r, Keyed, Fielded, Filled
    <3>7. IsText(StringObject(s))
      BY DEF IsText
    <3> HIDE DEF e1, e2, e3, e4
    <3>8. IsDecoder(NextPair(e4)) /\ IsDecoder(Emplace(d, StringObject(s)))
      BY <3>3, <3>7, NextPairKeeps, EmplaceIs DEF At
    <3> QED BY <3>4, <3>6, <3>8
  <2>3. r = Lost \/ r = Thrown => ~ r.ok
    BY DEF Lost, Thrown
  <2> QED BY <2>1, <2>2, <2>3, StringRead
<1>5. ReadToken(d, t) \in
        {d, ReadType(d, t), ReadCount(d, t), ReadString(d, t)} \cup
        {Stop(d, why) : why \in {"db", "exception", "db number", "type"}}
  BY DEF ReadToken
<1> QED BY <1>1, <1>2, <1>3, <1>4, <1>5

\* The decoder after a file.
Load(z) == Fold("token", Decoder, z)

LEMMA LoadIs ==
    ASSUME NEW z
    PROVE  loadFromFile(z) = IF Load(z).expects = "unknown" THEN Unknown
                             ELSE IF Load(z).expects = "done" THEN Load(z).db ELSE Empty
<1>1. Load(z) = FoldLeft(ReadToken, Decoder, z)
  BY DEF Load, Fold, FoldLeft, MapThenFoldSet, Step
<1> QED BY <1>1 DEF loadFromFile

LEMMA RunKeeps ==
    ASSUME NEW z \in Seq(Token), NEW d, IsDecoder(d), NEW run, IsRun("token", d, z, run),
           NEW n \in 0 .. Len(z)
    PROVE  IsDecoder(run[n])
<1> DEFINE G == {m \in 0 .. n : IsDecoder(run[m])}
<1>1. n \in Nat /\ Len(z) \in Nat
  OBVIOUS
<1>2. 0 \in G
  BY <1>1 DEF IsRun
<1>3. ASSUME NEW m \in 1 .. n, m - 1 \in G PROVE m \in G
  <2>1. m \in 1 .. Len(z) /\ m \in 0 .. n
    BY <1>1
  <2>2. run[m] = ReadToken(run[m - 1], z[m]) /\ z[m] \in Token
    BY <2>1, ElementOfSeq DEF IsRun, Step
  <2> QED BY <1>3, <2>1, <2>2, ReadKeeps
<1> HIDE DEF G
<1>4. 0 .. n \subseteq G
  BY <1>1, <1>2, <1>3, UpTo
<1>5. n \in G
  BY <1>1, <1>4
<1> QED BY <1>5 DEF G

LEMMA LoadSound ==
    ASSUME NEW z \in Seq(Token)
    PROVE  IsDecoder(Load(z)) /\ (loadFromFile(z) = Unknown \/ IsDb(loadFromFile(z)))
<1>1. PICK run : IsRun("token", Decoder, z, run) /\ Load(z) = run[Len(z)]
  BY FoldRuns DEF Load
<1>2. Len(z) \in 0 .. Len(z)
  OBVIOUS
<1>3. IsDecoder(Load(z))
  BY <1>1, <1>2, RunKeeps, FirstState DEF At
<1> QED BY <1>3, LoadIs, NothingIsDb DEF IsDecoder

-----------------------------------------------------------------------------
(* What a save may find: a database, or one that is being written to. *)

IsNeat(h) == H!P!IsTable(h) /\ H!P!AtHome(h) /\ IsFiniteSet(HT!Nodes(h))

IsTidy(d) == H!P!IsDict(d) /\ IsNeat(d.ht0) /\ IsNeat(d.ht1)

IsTable(x) ==
    x = HashObject(x.hash) /\ x.hash.encoding = "HASHTABLE" /\ IsTidy(x.hash.dict)

IsFound(x) == IsText(x) \/ IsMap(x) \/ IsTable(x) \/ x = Null \/ x = Broken

IsSnap(db) ==
    /\ db = [k \in DOMAIN db |-> db[k]]
    /\ DOMAIN db \subseteq Key /\ IsFiniteSet(DOMAIN db)
    /\ \A k \in DOMAIN db : IsFound(db[k])

LEMMA DbIsSnap == ASSUME NEW db, IsDb(db) PROVE IsSnap(db)
BY DEF IsDb, IsSnap, IsFound

LEMMA SnapAssigned ==
    ASSUME NEW db, IsSnap(db), NEW k \in Key, NEW x, IsFound(x)
    PROVE  IsSnap(Assign(db, k, x))
<1> DEFINE e == Assign(db, k, x)
<1>1. /\ DOMAIN e = DOMAIN db \cup {k} /\ e[k] = x
      /\ \A j \in DOMAIN db : j # k => e[j] = db[j]
      /\ e = [j \in DOMAIN e |-> e[j]]
  BY DEF Assign
<1> HIDE DEF e
<1>2. IsFiniteSet(DOMAIN e)
  BY <1>1, FS_AddElement DEF IsSnap
<1> QED BY <1>1, <1>2 DEF IsSnap, e

LEMMA SoundIsTidy ==
    ASSUME NEW d, H!P!Sound(d), H!P!Counted(d)
    PROVE  IsTidy(d)
<1>1. \A h : HT!Nodes(h) = H!P!Nodes(h)
  BY DEF HT!Nodes, H!P!Nodes
<1>2. \A S : H!P!IsFiniteSet(S) <=> IsFiniteSet(S)
  BY DEF H!P!IsFiniteSet, IsFiniteSet
<1> QED BY <1>1, <1>2 DEF H!P!Sound, H!P!Counted, IsTidy, IsNeat, H!P!IsDict

LEMMA ObjectIsTidy ==
    ASSUME NEW o, H!IsObject(o)
    PROVE  IsTidy(o.dict)
BY SoundIsTidy DEF H!IsObject, H!IsTabled

\* A table of the same buckets with other nodes, all at home.
LEMMA Rearranged ==
    ASSUME NEW h, IsNeat(h), NEW X, IsFiniteSet(X), NEW g,
           g = [size |-> g.size, bucket |-> g.bucket], g.size = h.size,
           g.bucket \in [0 .. h.size - 1 -> SUBSET H!P!Entry],
           \A i \in 0 .. h.size - 1 : \A e \in g.bucket[i] :
              e \in h.bucket[i] \/ (e \in X /\ HT!Slot(h, e.key) = i)
    PROVE  IsNeat(g)
<1>1. H!P!IsTable(g)
  BY DEF IsNeat, H!P!IsTable
<1>2. \A k : H!P!Slot(g, k) = HT!Slot(h, k) /\ H!P!Slot(h, k) = HT!Slot(h, k)
  BY DEF H!P!Slot, HT!Slot
<1>3. H!P!AtHome(g)
  BY <1>2 DEF IsNeat, H!P!AtHome
<1>4. HT!Nodes(g) \subseteq HT!Nodes(h) \cup X
  BY DEF HT!Nodes
<1>5. IsFiniteSet(HT!Nodes(h) \cup X)
  BY FS_Union DEF IsNeat
<1> QED BY <1>1, <1>3, <1>4, <1>5, FS_Subset DEF IsNeat

\* The two tables of a Dict replaced.
LEMMA TablesReplaced ==
    ASSUME NEW d, IsTidy(d), NEW g0, IsNeat(g0), g0.size = d.ht0.size,
           NEW g1, IsNeat(g1), g1.size = d.ht1.size
    PROVE  IsTidy(HT!Record(g0, g1, d.used, d.rehashidx))
<1> DEFINE e == HT!Record(g0, g1, d.used, d.rehashidx)
<1>1. /\ e = H!P!Record(g0, g1, d.used, d.rehashidx)
      /\ e.ht0 = g0 /\ e.ht1 = g1 /\ e.used = d.used /\ e.rehashidx = d.rehashidx
  BY DEF HT!Record, H!P!Record
<1> HIDE DEF e
<1> QED BY <1>1 DEF IsTidy, IsNeat, H!P!IsDict, H!P!is_rehashing, e

LEMMA FlightTidy ==
    ASSUME NEW d, IsTidy(d), NEW e \in InFlight(d)
    PROVE  IsTidy(e)
<1> DEFINE i == d.rehashidx
           chain == d.ht0.bucket[i]
<1>1. HT!is_rehashing(d) /\ i # d.ht0.size
  BY DEF InFlight
<1>2. PICK M \in SUBSET chain : e \in UNION {Astray(d, M, y) : y \in chain \ M}
  BY Zenon DEF InFlight
<1>3. PICK x \in chain : e \in Astray(d, M, x)
  BY <1>2
<1>4. /\ d.ht0.bucket \in [0 .. d.ht0.size - 1 -> SUBSET H!P!Entry] /\ d.ht0.size \in Nat
      /\ d.ht1.bucket \in [0 .. d.ht1.size - 1 -> SUBSET H!P!Entry]
      /\ d.ht1.size \in Nat \ {0}
      /\ IsNeat(d.ht0) /\ IsNeat(d.ht1)
  BY <1>1 DEF IsTidy, H!P!IsDict, H!P!IsTable, HT!is_rehashing, H!P!is_rehashing
<1>5. i \in 0 .. d.ht0.size - 1
  BY <1>1, <1>4 DEF IsTidy, H!P!IsDict, HT!is_rehashing
<1>6. chain \subseteq H!P!Entry /\ IsFiniteSet(chain)
  <2>1. chain \subseteq HT!Nodes(d.ht0)
    BY <1>5 DEF HT!Nodes
  <2> QED BY <1>4, <1>5, <2>1, FS_Subset DEF IsNeat
<1> HIDE DEF chain
<1>7. ASSUME NEW B \in SUBSET chain
      PROVE  IsNeat(Left(d, B)) /\ Left(d, B).size = d.ht0.size
  <2> DEFINE g == Left(d, B)
  <2>1. /\ g = [size |-> g.size, bucket |-> g.bucket] /\ g.size = d.ht0.size
        /\ g.bucket = [d.ht0.bucket EXCEPT ![i] = B]
    BY DEF Left
  <2> HIDE DEF g, i
  <2>2. \A j \in 0 .. d.ht0.size - 1 : g.bucket[j] = IF j = i THEN B ELSE d.ht0.bucket[j]
    BY <1>4, <2>1
  <2>3. g.bucket \in [0 .. d.ht0.size - 1 -> SUBSET H!P!Entry]
    BY <1>4, <1>6, <2>1, <2>2
  <2>4. \A j \in 0 .. d.ht0.size - 1 : \A y \in g.bucket[j] : y \in d.ht0.bucket[j]
    BY <2>2 DEF chain
  <2> QED BY <1>4, <2>1, <2>3, <2>4, FS_EmptySet, Rearranged DEF g
<1>8. /\ IsNeat(Moved(d, M)) /\ Moved(d, M).size = d.ht1.size
      /\ Moved(d, M).bucket \in [0 .. d.ht1.size - 1 -> SUBSET H!P!Entry]
  <2> DEFINE g == Moved(d, M)
  <2>1. /\ g = [size |-> g.size, bucket |-> g.bucket] /\ g.size = d.ht1.size
        /\ g.bucket = [j \in 0 .. d.ht1.size - 1 |->
                         d.ht1.bucket[j] \cup {y \in M : HT!Slot(d.ht1, y.key) = j}]
    BY DEF Moved
  <2>2. IsFiniteSet(M) /\ M \subseteq H!P!Entry
    BY <1>2, <1>6, FS_Subset
  <2> HIDE DEF g
  <2>3. g.bucket \in [0 .. d.ht1.size - 1 -> SUBSET H!P!Entry]
    BY <1>4, <2>1, <2>2
  <2>4. \A j \in 0 .. d.ht1.size - 1 : \A y \in g.bucket[j] :
           y \in d.ht1.bucket[j] \/ (y \in M /\ HT!Slot(d.ht1, y.key) = j)
    BY <2>1
  <2>5. IsNeat(g)
    BY <1>4, <2>1, <2>2, <2>3, <2>4, Rearranged
  <2> QED BY <2>1, <2>3, <2>5 DEF g
<1> DEFINE h == Moved(d, M)
           cut == HT!WithBucket(h, x.key, {})
<1> HIDE DEF h
<1>9. IsNeat(cut) /\ cut.size = d.ht1.size
  <2>1. IsNeat(h) /\ h.size = d.ht1.size /\ h.bucket \in [0 .. d.ht1.size - 1 -> SUBSET H!P!Entry]
    BY <1>8 DEF h
  <2>2. /\ cut = [size |-> cut.size, bucket |-> cut.bucket] /\ cut.size = h.size
        /\ cut.bucket = [h.bucket EXCEPT ![HT!Slot(h, x.key)] = {}]
    BY DEF HT!WithBucket
  <2> HIDE DEF cut
  <2>3. /\ cut.bucket \in [0 .. h.size - 1 -> SUBSET H!P!Entry]
        /\ \A j \in 0 .. h.size - 1 : \A y \in cut.bucket[j] : y \in h.bucket[j]
    BY <2>1, <2>2
  <2> QED BY <2>1, <2>2, <2>3, FS_EmptySet, Rearranged
<1> DEFINE rest == chain \ (M \cup {x})
<1>10. rest \in SUBSET chain /\ {} \in SUBSET chain
  OBVIOUS
<1>11. e \in {HT!Record(Left(d, {}), h, d.used, i), HT!Record(Left(d, rest), h, d.used, i),
              HT!Record(Left(d, rest), cut, d.used, i)}
  BY <1>3 DEF Astray, chain, h
<1>12. IsNeat(h) /\ h.size = d.ht1.size
  BY <1>8 DEF h
<1> HIDE DEF rest, cut
<1>13. /\ IsTidy(HT!Record(Left(d, {}), h, d.used, i))
       /\ IsTidy(HT!Record(Left(d, rest), h, d.used, i))
       /\ IsTidy(HT!Record(Left(d, rest), cut, d.used, i))
  BY <1>7, <1>9, <1>10, <1>12, TablesReplaced
<1> QED BY <1>11, <1>13

LEMMA LinkTidy ==
    ASSUME NEW d, IsTidy(d), NEW f \in Key, NEW v \in Key, NEW e \in Linking(d, f, v)
    PROVE  IsTidy(e)
<1> DEFINE h == d.ht0
           new == Pair(f, v)
<1>1. PICK C \in {{}, h.bucket[HT!Slot(h, f)] \cup {new}} :
         e = HT!WithMain(d, HT!WithBucket(h, f, C), d.used)
  BY DEF Linking
<1>2. /\ IsNeat(h) /\ IsNeat(d.ht1) /\ h.size \in Nat \ {0}
      /\ h.bucket \in [0 .. h.size - 1 -> SUBSET H!P!Entry]
  BY DEF IsTidy, IsNeat, H!P!IsDict, H!P!IsTable
<1>3. HT!Slot(h, f) \in 0 .. h.size - 1
  BY <1>2, Assumed, H!P!SlotInRange DEF HT!Slot, H!P!Slot, H!HashObjectAssumption, H!HT!DictAssumption, H!P!DictAssumption
<1>4. new \in H!P!Entry /\ new.key = f
  BY DEF Pair, H!P!Entry
<1> DEFINE g == HT!WithBucket(h, f, C)
<1> HIDE DEF h, new
<1>5. /\ g = [size |-> g.size, bucket |-> g.bucket] /\ g.size = h.size
      /\ g.bucket = [h.bucket EXCEPT ![HT!Slot(h, f)] = C]
  BY DEF HT!WithBucket
<1>6. C \subseteq H!P!Entry /\ \A y \in C : y \in h.bucket[HT!Slot(h, f)] \/ y = new
  BY <1>1, <1>2, <1>3, <1>4
<1> HIDE DEF g
<1>7. /\ g.bucket \in [0 .. h.size - 1 -> SUBSET H!P!Entry]
      /\ \A j \in 0 .. h.size - 1 : \A y \in g.bucket[j] :
            y \in h.bucket[j] \/ (y \in {new} /\ HT!Slot(h, y.key) = j)
  BY <1>2, <1>3, <1>4, <1>5, <1>6
<1>8. IsNeat(g)
  BY <1>2, <1>5, <1>7, FS_Singleton, Rearranged
<1>9. e = HT!Record(g, d.ht1, d.used, d.rehashidx)
  BY <1>1 DEF HT!WithMain, g
<1> QED BY <1>2, <1>5, <1>8, <1>9, TablesReplaced DEF h

LEMMA HashAtKey ==
    ASSUME NEW db, IsDb(db), NEW k
    PROVE  H!IsObject(HashAt(db, k))
<1>1. Holds(db, k, "HASH") => H!IsObject(db[k].hash)
  <2>1. \A x : IsText(x) => x.type # "HASH"
    BY DEF IsText, StringObject
  <2> QED BY <2>1 DEF IsDb, Holds, IsMap
<1> QED BY <1>1, NewIsObject DEF HashAt

LEMMA TornFound ==
    ASSUME IsDb(data), NEW k \in Key, NEW f \in Key, NEW v \in Key, NEW db \in Torn(k, f, v)
    PROVE  IsSnap(db)
<1> DEFINE o == HashAt(data, k)
           p == IF o.encoding = "ZIPLIST" /\ {f, v} \cap Large # {}
                THEN promote_to_hashtable(o) ELSE o
           dicts == InFlight(p.dict) \cup Linking(HT!rehash_step(p.dict, 1), f, v)
<1>1. \/ db \in {Assign(data, k, Null), Assign(data, k, Broken)}
      \/ /\ p.encoding = "HASHTABLE"
         /\ \E d \in dicts : db = Assign(data, k, HashObject([p EXCEPT !.dict = d]))
  BY DEF Torn
<1>2. IsSnap(data) /\ H!IsObject(o)
  BY DbIsSnap, HashAtKey
<1> HIDE DEF o
<1>3. H!IsObject(p)
  <2>1. o.encoding = "ZIPLIST" => o.ziplist \in Seq(H!D!Entry)
    BY <1>2 DEF H!IsObject, H!IsHash, H!IsZiplist
  <2>2. o.encoding = "ZIPLIST" => H!IsObject(H!promote_to_hashtable(o))
    BY <2>1, Assumed, H!PromotionKeeps
  <2> QED BY <1>2, <2>2, ObjectSame
<1> HIDE DEF p
<1>4. CASE db \in {Assign(data, k, Null), Assign(data, k, Broken)}
  BY <1>2, <1>4, SnapAssigned DEF IsFound
<1>5. ASSUME p.encoding = "HASHTABLE", NEW d \in dicts,
             db = Assign(data, k, HashObject([p EXCEPT !.dict = d]))
      PROVE  IsSnap(db)
  <2>1. IsTidy(p.dict)
    BY <1>3, ObjectIsTidy
  <2>2. IsTidy(HT!rehash_step(p.dict, 1))
    <3> DEFINE s == H!P!rehash_step(p.dict, 1)
    <3>1. H!P!Sound(s) /\ H!P!Counted(s)
      BY <1>3, Assumed, H!Assumed, H!P!RehashStepSound, H!P!RehashStepCounted DEF H!IsObject, H!IsTabled
    <3>2. s = HT!rehash_step(p.dict, 1)
      BY StepSame, H!StepSame, Assumed
    <3> HIDE DEF s
    <3> QED BY <3>1, <3>2, SoundIsTidy
  <2>3. IsTidy(d)
    BY <1>5, <2>1, <2>2, FlightTidy, LinkTidy
  <2> DEFINE q == [p EXCEPT !.dict = d]
  <2>4. q.encoding = "HASHTABLE" /\ q.dict = d
    BY <1>3, <1>5 DEF H!IsObject, H!IsHash
  <2> HIDE DEF q
  <2>5. IsTable(HashObject(q))
    BY <2>3, <2>4 DEF IsTable, HashObject
  <2> QED BY <1>2, <1>5, <2>5, SnapAssigned DEF IsFound, q
<1> QED BY <1>1, <1>4, <1>5

-----------------------------------------------------------------------------
(* What a save writes for a key. *)

LEMMA FieldsListed ==
    ASSUME NEW x, IsMap(x) \/ IsTable(x)
    PROVE  LET o == x.hash
               E == get_all_fields(o)
           IN /\ x.type = "HASH" /\ o.encoding \in {"ZIPLIST", "HASHTABLE"}
              /\ E \in Seq(H!P!Entry) /\ size(o) \in Nat
              /\ o.encoding = "ZIPLIST" => E = o.ziplist /\ Len(E) = size(o)
              /\ o.encoding = "HASHTABLE" =>
                    /\ IsTidy(o.dict) /\ size(o) = o.dict.used
                    /\ Len(E) = HT!get_all_length(o.dict)
<1> DEFINE o == x.hash
           d == o.dict
           A == HT!Nodes(d.ht0)
           B == HT!Nodes(d.ht1)
           E == get_all_fields(o)
<1>1. x.type = "HASH"
  <2>1. x = HashObject(o)
    BY DEF IsMap, IsTable
  <2> QED BY <2>1 DEF HashObject
<1>2. CASE o.encoding = "ZIPLIST"
  <2>1. H!IsObject(o)
    BY <1>2 DEF IsMap, IsTable
  <2>2. o.ziplist \in Seq(H!P!Entry)
    BY <1>2, <2>1 DEF H!IsObject, H!IsHash, H!IsZiplist, H!D!Entry, H!P!Entry
  <2> QED BY <1>1, <1>2, <2>2 DEF get_all_fields, size
<1>3. CASE o.encoding = "HASHTABLE"
  <2>1. IsTidy(d)
    BY ObjectIsTidy DEF IsMap, IsTable
  <2>2. /\ IsFiniteSet(A) /\ IsFiniteSet(B) /\ d.used \in Nat
        /\ A \subseteq H!P!Entry /\ B \subseteq H!P!Entry
    <3>1. H!P!IsDict(d) /\ IsNeat(d.ht0) /\ IsNeat(d.ht1)
      BY <2>1 DEF IsTidy
    <3> HIDE DEF d
    <3>2. IsFiniteSet(A) /\ IsFiniteSet(B)
      BY <3>1 DEF IsNeat
    <3>3. d.used \in Nat
      BY <3>1 DEF H!P!IsDict
    <3>4. H!P!IsTable(d.ht0) /\ H!P!IsTable(d.ht1)
      BY <3>1 DEF IsNeat
    <3>5. A \subseteq H!P!Entry /\ B \subseteq H!P!Entry
      BY <3>4 DEF H!P!IsTable, HT!Nodes
    <3> QED BY <3>2, <3>3, <3>5
  <2>3. E = SetToSeq(A) \o SetToSeq(B) /\ size(o) = d.used
    BY <1>3, Zenon DEF get_all_fields, size
  <2>4. HT!get_all_length(d) = Cardinality(A) + Cardinality(B)
    BY DEF HT!get_all_length, HT!Cardinality, Cardinality
  <2> HIDE DEF A, B, E, d
  <2>5. /\ SetToSeq(A) \in Seq(A) /\ Len(SetToSeq(A)) = Cardinality(A)
        /\ SetToSeq(B) \in Seq(B) /\ Len(SetToSeq(B)) = Cardinality(B)
    BY <2>2, SetListed
  <2>6. SetToSeq(A) \in Seq(H!P!Entry) /\ SetToSeq(B) \in Seq(H!P!Entry)
    BY <2>2, <2>5
  <2>7. E \in Seq(H!P!Entry) /\ Len(E) = Cardinality(A) + Cardinality(B)
    <3> DEFINE Y == SetToSeq(A)
               Z == SetToSeq(B)
    <3> HIDE DEF Y, Z
    <3>1. E = Y \o Z /\ Y \in Seq(H!P!Entry) /\ Z \in Seq(H!P!Entry)
          /\ Len(Y) = Cardinality(A) /\ Len(Z) = Cardinality(B)
      BY <2>3, <2>5, <2>6 DEF Y, Z
    <3> HIDE DEF E
    <3> QED BY <3>1, ConcatProperties
  <2> QED BY <1>1, <1>3, <2>1, <2>2, <2>3, <2>4, <2>7 DEF E, d
<1>4. o.encoding \in {"ZIPLIST", "HASHTABLE"}
  BY DEF IsMap, IsTable, H!IsObject, H!IsHash
<1> QED BY <1>2, <1>3, <1>4

LEMMA TextTokens ==
    ASSUME NEW k \in Key, NEW s \in Key
    PROVE  LET T == writeKeyValuePair(k, StringObject(s))
           IN /\ T = <<Op(RDB_TYPE_STRING), Str(k), Str(s)>>
              /\ T \in Seq(Token) /\ Len(T) = 3
<1>1. Op(RDB_TYPE_STRING) \in Token /\ Str(k) \in Token /\ Str(s) \in Token
  BY DEF Token, RDB_TYPE_STRING
<1>2. writeKeyValuePair(k, StringObject(s)) = <<Op(RDB_TYPE_STRING), Str(k), Str(s)>>
  BY DEF writeKeyValuePair, StringObject
<1> HIDE DEF Token
<1> QED BY <1>1, <1>2

LEMMA HashTokens ==
    ASSUME NEW k \in Key, NEW x, IsMap(x) \/ IsTable(x)
    PROVE  LET T == writeKeyValuePair(k, x)
               E == get_all_fields(x.hash)
           IN /\ T \in Seq(Token) /\ Len(T) = 3 + 2 * Len(E) /\ Len(E) \in Nat
              /\ T[1] = Op(RDB_TYPE_HASH) /\ T[2] = Str(k) /\ T[3] = Num(size(x.hash))
              /\ \A j \in 1 .. Len(E) :
                    T[2 + 2 * j] = Str(E[j].key) /\ T[3 + 2 * j] = Str(E[j].value)
<1> DEFINE o == x.hash
           E == get_all_fields(o)
           T == writeKeyValuePair(k, x)
           P == [i \in DOMAIN E |-> LET e == E[i] IN <<Str(e.key), Str(e.value)>>]
           F == FlattenSeq(P)
           B == <<Op(RDB_TYPE_HASH), Str(k), Num(size(o))>>
<1>1. x.type = "HASH" /\ o.encoding # "TORN" /\ E \in Seq(H!P!Entry) /\ size(o) \in Nat
  BY FieldsListed
<1>2. T = B \o F
  BY <1>1 DEF writeKeyValuePair
<1> HIDE DEF E, T
<1>3. Len(E) \in Nat /\ DOMAIN E = 1 .. Len(E)
  BY <1>1
<1>4. \A i \in 1 .. Len(E) : Str(E[i].key) \in Token /\ Str(E[i].value) \in Token
  <2>1. \A i \in 1 .. Len(E) : E[i] \in H!P!Entry
    BY <1>1, ElementOfSeq
  <2>2. \A i \in 1 .. Len(E) : E[i].key \in Key /\ E[i].value \in Key
    BY <2>1 DEF H!P!Entry
  <2> QED BY <2>2 DEF Token
<1>5. \A i \in 1 .. Len(E) : P[i] = <<Str(E[i].key), Str(E[i].value)>>
  BY <1>3
<1>6. P \in Seq(Seq(Token)) /\ Len(P) = Len(E)
  <2> HIDE DEF Token
  <2>1. \A i \in 1 .. Len(E) : <<Str(E[i].key), Str(E[i].value)>> \in Seq(Token)
    BY <1>4
  <2> QED BY <1>3, <2>1
<1>7. \A i \in 1 .. Len(P) : Len(P[i]) = 2
  BY <1>5, <1>6
<1> HIDE DEF P, F
<1>8. /\ F \in Seq(Token) /\ Len(F) = 2 * Len(E)
      /\ \A i \in 1 .. Len(E) : F[2 * i - 1] = P[i][1] /\ F[2 * i] = P[i][2]
  BY <1>6, <1>7, FlattenPairs DEF F
<1>9. B \in Seq(Token) /\ Len(B) = 3 /\ B[1] = Op(RDB_TYPE_HASH) /\ B[2] = Str(k) /\ B[3] = Num(size(o))
  <2>1. Op(RDB_TYPE_HASH) \in Token /\ Str(k) \in Token /\ Num(size(o)) \in Token
    BY <1>1 DEF Token, RDB_TYPE_HASH
  <2> HIDE DEF Token
  <2> QED BY <2>1
<1> HIDE DEF B
<1>10. /\ T \in Seq(Token) /\ Len(T) = 3 + 2 * Len(E)
       /\ \A i \in 1 .. 3 + 2 * Len(E) : T[i] = IF i <= 3 THEN B[i] ELSE F[i - 3]
  <2> HIDE DEF Token
  <2>1. /\ T \in Seq(Token) /\ Len(T) = Len(B) + Len(F)
        /\ \A i \in 1 .. Len(B) + Len(F) : T[i] = IF i <= Len(B) THEN B[i] ELSE F[i - Len(B)]
    BY <1>2, <1>8, <1>9, ConcatProperties
  <2> QED BY <1>3, <1>8, <1>9, <2>1
<1>11. T[1] = B[1] /\ T[2] = B[2] /\ T[3] = B[3]
  BY <1>3, <1>10
<1>12. ASSUME NEW j \in 1 .. Len(E)
       PROVE  T[2 + 2 * j] = Str(E[j].key) /\ T[3 + 2 * j] = Str(E[j].value)
  <2>1. /\ 2 + 2 * j \in 1 .. 3 + 2 * Len(E) /\ ~ (2 + 2 * j <= 3) /\ (2 + 2 * j) - 3 = 2 * j - 1
        /\ 3 + 2 * j \in 1 .. 3 + 2 * Len(E) /\ ~ (3 + 2 * j <= 3) /\ (3 + 2 * j) - 3 = 2 * j
    BY <1>3
  <2>2. T[2 + 2 * j] = P[j][1] /\ T[3 + 2 * j] = P[j][2]
    BY <1>8, <1>10, <2>1
  <2> QED BY <1>5, <2>2
<1> QED BY <1>3, <1>9, <1>10, <1>11, <1>12 DEF E, T

-----------------------------------------------------------------------------
(* What the reader makes of a token that it expects. *)

\* A length that it reads as it was written.
Clear(t) == t.kind \in {"num", "str"} => RL!Faithful(LengthOf(t))

LEMMA TypeRead ==
    ASSUME NEW d, At(d, "type")
    PROVE  /\ LET e == ReadToken(d, Op(RDB_TYPE_STRING)) IN At(e, "string key") /\ e.db = d.db
           /\ LET e == ReadToken(d, Op(RDB_TYPE_HASH)) IN At(e, "hash key") /\ e.db = d.db
           /\ LET e == ReadToken(d, Op(RDB_OPCODE_EOF)) IN At(e, "done") /\ e.db = d.db
<1>1. \A n : Byte(Op(n)) = n /\ OneByte(Op(n))
  BY DEF Byte, OneByte, Op
<1>2. \A n : ReadToken(d, Op(n)) = ReadType(d, Op(n))
  BY DEF ReadToken, At
<1>3. \A t : OneByte(t) /\ Byte(t) = RDB_OPCODE_EOF => ReadType(d, t) = Stop(d, "done")
  BY DEF ReadType, RDB_TYPE_STRING, RDB_TYPE_HASH, RDB_OPCODE_EOF
<1>4. \A t : OneByte(t) /\ Byte(t) = RDB_TYPE_STRING => ReadType(d, t) = Stop(d, "string key")
  BY DEF ReadType, RDB_TYPE_STRING, RDB_TYPE_HASH, RDB_OPCODE_EOF
<1>5. \A t : OneByte(t) /\ Byte(t) = RDB_TYPE_HASH => ReadType(d, t) = Stop(d, "hash key")
  BY DEF ReadType, RDB_TYPE_STRING, RDB_TYPE_HASH, RDB_OPCODE_EOF
<1>6. /\ ReadToken(d, Op(RDB_TYPE_STRING)) = Stop(d, "string key")
      /\ ReadToken(d, Op(RDB_TYPE_HASH)) = Stop(d, "hash key")
      /\ ReadToken(d, Op(RDB_OPCODE_EOF)) = Stop(d, "done")
  BY <1>1, <1>2, <1>3, <1>4, <1>5
<1>7. IsDecoder(d)
  BY DEF At
<1> DEFINE e1 == Stop(d, "string key")
           e2 == Stop(d, "hash key")
           e3 == Stop(d, "done")
<1>8. At(e1, "string key") /\ e1.db = d.db
  BY <1>7, StopIs
<1>9. At(e2, "hash key") /\ e2.db = d.db
  BY <1>7, StopIs
<1>10. At(e3, "done") /\ e3.db = d.db
  BY <1>7, StopIs
<1> HIDE DEF e1, e2, e3
<1>11. /\ ReadToken(d, Op(RDB_TYPE_STRING)) = e1
       /\ ReadToken(d, Op(RDB_TYPE_HASH)) = e2
       /\ ReadToken(d, Op(RDB_OPCODE_EOF)) = e3
  BY <1>6 DEF e1, e2, e3
<1> QED BY <1>8, <1>9, <1>10, <1>11

LEMMA CountRead ==
    ASSUME NEW d, At(d, "count"), NEW c \in Nat, Clear(Num(c))
    PROVE  ReadToken(d, Num(c)) = NextPair(Filled(d, c, NewObject))
<1> DEFINE t == Num(c)
<1>1. t.kind = "num" /\ LengthOf(t) = c
  BY DEF Num, LengthOf
<1>2. RL!Faithful(c)
  BY <1>1 DEF Clear
<1>3. RL!Read(c).ok /\ RL!Read(c).len = c
  BY <1>2, FaithfulLengthsSurvive DEF RL!RoundTrip
<1>4. LengthRead(t) = RL!Read(c)
  BY <1>1 DEF LengthRead
<1> HIDE DEF t
<1>5. ReadToken(d, t) = ReadCount(d, t)
  BY DEF ReadToken, At
<1>6. ReadCount(d, t) = NextPair(Filled(d, LengthRead(t).len, NewObject))
  BY <1>1, <1>3, <1>4 DEF ReadCount, Filled
<1> QED BY <1>3, <1>4, <1>5, <1>6 DEF t

\* What readString gives to each of the places where a string is read.
LEMMA StringGiven ==
    ASSUME NEW d, NEW s \in Key, Clear(Str(s))
    PROVE  /\ At(d, "string key") => ReadToken(d, Str(s)) = Keyed(d, s, "string")
           /\ At(d, "string") => ReadToken(d, Str(s)) = Emplace(d, StringObject(s))
           /\ At(d, "hash key") => ReadToken(d, Str(s)) = Keyed(d, s, "count")
           /\ At(d, "field") => ReadToken(d, Str(s)) = Fielded(d, s, "value")
           /\ At(d, "value") =>
                 ReadToken(d, Str(s)) = NextPair(Filled(d, d.pairs - 1, set_field(d.hash, d.field, s)))
<1> DEFINE t == Str(s)
<1>1. t.kind = "str" /\ t.str = s /\ RL!Faithful(LengthOf(t))
  BY DEF Str, Clear
<1>2. readString(t) = GotString(s)
  BY <1>1 DEF readString
<1>3. GotString(s).ok = TRUE /\ GotString(s).str = s
  BY DEF GotString
<1> HIDE DEF t
<1>4. d.expects \in {"string key", "string", "hash key", "field", "value"} =>
         ReadToken(d, t) = ReadString(d, t)
  BY DEF ReadToken
<1>5. /\ d.expects = "string key" => ReadString(d, t) = Keyed(d, s, "string")
      /\ d.expects = "string" => ReadString(d, t) = Emplace(d, StringObject(s))
      /\ d.expects = "hash key" => ReadString(d, t) = Keyed(d, s, "count")
      /\ d.expects = "field" => ReadString(d, t) = Fielded(d, s, "value")
      /\ d.expects = "value" =>
            ReadString(d, t) = NextPair(Filled(d, d.pairs - 1, set_field(d.hash, d.field, s)))
  BY <1>2, <1>3 DEF ReadString, Keyed, Fielded, Filled
<1> QED BY <1>4, <1>5 DEF At, t

LEMMA StringReadClear ==
    ASSUME NEW d, NEW s \in Key, Clear(Str(s))
    PROVE  LET e == ReadToken(d, Str(s)) IN
           /\ At(d, "string key") => At(e, "string") /\ e.db = d.db /\ e.key = s
           /\ At(d, "string") => At(e, "type") /\ e.db = Emplaced(d, StringObject(s))
           /\ At(d, "hash key") => At(e, "count") /\ e.db = d.db /\ e.key = s
           /\ At(d, "field") => /\ At(e, "value") /\ e.db = d.db /\ e.key = d.key
                                /\ e.field = s /\ e.pairs = d.pairs /\ e.hash = d.hash
<1> DEFINE t == Str(s)
           e1 == Keyed(d, s, "string")
           e2 == Emplace(d, StringObject(s))
           e3 == Keyed(d, s, "count")
           e4 == Fielded(d, s, "value")
<1>1. IsText(StringObject(s))
  BY DEF IsText
<1>2. \A why : At(d, why) => IsDecoder(d)
  BY DEF At
<1>3. IsDecoder(d) => At(e1, "string") /\ e1.db = d.db /\ e1.key = s
  BY KeyRead
<1>4. IsDecoder(d) => At(e2, "type") /\ e2.db = Emplaced(d, StringObject(s))
  BY <1>1, EmplaceIs
<1>5. IsDecoder(d) => At(e3, "count") /\ e3.db = d.db /\ e3.key = s
  BY KeyRead
<1>6. IsDecoder(d) => /\ At(e4, "value") /\ e4.db = d.db /\ e4.key = d.key
                      /\ e4.field = s /\ e4.pairs = d.pairs /\ e4.hash = d.hash
  BY FieldRead
<1>7. /\ At(d, "string key") => ReadToken(d, t) = e1
      /\ At(d, "string") => ReadToken(d, t) = e2
      /\ At(d, "hash key") => ReadToken(d, t) = e3
      /\ At(d, "field") => ReadToken(d, t) = e4
  BY StringGiven
<1> HIDE DEF t, e1, e2, e3, e4
<1>8. /\ At(d, "string key") => LET e == ReadToken(d, t) IN At(e, "string") /\ e.db = d.db /\ e.key = s
      /\ At(d, "string") => LET e == ReadToken(d, t) IN At(e, "type") /\ e.db = Emplaced(d, StringObject(s))
      /\ At(d, "hash key") => LET e == ReadToken(d, t) IN At(e, "count") /\ e.db = d.db /\ e.key = s
      /\ At(d, "field") => LET e == ReadToken(d, t)
                           IN /\ At(e, "value") /\ e.db = d.db /\ e.key = d.key
                              /\ e.field = s /\ e.pairs = d.pairs /\ e.hash = d.hash
  BY <1>2, <1>3, <1>4, <1>5, <1>6, <1>7
<1> QED BY <1>8 DEF t

LEMMA ValueRead ==
    ASSUME NEW d, At(d, "value"), NEW s \in Key, Clear(Str(s))
    PROVE  LET e == ReadToken(d, Str(s))
               o == set_field(d.hash, d.field, s)
           IN /\ d.pairs - 1 = 0 => /\ At(e, "type")
                                    /\ e.db = IF d.key \in DOMAIN d.db THEN d.db
                                              ELSE Assign(d.db, d.key, HashObject(o))
              /\ d.pairs - 1 # 0 => /\ At(e, "field") /\ e.db = d.db /\ e.key = d.key
                                    /\ e.pairs = d.pairs - 1 /\ e.hash = o
<1> DEFINE o == set_field(d.hash, d.field, s)
           n == d.pairs - 1
           y == Filled(d, n, o)
<1>1. H!IsObject(o) /\ IsDecoder(d)
  BY ObjectWritten DEF IsDecoder, At
<1>2. ReadToken(d, Str(s)) = NextPair(y)
  BY StringGiven
<1> HIDE DEF n, o
<1>3. IsDecoder(y) /\ y.db = d.db /\ y.key = d.key /\ y.pairs = n /\ y.hash = o
  BY <1>1, PairsRead
<1> HIDE DEF y
<1> QED BY <1>2, <1>3, NextPairIs DEF Emplaced, n, o

LEMMA FirstPairRead ==
    ASSUME NEW d, At(d, "count"), NEW c \in Nat, Clear(Num(c))
    PROVE  LET e == ReadToken(d, Num(c))
           IN /\ c = 0 => /\ At(e, "type")
                          /\ e.db = IF d.key \in DOMAIN d.db THEN d.db
                                    ELSE Assign(d.db, d.key, HashObject(NewObject))
              /\ c # 0 => /\ At(e, "field") /\ e.db = d.db /\ e.key = d.key
                          /\ e.pairs = c /\ e.hash = NewObject
<1> DEFINE o == NewObject
           y == Filled(d, c, o)
<1>1. H!IsObject(o) /\ IsDecoder(d)
  BY NewIsObject DEF At
<1>2. ReadToken(d, Num(c)) = NextPair(y)
  BY CountRead
<1> HIDE DEF o
<1>3. IsDecoder(y) /\ y.db = d.db /\ y.key = d.key /\ y.pairs = c /\ y.hash = o
  BY <1>1, PairsRead
<1> HIDE DEF y
<1> QED BY <1>2, <1>3, NextPairIs DEF Emplaced, o

-----------------------------------------------------------------------------
(* What a load makes of what was written for a key, or of the first tokens *)
(* of it.  A load that is over takes nothing more from the file.           *)

Going(d) == d.expects \notin {"done", "unknown"}

\* A decoder that has read db and is to read next what why says, ...
Ready(d, why, db) == At(d, why) /\ d.db = db

\* ... for the key k, ...
Named(d, why, db, k) == At(d, why) /\ d.db = db /\ d.key = k

\* ... a field, n pairs before the end of the hash o, ...
Open(d, db, k, n, o) == Named(d, "field", db, k) /\ d.pairs = n /\ d.hash = o

\* ... the value of the field f.
Given(d, db, k, n, o, f) ==
    Named(d, "value", db, k) /\ d.pairs = n /\ d.hash = o /\ d.field = f

\* What emplace makes of a database.
Put(db, k, x) == IF k \in DOMAIN db THEN db ELSE Assign(db, k, x)

LEMMA StillGoing ==
    ASSUME NEW d
    PROVE  /\ \A why \in {"magic", "db", "db number", "type", "string key", "string", "hash key",
                          "count", "field", "value", "exception"} : At(d, why) => Going(d)
           /\ \A db, why : Ready(d, why, db) => At(d, why)
           /\ \A db, k, why : Named(d, why, db, k) => At(d, why)
           /\ \A db, k, n, o : Open(d, db, k, n, o) => At(d, "field")
           /\ \A db, k, n, o, f : Given(d, db, k, n, o, f) => At(d, "value")
BY DEF At, Going, Ready, Named, Open, Given

LEMMA ExceptionIsFinal == ASSUME NEW d, At(d, "exception"), NEW t PROVE ReadToken(d, t) = d
BY DEF At, ReadToken

LEMMA TypeTaken ==
    ASSUME NEW d, NEW db, Ready(d, "type", db), NEW t, NEW e, e = ReadToken(d, t)
    PROVE  /\ t = Op(RDB_TYPE_STRING) => Ready(e, "string key", db)
           /\ t = Op(RDB_TYPE_HASH) => Ready(e, "hash key", db)
BY TypeRead DEF Ready

LEMMA KeyTaken ==
    ASSUME NEW d, NEW db, NEW k \in Key, NEW t, t = Str(k), Clear(t), NEW e, e = ReadToken(d, t)
    PROVE  /\ Ready(d, "string key", db) => Named(e, "string", db, k)
           /\ Ready(d, "hash key", db) => Named(e, "count", db, k)
<1>1. At(d, "string key") => At(e, "string") /\ e.db = d.db /\ e.key = k
  BY StringReadClear
<1>2. At(d, "hash key") => At(e, "count") /\ e.db = d.db /\ e.key = k
  BY StringReadClear
<1> QED BY <1>1, <1>2 DEF Ready, Named

LEMMA TextTaken ==
    ASSUME NEW d, NEW db, NEW k, Named(d, "string", db, k), NEW s \in Key, NEW t, t = Str(s), Clear(t),
           NEW e, e = ReadToken(d, t)
    PROVE  Ready(e, "type", Put(db, k, StringObject(s)))
<1>1. At(d, "string") /\ d.db = db /\ d.key = k
  BY DEF Named
<1>2. At(e, "type") /\ e.db = Emplaced(d, StringObject(s))
  BY <1>1, StringReadClear
<1> QED BY <1>1, <1>2 DEF Ready, Put, Emplaced

LEMMA CountTaken ==
    ASSUME NEW d, NEW db, NEW k, Named(d, "count", db, k), NEW c \in Nat, NEW t, t = Num(c), Clear(t),
           NEW e, e = ReadToken(d, t)
    PROVE  /\ c = 0 => Ready(e, "type", Put(db, k, HashObject(NewObject)))
           /\ c # 0 => Open(e, db, k, c, NewObject)
<1>1. At(d, "count") /\ d.db = db /\ d.key = k
  BY DEF Named
<1>2. /\ c = 0 => /\ At(e, "type")
                  /\ e.db = IF d.key \in DOMAIN d.db THEN d.db
                            ELSE Assign(d.db, d.key, HashObject(NewObject))
      /\ c # 0 => /\ At(e, "field") /\ e.db = d.db /\ e.key = d.key
                  /\ e.pairs = c /\ e.hash = NewObject
  BY <1>1, FirstPairRead
<1> QED BY <1>1, <1>2 DEF Ready, Open, Named, Put

LEMMA FieldTaken ==
    ASSUME NEW d, NEW db, NEW k, NEW n, NEW o, Open(d, db, k, n, o), NEW f \in Key,
           NEW t, t = Str(f), Clear(t), NEW e, e = ReadToken(d, t)
    PROVE  Given(e, db, k, n, o, f)
<1>1. At(d, "field") /\ d.db = db /\ d.key = k /\ d.pairs = n /\ d.hash = o
  BY DEF Open, Named
<1>2. /\ At(e, "value") /\ e.db = d.db /\ e.key = d.key
      /\ e.field = f /\ e.pairs = d.pairs /\ e.hash = d.hash
  BY <1>1, StringReadClear
<1> QED BY <1>1, <1>2 DEF Given, Named

LEMMA ValueTaken ==
    ASSUME NEW d, NEW db, NEW k, NEW n, NEW o, NEW f, Given(d, db, k, n, o, f), NEW v \in Key,
           NEW t, t = Str(v), Clear(t), NEW e, e = ReadToken(d, t)
    PROVE  /\ n - 1 = 0 => Ready(e, "type", Put(db, k, HashObject(set_field(o, f, v))))
           /\ n - 1 # 0 => Open(e, db, k, n - 1, set_field(o, f, v))
<1>1. At(d, "value") /\ d.db = db /\ d.key = k /\ d.pairs = n /\ d.hash = o /\ d.field = f
  BY DEF Given, Named
<1>2. LET w == set_field(d.hash, d.field, v)
      IN /\ d.pairs - 1 = 0 => /\ At(e, "type")
                               /\ e.db = IF d.key \in DOMAIN d.db THEN d.db
                                         ELSE Assign(d.db, d.key, HashObject(w))
         /\ d.pairs - 1 # 0 => /\ At(e, "field") /\ e.db = d.db /\ e.key = d.key
                               /\ e.pairs = d.pairs - 1 /\ e.hash = w
  BY <1>1, ValueRead
<1> QED BY <1>1, <1>2 DEF Ready, Open, Named, Put

\* A field that is taken for a type is refused.
LEMMA NoType ==
    ASSUME NEW d, At(d, "type"),
           NEW s \in Key, Length[s] \notin {0, 2}, Length[s] < 64
    PROVE  LET e == ReadToken(d, Str(s)) IN At(e, "exception")
<1> DEFINE t == Str(s)
<1>1. Length[s] \in Nat /\ t.kind = "str" /\ LengthOf(t) = Length[s]
  BY Strings DEF Str, LengthOf
<1>2. Byte(t) = Length[s] /\ ~ OneByte(t)
  BY <1>1 DEF Byte, OneByte
<1>3. ReadToken(d, t) = ReadType(d, t)
  BY DEF ReadToken, At
<1> HIDE DEF t
<1>4. Byte(t) # RDB_OPCODE_EOF /\ Byte(t) \notin {2, 64}
  BY <1>1, <1>2 DEF RDB_OPCODE_EOF
<1>5. ReadType(d, t) = Stop(d, "exception")
  BY <1>2, <1>4 DEF ReadType
<1>6. IsDecoder(d)
  BY DEF At
<1> QED BY <1>3, <1>5, <1>6, StopIs DEF t

\* r are the decoders that the first N tokens of T make of d.
IsReading(r, d, T, N) ==
    /\ r[0] = d
    /\ \A m \in 1 .. N : r[m] = ReadToken(r[m - 1], T[m]) /\ Clear(T[m])

LEMMA ReadingStep ==
    ASSUME NEW r, NEW d, NEW T, NEW N, IsReading(r, d, T, N), NEW m \in 1 .. N, NEW l, l = m - 1
    PROVE  r[m] = ReadToken(r[l], T[m]) /\ Clear(T[m])
BY DEF IsReading

LEMMA TextLoads ==
    ASSUME NEW d, NEW db, Ready(d, "type", db), NEW k \in Key, NEW s \in Key,
           NEW T, T = writeKeyValuePair(k, StringObject(s)),
           NEW N \in 0 .. 3, NEW r, IsReading(r, d, T, N)
    PROVE  /\ \A m \in 0 .. N : Going(r[m])
           /\ N = 3 => Ready(r[3], "type", Put(db, k, StringObject(s)))
<1> DEFINE r1 == r[1]
           r2 == r[2]
           r3 == r[3]
<1>1. T[1] = Op(RDB_TYPE_STRING) /\ T[2] = Str(k) /\ T[3] = Str(s)
  BY TextTokens
<1>2. N >= 1 => r1 = ReadToken(d, T[1])
  <2>1. N >= 1 => 1 \in 1 .. N /\ 1 - 1 = 0
    OBVIOUS
  <2> QED BY <2>1 DEF IsReading
<1>3. N >= 2 => r2 = ReadToken(r1, T[2]) /\ Clear(T[2])
  <2>1. N >= 2 => 2 \in 1 .. N /\ 2 - 1 = 1
    OBVIOUS
  <2> QED BY <2>1 DEF IsReading
<1>4. N >= 3 => r3 = ReadToken(r2, T[3]) /\ Clear(T[3])
  <2>1. N >= 3 => 3 \in 1 .. N /\ 3 - 1 = 2
    OBVIOUS
  <2> QED BY <2>1 DEF IsReading
<1>5. r[0] = d
  BY DEF IsReading
<1> HIDE DEF r1, r2, r3
<1>6. N >= 1 => Ready(r1, "string key", db)
  BY <1>1, <1>2, TypeTaken
<1>7. N >= 2 => Named(r2, "string", db, k)
  <2> HAVE N >= 2
  <2>3. N >= 1
    OBVIOUS
  <2>1. r2 = ReadToken(r1, T[2]) /\ Clear(T[2]) /\ Ready(r1, "string key", db)
    BY <1>3, <1>6, <2>3
  <2> QED BY <1>1, <2>1, KeyTaken
<1>8. N >= 3 => Ready(r3, "type", Put(db, k, StringObject(s)))
  BY <1>1, <1>4, <1>7, TextTaken
<1>9. /\ Going(d) /\ (N >= 1 => Going(r1)) /\ (N >= 2 => Going(r2)) /\ (N >= 3 => Going(r3))
  BY <1>6, <1>7, <1>8, StillGoing
<1>10. \A m \in 0 .. N : m = 0 \/ (m = 1 /\ N >= 1) \/ (m = 2 /\ N >= 2) \/ (m = 3 /\ N >= 3)
  OBVIOUS
<1>11. \A m \in 0 .. N : Going(r[m])
  BY <1>5, <1>9, <1>10 DEF r1, r2, r3
<1> QED BY <1>8, <1>11 DEF r3

-----------------------------------------------------------------------------
(* A hash announces c pairs.  b are the hashes that the pairs E make, one   *)
(* after the other.                                                         *)

\* After j pairs,
AfterPairs(e, db, k, c, b, j) ==
    /\ j < c => Open(e, db, k, c - j, b[j])
    /\ j = c => Ready(e, "type", Put(db, k, HashObject(b[j])))
    /\ j > c => At(e, "exception")

\* and one field more.
AfterField(e, db, k, c, b, E, j) ==
    /\ j < c => Given(e, db, k, c - j, b[j], E[j + 1].key)
    /\ j >= c => At(e, "exception")

LEMMA FieldLoads ==
    ASSUME NEW db, NEW k, NEW c \in Nat, NEW b, NEW E \in Seq(H!P!Entry),
           c = Len(E) \/ \A i \in 1 .. Len(E) : Length[E[i].key] \notin {0, 2} /\ Length[E[i].key] < 64,
           NEW j \in 0 .. Len(E) - 1, NEW e, AfterPairs(e, db, k, c, b, j),
           NEW t, t = Str(E[j + 1].key), Clear(t), NEW y, y = ReadToken(e, t)
    PROVE  AfterField(y, db, k, c, b, E, j)
<1> DEFINE s == E[j + 1].key
<1>1. j \in Nat /\ j + 1 \in 1 .. Len(E) /\ Len(E) \in Nat /\ s \in Key /\ j # Len(E)
  <2>1. j \in Nat /\ j + 1 \in 1 .. Len(E) /\ Len(E) \in Nat /\ j # Len(E)
    OBVIOUS
  <2>2. E[j + 1] \in H!P!Entry
    BY <2>1, ElementOfSeq
  <2> QED BY <2>1, <2>2 DEF H!P!Entry
<1>2. c = Len(E) \/ (Length[s] \notin {0, 2} /\ Length[s] < 64)
  BY <1>1
<1>3. t = Str(s)
  OBVIOUS
<1> HIDE DEF s
<1>4. CASE j < c
  <2>1. Open(e, db, k, c - j, b[j])
    BY <1>4 DEF AfterPairs
  <2>2. Given(y, db, k, c - j, b[j], s)
    BY <1>1, <1>3, <2>1, FieldTaken
  <2> QED BY <1>1, <1>4, <2>2 DEF AfterField, s
<1>5. CASE j = c
  <2>1. Ready(e, "type", Put(db, k, HashObject(b[j])))
    BY <1>5 DEF AfterPairs
  <2>2. At(e, "type")
    BY <2>1 DEF Ready
  <2>3. Length[s] \notin {0, 2} /\ Length[s] < 64
    BY <1>1, <1>2, <1>5
  <2>4. At(y, "exception")
    BY <1>1, <1>3, <2>2, <2>3, NoType
  <2> QED BY <1>1, <1>5, <2>4 DEF AfterField
<1>6. CASE j > c
  <2>1. At(e, "exception")
    BY <1>6 DEF AfterPairs
  <2>2. y = e
    BY <2>1, ExceptionIsFinal
  <2> QED BY <1>1, <1>6, <2>1, <2>2 DEF AfterField
<1> QED BY <1>1, <1>4, <1>5, <1>6

LEMMA PairLoads ==
    ASSUME NEW db, NEW k, NEW c \in Nat, NEW E \in Seq(H!P!Entry),
           NEW b, IsRun("field", NewObject, E, b),
           NEW j \in 0 .. Len(E) - 1, NEW e, AfterField(e, db, k, c, b, E, j),
           NEW t, t = Str(E[j + 1].value), Clear(t), NEW y, y = ReadToken(e, t)
    PROVE  AfterPairs(y, db, k, c, b, j + 1)
<1> DEFINE s == E[j + 1].value
           f == E[j + 1].key
<1>1. j \in Nat /\ j + 1 \in 1 .. Len(E) /\ (j + 1) - 1 = j /\ s \in Key
  <2>1. j \in Nat /\ j + 1 \in 1 .. Len(E) /\ (j + 1) - 1 = j
    OBVIOUS
  <2>2. E[j + 1] \in H!P!Entry
    BY <2>1, ElementOfSeq
  <2> QED BY <2>1, <2>2 DEF H!P!Entry
<1>2. b[j + 1] = set_field(b[j], f, s)
  <2>1. b[j + 1] = Step("field", b[(j + 1) - 1], E[j + 1])
    BY <1>1 DEF IsRun
  <2> QED BY <1>1, <2>1 DEF Step
<1>3. t = Str(s)
  OBVIOUS
<1>4. j < c => Given(e, db, k, c - j, b[j], f)
  BY DEF AfterField
<1> HIDE DEF s, f
<1>5. CASE j < c
  <2> DEFINE n == c - j
  <2>1. n - 1 = c - (j + 1) /\ (n - 1 = 0 <=> j + 1 = c) /\ ~ (j + 1 > c)
        /\ (j + 1 < c <=> n - 1 # 0)
    BY <1>1, <1>5
  <2>2. Given(e, db, k, n, b[j], f)
    BY <1>4, <1>5
  <2> HIDE DEF n
  <2> DEFINE o == b[j]
  <2>3. Given(e, db, k, n, o, f) /\ b[j + 1] = set_field(o, f, s)
    BY <1>2, <2>2
  <2> HIDE DEF o
  <2>4. /\ n - 1 = 0 => Ready(y, "type", Put(db, k, HashObject(set_field(o, f, s))))
        /\ n - 1 # 0 => Open(y, db, k, n - 1, set_field(o, f, s))
    BY <1>1, <1>3, <2>3, ValueTaken
  <2> QED BY <2>1, <2>3, <2>4 DEF AfterPairs
<1>6. CASE j >= c
  <2>1. At(e, "exception")
    BY <1>6 DEF AfterField
  <2>2. y = e
    BY <2>1, ExceptionIsFinal
  <2>3. j + 1 > c /\ ~ (j + 1 < c) /\ j + 1 # c
    BY <1>1, <1>6
  <2> QED BY <2>1, <2>2, <2>3 DEF AfterPairs
<1> QED BY <1>1, <1>5, <1>6

LEMMA HashLoads ==
    ASSUME NEW d, NEW db, Ready(d, "type", db), NEW k \in Key,
           NEW x, IsMap(x) \/ IsTable(x),
           NEW T, T = writeKeyValuePair(k, x),
           NEW E, E = get_all_fields(x.hash), NEW c, c = size(x.hash),
           NEW b, IsRun("field", NewObject, E, b),
           c = Len(E) \/ \A i \in 1 .. Len(E) : Length[E[i].key] \notin {0, 2} /\ Length[E[i].key] < 64,
           NEW N \in 0 .. Len(T), NEW r, IsReading(r, d, T, N)
    PROVE  /\ \A m \in 0 .. N : Going(r[m])
           /\ N = Len(T) => AfterPairs(r[N], db, k, c, b, Len(E))
<1> DEFINE n == Len(E)
<1>1. /\ E \in Seq(H!P!Entry) /\ n \in Nat /\ c \in Nat /\ Len(T) = 3 + 2 * n /\ N \in Nat
      /\ N <= 3 + 2 * n
      /\ T[1] = Op(RDB_TYPE_HASH) /\ T[2] = Str(k) /\ T[3] = Num(c)
      /\ \A j \in 1 .. n : T[2 + 2 * j] = Str(E[j].key) /\ T[3 + 2 * j] = Str(E[j].value)
  <2>1. E \in Seq(H!P!Entry) /\ c \in Nat
    BY FieldsListed
  <2>2. /\ Len(T) = 3 + 2 * n /\ n \in Nat
        /\ T[1] = Op(RDB_TYPE_HASH) /\ T[2] = Str(k) /\ T[3] = Num(c)
        /\ \A j \in 1 .. n : T[2 + 2 * j] = Str(E[j].key) /\ T[3 + 2 * j] = Str(E[j].value)
    BY HashTokens
  <2> HIDE DEF n
  <2>3. N \in Nat /\ N <= 3 + 2 * n
    BY <2>2
  <2> QED BY <2>1, <2>2, <2>3
<1> DEFINE r1 == r[1]
           r2 == r[2]
<1>2. /\ N >= 1 => Ready(r1, "hash key", db)
      /\ N >= 2 => Named(r2, "count", db, k)
  <2>1. N >= 1 => r1 = ReadToken(d, T[1])
    <3>1. N >= 1 => 1 \in 1 .. N /\ 1 - 1 = 0
      BY <1>1
    <3> QED BY <3>1 DEF IsReading
  <2>2. N >= 2 => r2 = ReadToken(r1, T[2]) /\ Clear(T[2]) /\ N >= 1
    <3>1. N >= 2 => 2 \in 1 .. N /\ 2 - 1 = 1 /\ N >= 1
      BY <1>1
    <3> QED BY <3>1 DEF IsReading
  <2>3. T[1] = Op(RDB_TYPE_HASH) /\ T[2] = Str(k)
    BY <1>1
  <2> HIDE DEF r1, r2
  <2>4. N >= 1 => Ready(r1, "hash key", db)
    BY <2>1, <2>3, TypeTaken
  <2>5. N >= 2 => Named(r2, "count", db, k)
    <3> HAVE N >= 2
    <3>1. Ready(r1, "hash key", db) /\ r2 = ReadToken(r1, T[2]) /\ Clear(T[2])
      BY <2>2, <2>4
    <3> QED BY <2>3, <3>1, KeyTaken
  <2> QED BY <2>4, <2>5
<1>3. N >= 2 => Named(r2, "count", db, k)
  BY <1>2
<1>13. /\ Going(r[0])
       /\ N >= 1 => Going(r[1])
       /\ N >= 2 => Going(r[2])
  <2> HIDE DEF r1, r2
  <2>1. /\ Going(d)
        /\ N >= 1 => Going(r1)
        /\ N >= 2 => Going(r2)
    BY <1>2, StillGoing
  <2>2. r[0] = d
    BY DEF IsReading
  <2> QED BY <2>1, <2>2 DEF r1, r2
<1> HIDE DEF r1, r2
<1> DEFINE Pairs_(j) == AfterPairs(r[3 + 2 * j], db, k, c, b, j)
           Field_(j) == AfterField(r[4 + 2 * j], db, k, c, b, E, j)
           G == {j \in 0 .. n : 3 + 2 * j <= N => Pairs_(j)}
<1>4. 0 \in G
  <2> SUFFICES ASSUME 3 <= N PROVE AfterPairs(r[3], db, k, c, b, 0)
    BY <1>1
  <2>1. 3 \in 1 .. N /\ 3 - 1 = 2 /\ N >= 2
    BY <1>1
  <2>2. r[3] = ReadToken(r2, T[3]) /\ Clear(T[3])
    BY <2>1 DEF r2, IsReading
  <2>3. b[0] = NewObject
    BY DEF IsRun
  <2> DEFINE e == r[3]
  <2>4. /\ c = 0 => Ready(e, "type", Put(db, k, HashObject(NewObject)))
        /\ c # 0 => Open(e, db, k, c, NewObject)
    BY <1>1, <1>3, <2>1, <2>2, CountTaken
  <2>5. (0 < c <=> c # 0) /\ ~ (0 > c) /\ c - 0 = c
    BY <1>1
  <2> HIDE DEF e
  <2> QED BY <1>3, <2>1, <2>3, <2>4, <2>5 DEF AfterPairs, e
<1>5. ASSUME NEW j \in 0 .. n - 1, j \in G, 4 + 2 * j <= N
      PROVE  Field_(j)
  <2> HIDE DEF n, Pairs_, G
  <2>0. N \in Nat /\ n \in Nat /\ 4 + 2 * j <= N
    BY <1>1, <1>5
  <2>1. /\ 4 + 2 * j \in 1 .. N /\ (4 + 2 * j) - 1 = 3 + 2 * j /\ 3 + 2 * j <= N
        /\ j + 1 \in 1 .. n /\ 2 + 2 * (j + 1) = 4 + 2 * j
    BY <2>0
  <2>2. r[4 + 2 * j] = ReadToken(r[3 + 2 * j], T[4 + 2 * j]) /\ Clear(T[4 + 2 * j])
    BY <2>1, ReadingStep
  <2>3. T[4 + 2 * j] = Str(E[j + 1].key)
    BY <1>1, <2>1
  <2>4. Pairs_(j)
    BY <1>5, <2>1 DEF G
  <2>5. AfterPairs(r[3 + 2 * j], db, k, c, b, j)
    BY <2>4 DEF Pairs_
  <2>6. j \in 0 .. Len(E) - 1
    BY DEF n
  <2> DEFINE e == r[3 + 2 * j]
  <2>7. AfterPairs(e, db, k, c, b, j) /\ Clear(Str(E[j + 1].key))
    BY <2>2, <2>3, <2>5
  <2>8. r[4 + 2 * j] = ReadToken(e, Str(E[j + 1].key))
    BY <2>2, <2>3
  <2> HIDE DEF e
  <2>9. AfterField(ReadToken(e, Str(E[j + 1].key)), db, k, c, b, E, j)
    BY <1>1, <2>6, <2>7, FieldLoads
  <2> QED BY <2>8, <2>9
<1>6. ASSUME NEW m \in 1 .. n, m - 1 \in G
      PROVE  m \in G
  <2> SUFFICES ASSUME 3 + 2 * m <= N PROVE Pairs_(m)
    BY <1>1
  <2> DEFINE j == m - 1
  <2>1. /\ j \in 0 .. n - 1 /\ j \in G /\ 4 + 2 * j <= N /\ j + 1 = m
        /\ 3 + 2 * m \in 1 .. N /\ (3 + 2 * m) - 1 = 4 + 2 * j
    BY <1>1, <1>6
  <2> DEFINE M == 3 + 2 * m
             L == 4 + 2 * j
  <2>6. M \in 1 .. N /\ L = M - 1
    BY <2>1
  <2> HIDE DEF M, L
  <2>7. r[M] = ReadToken(r[L], T[M]) /\ Clear(T[M])
    BY <2>6, ReadingStep
  <2>2. r[3 + 2 * m] = ReadToken(r[4 + 2 * j], T[3 + 2 * m]) /\ Clear(T[3 + 2 * m])
    BY <2>7 DEF M, L
  <2>3. T[3 + 2 * m] = Str(E[m].value)
    BY <1>1
  <2>4. Field_(j)
    BY <1>5, <2>1
  <2> HIDE DEF j, G
  <2>5. AfterPairs(ReadToken(r[4 + 2 * j], Str(E[j + 1].value)), db, k, c, b, j + 1)
    BY <1>1, <2>1, <2>2, <2>3, <2>4, PairLoads
  <2> QED BY <2>1, <2>2, <2>3, <2>5
<1> HIDE DEF G
<1>7. 0 .. n \subseteq G
  BY <1>1, <1>4, <1>6, UpTo
<1>8. \A j \in 0 .. n : 3 + 2 * j <= N => Pairs_(j)
  BY <1>7 DEF G
<1>9. \A j \in 0 .. n - 1 : 4 + 2 * j <= N => Field_(j)
  <2> HIDE DEF n
  <2>1. \A j \in 0 .. n - 1 : j \in 0 .. n
    BY <1>1
  <2>2. \A j \in 0 .. n - 1 : j \in G
    BY <1>7, <2>1
  <2> QED BY <1>5, <2>2
<1>10. ASSUME NEW m \in 0 .. N
       PROVE  Going(r[m])
  <2>1. CASE m <= 2
    <3>1. m = 0 \/ (m = 1 /\ N >= 1) \/ (m = 2 /\ N >= 2)
      BY <1>1, <2>1
    <3> QED BY <1>13, <3>1
  <2>2. ASSUME NEW j \in 0 .. n, m = 3 + 2 * j
        PROVE  Going(r[m])
    <3>1. Pairs_(j)
      BY <1>1, <1>8, <2>2
    <3>2. j < c \/ j = c \/ j > c
      BY <1>1
    <3> QED BY <2>2, <3>1, <3>2, StillGoing DEF AfterPairs
  <2>3. ASSUME NEW j \in 0 .. n - 1, m = 4 + 2 * j
        PROVE  Going(r[m])
    <3>0. 4 + 2 * j <= N
      BY <1>1, <2>3
    <3>1. Field_(j)
      BY <1>9, <3>0
    <3>2. j < c \/ j >= c
      BY <1>1
    <3> QED BY <2>3, <3>1, <3>2, StillGoing DEF AfterField
  <2>4. CASE m > 2
    <3> DEFINE j == (m - 3) \div 2
    <3>1. j \in Nat /\ (m = 3 + 2 * j \/ m = 4 + 2 * j)
      BY <1>1, <2>4
    <3> HIDE DEF j
    <3>2. (m = 3 + 2 * j /\ j \in 0 .. n) \/ (m = 4 + 2 * j /\ j \in 0 .. n - 1)
      BY <1>1, <3>1
    <3> QED BY <2>2, <2>3, <3>2
  <2> QED BY <1>1, <2>1, <2>4
<1>11. N = Len(T) => Pairs_(n)
  <2>1. N = Len(T) => 3 + 2 * n <= N /\ n \in 0 .. n
    BY <1>1
  <2> QED BY <1>8, <2>1
<1>12. N = Len(T) => N = 3 + 2 * n
  BY <1>1
<1> QED BY <1>10, <1>11, <1>12

-----------------------------------------------------------------------------
(* Files. *)

\* A load of the file, or of a part of it from the start, reaches no end.
Quiet(z) == \A n \in 0 .. Len(z) : Going(Load(SubSeq(z, 1, n)))

LEMMA GoingLoadsNothing ==
    ASSUME NEW z, Going(Load(z))
    PROVE  loadFromFile(z) = Empty
BY LoadIs DEF Going

LEMMA PrefixIs ==
    ASSUME NEW S, NEW z \in Seq(S), NEW n \in 0 .. Len(z)
    PROVE  LET y == SubSeq(z, 1, n)
           IN y \in Seq(S) /\ Len(y) = n /\ \A i \in 1 .. n : y[i] = z[i]
OBVIOUS

LEMMA QuietWhole ==
    ASSUME NEW z \in Seq(Token), Quiet(z)
    PROVE  Going(Load(z))
<1>1. Len(z) \in 0 .. Len(z) /\ SubSeq(z, 1, Len(z)) = z
  BY SubSeqFull
<1>2. Going(Load(SubSeq(z, 1, Len(z))))
  BY <1>1 DEF Quiet
<1> QED BY <1>1, <1>2

LEMMA QuietAppend ==
    ASSUME NEW z \in Seq(Token), Quiet(z), NEW U \in Seq(Token),
           NEW run, IsRun("token", Load(z), U, run),
           \A m \in 0 .. Len(U) : Going(run[m])
    PROVE  Quiet(z \o U) /\ Load(z \o U) = run[Len(U)]
<1> DEFINE whole == z \o U
           k == Len(z)
<1> HIDE DEF Token
<1>1. /\ whole \in Seq(Token) /\ Len(whole) = k + Len(U) /\ k \in Nat /\ Len(U) \in Nat
      /\ \A i \in 1 .. k + Len(U) : whole[i] = IF i <= k THEN z[i] ELSE U[i - k]
  BY ConcatProperties
<1>2. ASSUME NEW V \in Seq(Token)
      PROVE  Load(z \o V) = Fold("token", Load(z), V)
  BY FoldConcat DEF Load
<1>3. ASSUME NEW m \in 0 .. Len(U)
      PROVE  Load(z \o SubSeq(U, 1, m)) = run[m]
  <2>1. SubSeq(U, 1, m) \in Seq(Token)
    BY <1>1, PrefixIs
  <2>2. Fold("token", Load(z), SubSeq(U, 1, m)) = run[m]
    BY FoldPrefix
  <2> QED BY <1>2, <2>1, <2>2
<1> HIDE DEF whole, k
<1>4. ASSUME NEW n \in 0 .. k
      PROVE  SubSeq(whole, 1, n) = SubSeq(z, 1, n)
  <2> DEFINE x == SubSeq(whole, 1, n)
             y == SubSeq(z, 1, n)
  <2>0. n \in Nat /\ n <= Len(whole) /\ n <= Len(z) /\ 1 .. n \subseteq 1 .. Len(whole)
        /\ \A i \in 1 .. n : i <= k
    BY <1>1 DEF k
  <2>1. x \in Seq(Token) /\ Len(x) = n /\ \A i \in 1 .. n : x[i] = whole[i]
    BY <1>1, <2>0, PrefixIs
  <2>2. y \in Seq(Token) /\ Len(y) = n /\ \A i \in 1 .. n : y[i] = z[i]
    BY <1>1, <2>0, PrefixIs
  <2>3. \A i \in 1 .. n : whole[i] = z[i]
    BY <1>1, <2>0
  <2> HIDE DEF x, y
  <2>4. x = y
    BY <2>1, <2>2, <2>3, SeqEqual
  <2> QED BY <2>4 DEF x, y
<1>5. ASSUME NEW m \in 0 .. Len(U)
      PROVE  SubSeq(whole, 1, k + m) = z \o SubSeq(U, 1, m)
  <2> DEFINE x == SubSeq(whole, 1, k + m)
             v == SubSeq(U, 1, m)
             y == z \o v
  <2>0. m \in Nat /\ k + m \in Nat /\ k + m <= Len(whole)
        /\ \A i \in 1 .. k + m : i \in 1 .. k + Len(U) /\ i \in 1 .. Len(whole)
                                 /\ (~ (i <= k) => i - k \in 1 .. m)
    BY <1>1
  <2>1. x \in Seq(Token) /\ Len(x) = k + m /\ \A i \in 1 .. k + m : x[i] = whole[i]
    BY <1>1, <2>0, PrefixIs
  <2>2. v \in Seq(Token) /\ Len(v) = m /\ \A i \in 1 .. m : v[i] = U[i]
    BY <1>1, <2>0, PrefixIs
  <2> HIDE DEF v
  <2>3. y \in Seq(Token) /\ Len(y) = k + m
        /\ \A i \in 1 .. k + m : y[i] = IF i <= k THEN z[i] ELSE v[i - k]
    <3>1. y \in Seq(Token) /\ Len(y) = Len(z) + Len(v)
          /\ \A i \in 1 .. Len(z) + Len(v) : y[i] = IF i <= Len(z) THEN z[i] ELSE v[i - Len(z)]
      BY <2>2, ConcatProperties
    <3> HIDE DEF y
    <3> QED BY <2>2, <3>1 DEF k
  <2>4. \A i \in 1 .. k + m : whole[i] = y[i]
    BY <1>1, <2>0, <2>2, <2>3
  <2> HIDE DEF x, y
  <2>5. x = y
    BY <2>1, <2>3, <2>4, SeqEqual
  <2> QED BY <2>5 DEF x, y, v
<1>6. ASSUME NEW n \in 0 .. Len(whole)
      PROVE  Going(Load(SubSeq(whole, 1, n)))
  <2>1. CASE n <= k
    <3>1. n \in 0 .. k
      BY <1>1, <2>1
    <3>2. Going(Load(SubSeq(z, 1, n)))
      BY <3>1 DEF Quiet, k
    <3> QED BY <1>4, <3>1, <3>2
  <2>2. CASE n > k
    <3> DEFINE m == n - k
    <3>1. m \in 0 .. Len(U) /\ n = k + m
      BY <1>1, <2>2
    <3> HIDE DEF m
    <3>2. Load(SubSeq(whole, 1, n)) = run[m]
      BY <1>3, <1>5, <3>1
    <3> QED BY <3>1, <3>2
  <2> QED BY <1>1, <2>1, <2>2
<1>7. Quiet(whole)
  BY <1>6 DEF Quiet
<1>8. Load(whole) = run[Len(U)]
  <2>1. Len(U) \in 0 .. Len(U) /\ SubSeq(U, 1, Len(U)) = U
    BY <1>1, SubSeqFull
  <2> QED BY <1>3, <2>1 DEF whole
<1> QED BY <1>7, <1>8 DEF whole

\* A prefix of a quiet file is nothing.
LEMMA QuietPrefix ==
    ASSUME NEW z \in Seq(Token), Quiet(z), NEW n \in 0 .. Len(z)
    PROVE  loadFromFile(SubSeq(z, 1, n)) = Empty
BY GoingLoadsNothing DEF Quiet

LEMMA OpReads ==
    ASSUME NEW d, NEW e, NEW n \in Nat, e = ReadToken(d, Op(n))
    PROVE  /\ At(d, "db") => At(e, "db number") /\ e.db = d.db
           /\ At(d, "type") /\ n = RDB_OPCODE_EOF => At(e, "done") /\ e.db = d.db
           /\ At(d, "field") /\ n = RDB_OPCODE_EOF => At(e, "exception")
<1>1. ASSUME At(d, "db")
      PROVE  At(e, "db number") /\ e.db = d.db
  <2> DEFINE y == Stop(d, "db number")
  <2>1. ReadToken(d, Op(n)) = y
    BY <1>1 DEF At, ReadToken
  <2>2. IsDecoder(d)
    BY <1>1 DEF At
  <2>3. At(y, "db number") /\ y.db = d.db
    BY <2>2, StopIs
  <2> HIDE DEF y
  <2> QED BY <2>1, <2>3
<1>2. At(d, "type") /\ n = RDB_OPCODE_EOF => At(e, "done") /\ e.db = d.db
  BY TypeRead
<1>3. ASSUME At(d, "field"), n = RDB_OPCODE_EOF
      PROVE  At(e, "exception")
  <2> DEFINE t == Op(n)
  <2>1. t.kind = "op" /\ t.byte = 255
    BY <1>3 DEF Op, RDB_OPCODE_EOF
  <2>2. RL!readLen(<<255>>).ok = FALSE
    BY DEF RL!readLen, RL!Error
  <2>3. ~ LengthRead(t).ok
    BY <2>1, <2>2 DEF LengthRead
  <2>4. readString(t) = Thrown
    BY <2>1, <2>3 DEF readString
  <2> HIDE DEF t
  <2>5. Thrown.ok = FALSE /\ Thrown.why = "exception"
    BY DEF Thrown
  <2>6. ReadToken(d, t) = ReadString(d, t)
    BY <1>3 DEF ReadToken, At
  <2>7. ReadString(d, t) = Stop(d, "exception")
    BY <2>4, <2>5 DEF ReadString
  <2>8. IsDecoder(d)
    BY <1>3 DEF At
  <2>9. e = Stop(d, "exception")
    BY <2>6, <2>7 DEF t
  <2> QED BY <2>8, <2>9, StopIs
<1> QED BY <1>1, <1>2, <1>3

LEMMA HeaderLoads == Header \in Seq(Token) /\ Len(Header) = 3 /\ Quiet(Header) /\ Ready(Load(Header), "type", Empty)
<1> DEFINE z == Header
<1>1. z \in Seq(Token) /\ Len(z) = 3 /\ z[1] = Magic /\ z[2] = Op(RDB_OPCODE_DB) /\ z[3] = Num(0)
  <2>1. Magic \in Token /\ Op(RDB_OPCODE_DB) \in Token /\ Num(0) \in Token
    BY DEF Token, RDB_OPCODE_DB
  <2>2. z = <<Magic, Op(RDB_OPCODE_DB), Num(0)>>
    BY DEF Header
  <2> HIDE DEF Token, z
  <2> QED BY <2>1, <2>2
<1> HIDE DEF z
<1>2. PICK run : IsRun("token", Decoder, z, run) /\ Load(z) = run[Len(z)]
  BY <1>1, FoldRuns DEF Load
<1> DEFINE r0 == run[0]
           r1 == run[1]
           r2 == run[2]
           r3 == run[3]
<1>3. /\ r0 = Decoder /\ r1 = ReadToken(r0, Magic)
      /\ r2 = ReadToken(r1, Op(RDB_OPCODE_DB)) /\ r3 = ReadToken(r2, Num(0))
  <2>1. r0 = Decoder /\ \A m \in 1 .. 3 : run[m] = ReadToken(run[m - 1], z[m])
    BY <1>1, <1>2 DEF IsRun, Step
  <2>2. r1 = ReadToken(run[1 - 1], z[1]) /\ r2 = ReadToken(run[2 - 1], z[2]) /\ r3 = ReadToken(run[3 - 1], z[3])
    BY <2>1
  <2> QED BY <1>1, <2>1, <2>2
<1>4. \A n \in 0 .. 3 : Load(SubSeq(z, 1, n)) = run[n]
  BY <1>1, <1>2, FoldPrefix DEF Load
<1> HIDE DEF r0, r1, r2, r3
<1>5. Ready(r0, "magic", Empty)
  BY <1>3, FirstState DEF Ready
<1>6. Ready(r1, "db", Empty)
  <2>1. ReadToken(r0, Magic) = Stop(r0, "db")
    BY <1>5 DEF ReadToken, At, Ready
  <2>2. IsDecoder(r0)
    BY <1>5 DEF Ready, At
  <2> DEFINE e == Stop(r0, "db")
  <2>3. At(e, "db") /\ e.db = r0.db
    BY <2>2, StopIs
  <2> HIDE DEF e
  <2>4. r1 = e
    BY <1>3, <2>1 DEF e
  <2> QED BY <1>5, <2>3, <2>4 DEF Ready
<1>7. Ready(r2, "db number", Empty)
  <2>1. RDB_OPCODE_DB \in Nat
    BY DEF RDB_OPCODE_DB
  <2> QED BY <1>3, <1>6, <2>1, OpReads DEF Ready
<1>8. Ready(r3, "type", Empty)
  <2>1. ReadToken(r2, Num(0)) = Stop(r2, "type")
    BY <1>7 DEF ReadToken, At, Ready
  <2>2. IsDecoder(r2)
    BY <1>7 DEF Ready, At
  <2> DEFINE e == Stop(r2, "type")
  <2>3. At(e, "type") /\ e.db = r2.db
    BY <2>2, StopIs
  <2> HIDE DEF e
  <2>4. r3 = e
    BY <1>3, <2>1 DEF e
  <2> QED BY <1>7, <2>3, <2>4 DEF Ready
<1>9. Going(r0) /\ Going(r1) /\ Going(r2) /\ Going(r3)
  BY <1>5, <1>6, <1>7, <1>8, StillGoing
<1>10. \A n \in 0 .. 3 : n = 0 \/ n = 1 \/ n = 2 \/ n = 3
  OBVIOUS
<1>11. \A n \in 0 .. 3 : Going(run[n])
  BY <1>9, <1>10 DEF r0, r1, r2, r3
<1>12. Quiet(z)
  BY <1>1, <1>4, <1>11 DEF Quiet
<1>13. Load(z) = r3
  BY <1>1, <1>2 DEF r3
<1> QED BY <1>1, <1>8, <1>12, <1>13 DEF z

-----------------------------------------------------------------------------
(* A key more in a file. *)

LEMMA RefilledIs ==
    ASSUME NEW o
    PROVE  Refilled(o) = Fold("field", NewObject, get_all_fields(o))
BY DEF Refilled, Fold, FoldLeft, MapThenFoldSet, Step

LEMMA ViewOfHash ==
    ASSUME NEW o, NEW x, x = HashObject(o)
    PROVE  ViewOf(x) = [type |-> "HASH", fields |-> [f \in Field |-> get_field(o, f)]]
<1>1. x.type = "HASH" /\ x.hash = o
  BY DEF HashObject
<1> QED BY <1>1 DEF ViewOf

\* What HashLoads says, of these numbers.
PairsOf(x) == get_all_fields(x.hash)
CountOf(x) == size(x.hash)
NoTypes(E) == \A i \in 1 .. Len(E) : Length[E[i].key] \notin {0, 2} /\ Length[E[i].key] < 64

LEMMA HashIsRead ==
    ASSUME NEW d, NEW db, Ready(d, "type", db), NEW k \in Key,
           NEW x, IsMap(x) \/ IsTable(x),
           NEW T, T = writeKeyValuePair(k, x),
           NEW E, E = PairsOf(x), NEW c, c = CountOf(x),
           NEW b, IsRun("field", NewObject, E, b), c = Len(E) \/ NoTypes(E),
           NEW N \in 0 .. Len(T), NEW r, IsReading(r, d, T, N)
    PROVE  /\ \A m \in 0 .. N : Going(r[m])
           /\ N = Len(T) => AfterPairs(r[N], db, k, c, b, Len(E))
<1>1. E = get_all_fields(x.hash) /\ c = size(x.hash)
  BY DEF PairsOf, CountOf
<1>2. c = Len(E) \/ \A i \in 1 .. Len(E) : Length[E[i].key] \notin {0, 2} /\ Length[E[i].key] < 64
  BY DEF NoTypes
<1> QED BY <1>1, <1>2, HashLoads

\* The first N tokens of T, read after z.
LEMMA RunReads ==
    ASSUME NEW z \in Seq(Token), NEW T, NEW N \in Nat, NEW U \in Seq(Token), Len(U) = N,
           \A m \in 1 .. N : U[m] = T[m] /\ Clear(T[m])
    PROVE  \E run : IsRun("token", Load(z), U, run) /\ IsReading(run, Load(z), T, N)
<1>1. PICK run : IsRun("token", Load(z), U, run)
  BY FoldRuns
<1>2. run[0] = Load(z) /\ \A m \in 1 .. N : run[m] = ReadToken(run[m - 1], U[m])
  BY <1>1 DEF IsRun, Step
<1>3. IsReading(run, Load(z), T, N)
  BY <1>2 DEF IsReading
<1> QED BY <1>1, <1>3

\* The hash that is written is not one whose fields a load takes for types.
FieldsAreNoTypes(x) ==
    \A e \in ToSet(get_all_fields(x.hash)) : Length[e.key] \notin {0, 2} /\ Length[e.key] < 64

LEMMA TextKey ==
    ASSUME NEW z \in Seq(Token), Quiet(z), NEW db, Ready(Load(z), "type", db),
           NEW k \in Key, NEW x, IsText(x), NEW U \in Seq(Token),
           LET T == writeKeyValuePair(k, x)
           IN Len(U) <= Len(T) /\ \A m \in 1 .. Len(U) : U[m] = T[m] /\ Clear(T[m])
    PROVE  /\ Quiet(z \o U)
           /\ Len(U) = Len(writeKeyValuePair(k, x)) => Ready(Load(z \o U), "type", Put(db, k, x))
<1> DEFINE T == writeKeyValuePair(k, x)
           N == Len(U)
           d == Load(z)
<1>1. PICK s \in Key : x = StringObject(s)
  BY DEF IsText
<1>2. Len(T) = 3
  BY <1>1, TextTokens
<1>3. N \in 0 .. 3 /\ N \in Nat /\ \A m \in 1 .. N : U[m] = T[m] /\ Clear(T[m])
  <2>1. N \in Nat /\ N <= 3
    BY <1>2
  <2>2. \A m \in 1 .. N : U[m] = T[m] /\ Clear(T[m])
    OBVIOUS
  <2> HIDE DEF N, T
  <2> QED BY <2>1, <2>2
<1> HIDE DEF T, N
<1>4. PICK run : IsRun("token", d, U, run) /\ IsReading(run, d, T, N)
  BY <1>3, RunReads DEF N
<1>5. T = writeKeyValuePair(k, StringObject(s))
  BY <1>1 DEF T
<1> HIDE DEF d
<1>6. Ready(d, "type", db)
  BY DEF d
<1>7. /\ \A m \in 0 .. N : Going(run[m])
      /\ N = 3 => Ready(run[3], "type", Put(db, k, StringObject(s)))
  BY <1>3, <1>4, <1>5, <1>6, TextLoads
<1>8. Quiet(z \o U) /\ Load(z \o U) = run[N]
  BY <1>4, <1>7, QuietAppend DEF d, N
<1>9. N = 3 => Ready(Load(z \o U), "type", Put(db, k, x))
  BY <1>1, <1>7, <1>8
<1> QED BY <1>2, <1>8, <1>9 DEF N, T

LEMMA HashKeyRead ==
    ASSUME NEW z \in Seq(Token), Quiet(z), NEW db, Ready(Load(z), "type", db),
           NEW k \in Key, NEW x, IsMap(x) \/ IsTable(x), NEW U \in Seq(Token),
           LET T == writeKeyValuePair(k, x)
           IN Len(U) <= Len(T) /\ \A m \in 1 .. Len(U) : U[m] = T[m] /\ Clear(T[m]),
           size(x.hash) = Len(get_all_fields(x.hash)) \/ FieldsAreNoTypes(x)
    PROVE  /\ Quiet(z \o U)
           /\ Len(U) = Len(writeKeyValuePair(k, x)) =>
                 LET c == size(x.hash)
                     n == Len(get_all_fields(x.hash))
                     d == Load(z \o U)
                 IN /\ n = c => Ready(d, "type", Put(db, k, HashObject(Refilled(x.hash))))
                    /\ n # c => At(d, "field") \/ At(d, "exception")
<1> DEFINE T == writeKeyValuePair(k, x)
           N == Len(U)
           d == Load(z)
           E == get_all_fields(x.hash)
           c == size(x.hash)
<1>1. E \in Seq(H!P!Entry) /\ c \in Nat
  BY FieldsListed
<1>2. T \in Seq(Token) /\ Len(T) = 3 + 2 * Len(E) /\ Len(E) \in Nat
  BY HashTokens
<1>3. N \in 0 .. Len(T) /\ N \in Nat /\ \A m \in 1 .. N : U[m] = T[m] /\ Clear(T[m])
  <2>1. N \in Nat /\ N <= Len(T) /\ Len(T) \in Nat
    <3> HIDE DEF T
    <3> QED BY <1>2 DEF T
  <2> QED BY <2>1
<1>4. c = Len(E) \/ \A i \in 1 .. Len(E) : Length[E[i].key] \notin {0, 2} /\ Length[E[i].key] < 64
  <2> HIDE DEF E
  <2>1. \A i \in 1 .. Len(E) : E[i] \in ToSet(E)
    BY <1>1 DEF ToSet
  <2> QED BY <2>1 DEF FieldsAreNoTypes, E
<1> HIDE DEF T, N, E, c
<1>5. PICK run : IsRun("token", d, U, run) /\ IsReading(run, d, T, N)
  BY <1>3, RunReads DEF N
<1>6. PICK b : IsRun("field", NewObject, E, b) /\ Fold("field", NewObject, E) = b[Len(E)]
  BY <1>1, FoldRuns
<1> HIDE DEF d
<1>7. Ready(d, "type", db)
  BY DEF d
<1>8. /\ \A m \in 0 .. N : Going(run[m])
      /\ N = Len(T) => AfterPairs(run[N], db, k, c, b, Len(E))
  <2>1. T = writeKeyValuePair(k, x) /\ E = PairsOf(x) /\ c = CountOf(x)
    BY DEF T, E, c, PairsOf, CountOf
  <2>2. IsRun("field", NewObject, E, b) /\ IsReading(run, d, T, N)
    BY <1>5, <1>6
  <2>3. N \in 0 .. Len(T)
    BY <1>3
  <2>4. c = Len(E) \/ NoTypes(E)
    BY <1>4 DEF NoTypes
  <2> QED BY <1>7, <2>1, <2>2, <2>3, <2>4, HashIsRead
<1>9. Quiet(z \o U) /\ Load(z \o U) = run[N]
  BY <1>5, <1>8, QuietAppend DEF d, N
<1>10. Refilled(x.hash) = b[Len(E)]
  BY <1>6, RefilledIs DEF E
<1> DEFINE e == Load(z \o U)
<1>11. N = Len(T) => AfterPairs(e, db, k, c, b, Len(E))
  BY <1>8, <1>9
<1> HIDE DEF e
<1>12. N = Len(T) => /\ Len(E) = c => Ready(e, "type", Put(db, k, HashObject(Refilled(x.hash))))
                     /\ Len(E) # c => At(e, "field") \/ At(e, "exception")
  <2> HAVE N = Len(T)
  <2>1. AfterPairs(e, db, k, c, b, Len(E))
    BY <1>11
  <2>2. Len(E) = c \/ Len(E) < c \/ Len(E) > c
    BY <1>1, <1>2
  <2>3. Len(E) < c => At(e, "field")
    BY <2>1, StillGoing DEF AfterPairs
  <2>4. Len(E) > c => At(e, "exception")
    BY <2>1 DEF AfterPairs
  <2>5. Len(E) = c => Ready(e, "type", Put(db, k, HashObject(Refilled(x.hash))))
    BY <1>10, <2>1 DEF AfterPairs
  <2> QED BY <2>2, <2>3, <2>4, <2>5
<1> QED BY <1>9, <1>12 DEF N, T, E, c, e

LEMMA BrokenKey ==
    ASSUME NEW z \in Seq(Token), Quiet(z), NEW db, Ready(Load(z), "type", db),
           NEW k \in Key, NEW U \in Seq(Token),
           LET T == writeKeyValuePair(k, Broken)
           IN Len(U) < Len(T) /\ \A m \in 1 .. Len(U) : U[m] = T[m] /\ Clear(T[m])
    PROVE  Quiet(z \o U)
<1> DEFINE T == writeKeyValuePair(k, Broken)
           N == Len(U)
           d == Load(z)
<1>1. T = <<Op(RDB_TYPE_HASH), Str(k), BadAccess>>
  <2>1. Broken.type = "HASH" /\ Broken.hash.encoding = "TORN"
    BY DEF Broken, NewObject
  <2> HIDE DEF T
  <2> QED BY <2>1 DEF writeKeyValuePair, T
<1>2. Len(T) = 3 /\ T[1] = Op(RDB_TYPE_HASH) /\ T[2] = Str(k)
  <2> HIDE DEF T
  <2> QED BY <1>1
<1>3. N \in 0 .. 2 /\ N \in Nat /\ \A m \in 1 .. N : U[m] = T[m] /\ Clear(T[m])
  <2>1. N \in Nat /\ N < 3
    BY <1>2
  <2>2. \A m \in 1 .. N : U[m] = T[m] /\ Clear(T[m])
    OBVIOUS
  <2> HIDE DEF N, T
  <2> QED BY <2>1, <2>2
<1> HIDE DEF T, N
<1>4. PICK run : IsRun("token", d, U, run) /\ IsReading(run, d, T, N)
  BY <1>3, RunReads DEF N
<1> DEFINE r1 == run[1]
           r2 == run[2]
<1>5. run[0] = d
  BY <1>4 DEF IsReading
<1>6. N >= 1 => r1 = ReadToken(d, T[1])
  <2>1. N >= 1 => 1 \in 1 .. N /\ 1 - 1 = 0
    BY <1>3
  <2> QED BY <1>4, <2>1 DEF IsReading
<1>7. N >= 2 => r2 = ReadToken(r1, T[2]) /\ Clear(T[2]) /\ N >= 1
  <2>1. N >= 2 => 2 \in 1 .. N /\ 2 - 1 = 1 /\ N >= 1
    BY <1>3
  <2> QED BY <1>4, <2>1 DEF IsReading
<1> HIDE DEF r1, r2, d
<1>8. Ready(d, "type", db)
  BY DEF d
<1>9. N >= 1 => Ready(r1, "hash key", db)
  BY <1>2, <1>6, <1>8, TypeTaken
<1>10. N >= 2 => Named(r2, "count", db, k)
  <2> HAVE N >= 2
  <2>1. r2 = ReadToken(r1, T[2]) /\ Clear(T[2]) /\ Ready(r1, "hash key", db)
    BY <1>7, <1>9
  <2> QED BY <1>2, <2>1, KeyTaken
<1>11. /\ Going(d)
       /\ N >= 1 => Going(r1)
       /\ N >= 2 => Going(r2)
  BY <1>8, <1>9, <1>10, StillGoing
<1>12. \A m \in 0 .. N : m = 0 \/ (m = 1 /\ N >= 1) \/ (m = 2 /\ N >= 2)
  BY <1>3
<1>13. \A m \in 0 .. N : Going(run[m])
  BY <1>5, <1>11, <1>12 DEF r1, r2
<1> QED BY <1>4, <1>13, QuietAppend DEF d, N

-----------------------------------------------------------------------------
(* The tokens of a key of a database that is saved. *)

LEMMA BrokenTokens ==
    ASSUME NEW k \in Key
    PROVE  LET T == writeKeyValuePair(k, Broken)
           IN /\ Len(T) = 3 /\ T = [m \in 1 .. 3 |-> T[m]]
              /\ T[1] \in Token /\ T[2] \in Token /\ ~ Writable(T[3])
<1> DEFINE T == writeKeyValuePair(k, Broken)
<1>1. T = <<Op(RDB_TYPE_HASH), Str(k), BadAccess>>
  <2>1. Broken.type = "HASH" /\ Broken.hash.encoding = "TORN"
    BY DEF Broken, NewObject
  <2> HIDE DEF T
  <2> QED BY <2>1 DEF writeKeyValuePair, T
<1>2. Op(RDB_TYPE_HASH) \in Token /\ Str(k) \in Token
  BY DEF Token, RDB_TYPE_HASH
<1>3. ~ Writable(BadAccess)
  BY DEF Writable, BadAccess
<1> HIDE DEF T, Token
<1> QED BY <1>1, <1>2, <1>3 DEF T

\* The part of them that is written before the one that cannot be.
LEMMA CutTokens ==
    ASSUME NEW k \in Key, NEW x, IsFound(x), x # Null,
           NEW T, T = writeKeyValuePair(k, x),
           NEW N \in 0 .. Len(T), \A m \in 1 .. N : Writable(T[m])
    PROVE  LET U == SubSeq(T, 1, N)
           IN U \in Seq(Token) /\ Len(U) = N /\ \A m \in 1 .. N : U[m] = T[m]
<1>1. CASE T \in Seq(Token)
  BY <1>1, PrefixIs
<1>2. CASE x = Broken
  <2>1. /\ Len(T) = 3 /\ T = [m \in 1 .. 3 |-> T[m]]
        /\ T[1] \in Token /\ T[2] \in Token /\ ~ Writable(T[3])
    BY <1>2, BrokenTokens
  <2> HIDE DEF Token
  <2>2. N \in 0 .. 2
    BY <2>1
  <2>3. \A m \in 1 .. N : T[m] \in Token
    BY <2>1, <2>2
  <2>4. /\ SubSeq(T, 1, N) \in Seq(Token)
        /\ Len(SubSeq(T, 1, N)) = IF 1 <= N THEN N - 1 + 1 ELSE 0
        /\ \A i \in 1 .. N - 1 + 1 : SubSeq(T, 1, N)[i] = T[1 + i - 1]
    BY <2>2, <2>3, SubSeqProperties
  <2> DEFINE U == SubSeq(T, 1, N)
  <2>5. /\ U \in Seq(Token)
        /\ Len(U) = IF 1 <= N THEN N - 1 + 1 ELSE 0
        /\ \A i \in 1 .. N - 1 + 1 : U[i] = T[1 + i - 1]
    BY <2>4
  <2> HIDE DEF U
  <2>6. Len(U) = N
    BY <2>2, <2>5
  <2>7. \A i \in 1 .. N : i \in 1 .. N - 1 + 1 /\ 1 + i - 1 = i
    BY <2>2
  <2>8. \A i \in 1 .. N : U[i] = T[i]
    BY <2>5, <2>7
  <2> QED BY <2>5, <2>6, <2>8 DEF U
<1>3. ASSUME IsText(x)
      PROVE  T \in Seq(Token)
  BY <1>3, TextTokens DEF IsText
<1>4. ASSUME IsMap(x) \/ IsTable(x)
      PROVE  T \in Seq(Token)
  BY <1>4, HashTokens
<1> QED BY <1>1, <1>2, <1>3, <1>4 DEF IsFound

LEMMA TokenKinds ==
    ASSUME NEW k \in Key, NEW x, IsFound(x), x # Null
    PROVE  LET T == writeKeyValuePair(k, x)
           IN /\ Len(T) \in Nat /\ T = [m \in 1 .. Len(T) |-> T[m]]
              /\ ToSet(T) = {T[m] : m \in 1 .. Len(T)}
              /\ (\A t \in ToSet(T) : Writable(t)) => T \in Seq(Token) /\ x # Broken
<1> DEFINE T == writeKeyValuePair(k, x)
<1>1. CASE T \in Seq(Token) /\ x # Broken
  <2> HIDE DEF T
  <2>1. Len(T) \in Nat /\ T = [m \in 1 .. Len(T) |-> T[m]] /\ DOMAIN T = 1 .. Len(T)
    BY <1>1
  <2> QED BY <1>1, <2>1 DEF ToSet, T
<1>2. CASE x = Broken
  <2>1. Len(T) = 3 /\ T = [m \in 1 .. 3 |-> T[m]] /\ ~ Writable(T[3])
    BY <1>2, BrokenTokens
  <2> HIDE DEF T
  <2>2. DOMAIN T = 1 .. 3
    BY <2>1
  <2>3. ToSet(T) = {T[m] : m \in 1 .. Len(T)} /\ T[3] \in ToSet(T)
    BY <2>1, <2>2 DEF ToSet
  <2> QED BY <2>1, <2>3 DEF T
<1>3. ASSUME IsText(x)
      PROVE  T \in Seq(Token) /\ x # Broken
  BY <1>3, TextTokens DEF IsText, StringObject, Broken
<1>4. ASSUME IsMap(x) \/ IsTable(x)
      PROVE  T \in Seq(Token) /\ x # Broken
  <2>1. x.hash.encoding \in {"ZIPLIST", "HASHTABLE"} /\ Broken.hash.encoding = "TORN"
    BY <1>4, FieldsListed DEF Broken, NewObject
  <2> QED BY <1>4, <2>1, HashTokens
<1> QED BY <1>1, <1>2, <1>3, <1>4 DEF IsFound

LEMMA FirstError ==
    ASSUME NEW k \in Key, NEW x, IsFound(x), x # Null,
           NEW T, T = writeKeyValuePair(k, x), \E t \in ToSet(T) : ~ Writable(t)
    PROVE  LET U == BeforeError(T)
           IN /\ U \in Seq(Token) /\ Len(U) < Len(T)
              /\ \A m \in 1 .. Len(U) : U[m] = T[m] /\ Writable(T[m])
<1> DEFINE I == {m \in 1 .. Len(T) : ~ Writable(T[m])}
           i == Min(I)
<1>1. Len(T) \in Nat /\ ToSet(T) = {T[m] : m \in 1 .. Len(T)}
  BY TokenKinds
<1>2. I # {} /\ I \in SUBSET Nat
  BY <1>1
<1>3. i \in I /\ \A y \in I : i <= y
  <2>1. \E y \in I : \A w \in I : y <= w
    BY <1>2, Least
  <2> HIDE DEF I
  <2> QED BY <2>1, Zenon DEF Min
<1>4. SelectInSeq(T, LAMBDA t : ~ Writable(t)) = i
  BY <1>2 DEF SelectInSeq
<1> HIDE DEF i
<1>5. i \in 1 .. Len(T) /\ \A m \in 1 .. i - 1 : Writable(T[m])
  <2>1. i \in 1 .. Len(T)
    BY <1>3
  <2>2. \A m \in 1 .. i - 1 : m \in 1 .. Len(T) /\ ~ (i <= m)
    BY <1>1, <2>1
  <2> QED BY <1>3, <2>1, <2>2
<1> HIDE DEF I
<1> DEFINE N == i - 1
<1>6. N \in 0 .. Len(T) /\ N < Len(T) /\ \A m \in 1 .. N : Writable(T[m])
  BY <1>1, <1>5
<1>7. BeforeError(T) = SubSeq(T, 1, N)
  BY <1>4 DEF BeforeError
<1> HIDE DEF N
<1>8. SubSeq(T, 1, N) \in Seq(Token) /\ Len(SubSeq(T, 1, N)) = N /\ \A m \in 1 .. N : SubSeq(T, 1, N)[m] = T[m]
  BY <1>6, CutTokens
<1> QED BY <1>6, <1>7, <1>8

-----------------------------------------------------------------------------
(* What a save has written when it has written the keys S of the database *)
(* all.                                                                     *)

\* A client reads of db what it reads of the keys S of all.
SameView(db, all, S) ==
    DOMAIN db = S /\ \A k \in S : ViewOf(db[k]) = ViewOf(all[k])

SoFar(z, all, S) ==
    Quiet(z) /\ \E db : Ready(Load(z), "type", db) /\ SameView(db, all, S)

\* The databases that a load makes again, and those it notices to be damaged.
Whole(all) == Legible(all) /\ Counted(all) /\ Refills(all)
Alone(all) == Legible(all) /\ ~ Counted(all) /\ Lone(all)

\* The two invariants, of these databases.
WholeOrNothing ==
    /\ ~ Saving
    /\ Whole(snap) \/ Alone(snap)
    => View(loadFromFile(file)) \in {View(Empty), View(snap)}

WholeOnceAcked ==
    acked /\ "full disk" \notin harm /\ ~ Saving /\ Whole(snap)
    => View(loadFromFile(file)) = View(snap)

LEMMA LegibleTokens ==
    ASSUME NEW all, Legible(all), NEW k \in DOMAIN all, all[k] # Null,
           NEW T, T = writeKeyValuePair(k, all[k]), NEW t \in ToSet(T), Writable(t)
    PROVE  Clear(t)
BY DEF Legible, Clear

\* The pairs of a table are those that are written for it.
LEMMA TablePairs ==
    ASSUME NEW o, o.encoding = "HASHTABLE", IsTidy(o.dict)
    PROVE  ToSet(get_all_fields(o)) = Pairs(o.dict)
<1> DEFINE A == HT!Nodes(o.dict.ht0)
           B == HT!Nodes(o.dict.ht1)
           Y == SetToSeq(A)
           Z == SetToSeq(B)
           E == get_all_fields(o)
<1>1. IsFiniteSet(A) /\ IsFiniteSet(B)
  BY DEF IsTidy, IsNeat
<1>2. E = Y \o Z
  BY DEF get_all_fields
<1> HIDE DEF A, B
<1>3. /\ Y \in Seq(A) /\ \A e \in A : \E i \in 1 .. Len(Y) : Y[i] = e
      /\ Z \in Seq(B) /\ \A e \in B : \E i \in 1 .. Len(Z) : Z[i] = e
  BY <1>1, SetListed
<1> HIDE DEF Y, Z, E
<1>4. Y \in Seq(A \cup B) /\ Z \in Seq(A \cup B)
  BY <1>3
<1>5. /\ E \in Seq(A \cup B) /\ Len(E) = Len(Y) + Len(Z)
      /\ \A i \in 1 .. Len(Y) + Len(Z) : E[i] = IF i <= Len(Y) THEN Y[i] ELSE Z[i - Len(Y)]
  BY <1>2, <1>4, ConcatProperties
<1>6. ToSet(E) \subseteq A \cup B
  BY <1>5 DEF ToSet
<1>7. DOMAIN E = 1 .. Len(Y) + Len(Z) /\ Len(Y) \in Nat /\ Len(Z) \in Nat
  BY <1>4, <1>5
<1>8. ASSUME NEW e \in A PROVE e \in ToSet(E)
  <2>1. PICK i \in 1 .. Len(Y) : Y[i] = e
    BY <1>3
  <2>2. i \in 1 .. Len(Y) + Len(Z) /\ i <= Len(Y)
    BY <1>7
  <2>3. E[i] = e
    BY <1>5, <2>1, <2>2
  <2> QED BY <1>7, <2>2, <2>3 DEF ToSet
<1>9. ASSUME NEW e \in B PROVE e \in ToSet(E)
  <2>1. PICK i \in 1 .. Len(Z) : Z[i] = e
    BY <1>3
  <2> DEFINE j == Len(Y) + i
  <2>2. j \in 1 .. Len(Y) + Len(Z) /\ ~ (j <= Len(Y)) /\ j - Len(Y) = i
    BY <1>7
  <2>3. E[j] = e
    BY <1>5, <2>1, <2>2
  <2> HIDE DEF j
  <2> QED BY <1>7, <2>2, <2>3 DEF ToSet
<1> QED BY <1>6, <1>8, <1>9 DEF Pairs, A, B, E

\* Size and number of pairs are the same but in a table that has lost count.
LEMMA CountIsRight ==
    ASSUME NEW all, NEW k \in DOMAIN all, NEW x, x = all[k], IsMap(x) \/ IsTable(x)
    PROVE  \/ size(x.hash) = Len(get_all_fields(x.hash))
           \/ /\ x.hash.encoding = "HASHTABLE" /\ x.hash.dict \in Tables(all)
              /\ x.hash.dict.used # HT!get_all_length(x.hash.dict)
<1>1. x.hash.encoding = "HASHTABLE" => x.hash.dict \in Tables(all)
  BY FieldsListed DEF Tables
<1> QED BY <1>1, FieldsListed

LEMMA HashRefilled ==
    ASSUME NEW all, Refills(all), NEW k \in DOMAIN all, NEW x, x = all[k], IsMap(x) \/ IsTable(x),
           NEW y, y = HashObject(Refilled(x.hash))
    PROVE  ViewOf(y) = ViewOf(x)
<1>1. x = HashObject(x.hash) /\ x.hash.encoding # "TORN" /\ x.type = "HASH"
  BY FieldsListed DEF IsMap, IsTable
<1>2. x.hash \in Hashes(all)
  BY <1>1 DEF Hashes
<1>3. \A f \in Field : get_field(Refilled(x.hash), f) = get_field(x.hash, f)
  BY <1>2 DEF Refills
<1>4. ViewOf(y) = [type |-> "HASH", fields |-> [f \in Field |-> get_field(Refilled(x.hash), f)]]
  BY ViewOfHash
<1>5. ViewOf(x) = [type |-> "HASH", fields |-> [f \in Field |-> get_field(x.hash, f)]]
  BY <1>1, ViewOfHash
<1> QED BY <1>3, <1>4, <1>5

LEMMA KeyWritten ==
    ASSUME NEW all, IsSnap(all), Whole(all), NEW S \in SUBSET DOMAIN all,
           NEW z \in Seq(Token), SoFar(z, all, S),
           NEW k \in DOMAIN all \ S, all[k] # Null,
           NEW T, T = writeKeyValuePair(k, all[k]), NEW U \in Seq(Token), Len(U) <= Len(T),
           \A m \in 1 .. Len(U) : U[m] = T[m] /\ Writable(T[m])
    PROVE  Quiet(z \o U) /\ (Len(U) = Len(T) => SoFar(z \o U, all, S \cup {k}))
<1> DEFINE x == all[k]
<1>1. k \in Key /\ IsFound(x) /\ x # Null
  BY DEF IsSnap
<1>2. PICK db : Ready(Load(z), "type", db) /\ SameView(db, all, S) /\ Quiet(z)
  BY DEF SoFar
<1>3. \A m \in 1 .. Len(U) : U[m] = T[m] /\ Clear(T[m])
  <2>1. ToSet(T) = {T[m] : m \in 1 .. Len(T)} /\ Len(T) \in Nat /\ Len(U) \in Nat
    BY <1>1, TokenKinds
  <2>2. \A m \in 1 .. Len(U) : T[m] \in ToSet(T)
    BY <2>1
  <2> QED BY <2>2, LegibleTokens DEF Whole
<1>4. ASSUME NEW y, Ready(Load(z \o U), "type", Put(db, k, y)), ViewOf(y) = ViewOf(x), Quiet(z \o U)
      PROVE  SoFar(z \o U, all, S \cup {k})
  <2> DEFINE new == Put(db, k, y)
  <2>1. new = Assign(db, k, y)
    BY <1>2 DEF Put, SameView
  <2>2. DOMAIN new = S \cup {k} /\ new[k] = y /\ \A j \in S : new[j] = db[j]
    BY <1>2, <2>1 DEF SameView, Assign
  <2> HIDE DEF new
  <2>3. SameView(new, all, S \cup {k})
    BY <1>2, <1>4, <2>2 DEF SameView
  <2> QED BY <1>4, <2>3 DEF SoFar, new
<1> HIDE DEF x
<1>5. T = writeKeyValuePair(k, x)
  BY DEF x
<1>6. ASSUME IsText(x)
      PROVE  Quiet(z \o U) /\ (Len(U) = Len(T) => SoFar(z \o U, all, S \cup {k}))
  <2>1. /\ Quiet(z \o U)
        /\ Len(U) = Len(T) => Ready(Load(z \o U), "type", Put(db, k, x))
    BY <1>1, <1>2, <1>3, <1>5, <1>6, TextKey
  <2> QED BY <1>4, <2>1
<1>7. ASSUME IsMap(x) \/ IsTable(x)
      PROVE  Quiet(z \o U) /\ (Len(U) = Len(T) => SoFar(z \o U, all, S \cup {k}))
  <2>1. size(x.hash) = Len(get_all_fields(x.hash))
    BY <1>7, CountIsRight DEF Whole, Counted, x
  <2> DEFINE y == HashObject(Refilled(x.hash))
  <2>2. /\ Quiet(z \o U)
        /\ Len(U) = Len(T) => Ready(Load(z \o U), "type", Put(db, k, y))
    BY <1>1, <1>2, <1>3, <1>5, <1>7, <2>1, HashKeyRead
  <2>3. ViewOf(y) = ViewOf(x)
    BY <1>7, HashRefilled DEF Whole, x
  <2> HIDE DEF y
  <2> QED BY <1>4, <2>2, <2>3
<1>8. ASSUME x = Broken
      PROVE  Quiet(z \o U) /\ Len(U) < Len(T)
  <2>1. Len(T) = 3 /\ ~ Writable(T[3])
    BY <1>1, <1>5, <1>8, BrokenTokens
  <2>2. Len(U) < Len(T)
    BY <2>1
  <2>3. T = writeKeyValuePair(k, Broken)
    BY <1>5, <1>8
  <2> QED BY <1>1, <1>2, <1>3, <2>2, <2>3, BrokenKey
<1>9. Len(U) < Len(T) => Len(U) # Len(T)
  BY <1>1, <1>5, TokenKinds
<1> QED BY <1>1, <1>6, <1>7, <1>8, <1>9 DEF IsFound

\* A hash that has lost count, after the header of the file.
LEMMA LastKey ==
    ASSUME NEW all, IsSnap(all), Alone(all), NEW k \in DOMAIN all, all[k] # Null,
           NEW T, T = writeKeyValuePair(k, all[k]), NEW U \in Seq(Token), Len(U) <= Len(T),
           \A m \in 1 .. Len(U) : U[m] = T[m] /\ Writable(T[m])
    PROVE  LET z == Header \o U
           IN /\ Quiet(z)
              /\ Len(U) = Len(T) => At(Load(z), "field") \/ At(Load(z), "exception")
              /\ DOMAIN all = {k}
<1> DEFINE x == all[k]
<1>1. k \in Key /\ IsFound(x) /\ x # Null
  BY DEF IsSnap
<1>2. \A m \in 1 .. Len(U) : U[m] = T[m] /\ Clear(T[m])
  <2>1. ToSet(T) = {T[m] : m \in 1 .. Len(T)} /\ Len(T) \in Nat /\ Len(U) \in Nat
    BY <1>1, TokenKinds
  <2>2. \A m \in 1 .. Len(U) : T[m] \in ToSet(T)
    BY <2>1
  <2> QED BY <2>2, LegibleTokens DEF Alone
<1>3. DOMAIN all = {k}
  <2>1. IsFiniteSet(DOMAIN all) /\ Cardinality(DOMAIN all) = 1
    BY DEF IsSnap, Alone, Lone
  <2>2. \E j : DOMAIN all = {j}
    BY <2>1, FS_Singleton
  <2> QED BY <2>2
<1>4. x.type = "HASH" /\ x.hash.encoding = "HASHTABLE" /\ x.hash.dict \in Tables(all)
      /\ x.hash.dict.used # HT!get_all_length(x.hash.dict)
  BY <1>3 DEF Alone, Counted, Tables
<1>5. IsMap(x) \/ IsTable(x)
  <2>1. ~ IsText(x)
    BY <1>4 DEF IsText, StringObject
  <2>2. x # Broken
    BY <1>4 DEF Broken, NewObject
  <2> QED BY <1>1, <2>1, <2>2 DEF IsFound
<1> HIDE DEF x
<1>6. IsTidy(x.hash.dict) /\ size(x.hash) # Len(get_all_fields(x.hash))
  BY <1>4, <1>5, FieldsListed
<1>7. FieldsAreNoTypes(x)
  BY <1>4, <1>6, TablePairs DEF FieldsAreNoTypes, Alone, Lone
<1>8. T = writeKeyValuePair(k, x)
  BY DEF x
<1> DEFINE z == Header \o U
<1>9. /\ Quiet(z)
      /\ Len(U) = Len(T) => At(Load(z), "field") \/ At(Load(z), "exception")
  BY <1>1, <1>2, <1>5, <1>6, <1>7, <1>8, HeaderLoads, HashKeyRead
<1> QED BY <1>3, <1>9

-----------------------------------------------------------------------------
(* How a file ends. *)

End == Op(RDB_OPCODE_EOF)

LEMMA EndIsToken == End \in Token /\ Num(0) \in Token
BY DEF End, Token, RDB_OPCODE_EOF

\* The two tokens of Footer change nothing after the first.
LEMMA EndLoads ==
    ASSUME NEW z \in Seq(Token),
           NEW f, f \in {z \o <<End>>, z \o Footer},
           NEW y, y = ReadToken(Load(z), End), At(y, "done") \/ At(y, "exception")
    PROVE  f \in Seq(Token) /\ Load(f) = y
<1> DEFINE d == Load(z)
<1>1. ASSUME NEW V \in Seq(Token) PROVE z \o V \in Seq(Token) /\ Load(z \o V) = Fold("token", d, V)
  <2> HIDE DEF Token
  <2> QED BY FoldConcat, ConcatProperties DEF Load
<1>2. CASE f = z \o <<End>>
  <2> DEFINE V == <<End>>
  <2>1. V \in Seq(Token) /\ Len(V) = 1 /\ V[1] = End
    <3> HIDE DEF Token
    <3> QED BY EndIsToken
  <2> HIDE DEF V, d
  <2>2. PICK run : IsRun("token", d, V, run) /\ Fold("token", d, V) = run[Len(V)]
    BY <2>1, FoldRuns
  <2>3. run[0] = d /\ \A m \in 1 .. 1 : run[m] = ReadToken(run[m - 1], V[m])
    BY <2>1, <2>2 DEF IsRun, Step
  <2>4. run[1] = ReadToken(run[1 - 1], V[1])
    BY <2>3
  <2>5. Fold("token", d, V) = y
    BY <2>1, <2>2, <2>3, <2>4 DEF d
  <2> QED BY <1>1, <1>2, <2>1, <2>5 DEF V
<1>3. CASE f = z \o Footer
  <2> DEFINE V == Footer
  <2>1. V \in Seq(Token) /\ Len(V) = 2 /\ V[1] = End /\ V[2] = Num(0)
    <3>1. V = <<End, Num(0)>>
      BY DEF Footer, End
    <3> HIDE DEF V, Token
    <3> QED BY <3>1, EndIsToken
  <2> HIDE DEF V, d
  <2>2. PICK run : IsRun("token", d, V, run) /\ Fold("token", d, V) = run[Len(V)]
    BY <2>1, FoldRuns
  <2>3. run[0] = d /\ \A m \in 1 .. 2 : run[m] = ReadToken(run[m - 1], V[m])
    BY <2>1, <2>2 DEF IsRun, Step
  <2>4. run[1] = ReadToken(run[1 - 1], V[1]) /\ run[2] = ReadToken(run[2 - 1], V[2])
    BY <2>3
  <2>5. run[1] = y /\ run[2] = ReadToken(y, V[2])
    BY <2>1, <2>3, <2>4 DEF d
  <2>6. \A t : ReadToken(y, t) = y
    BY DEF At, ReadToken
  <2>7. Fold("token", d, V) = y
    BY <2>1, <2>2, <2>5, <2>6
  <2> QED BY <1>1, <1>3, <2>1, <2>7 DEF V
<1> QED BY <1>2, <1>3

\* What reaches the disk before it is full.
LEMMA ShortFile ==
    ASSUME NEW z \in Seq(Token), NEW n \in 0 .. Len(z \o Footer) - 1
    PROVE  LET f == SubSeq(z \o Footer, 1, n)
           IN f \in Seq(Token) /\ ((\E m \in 0 .. Len(z) : f = SubSeq(z, 1, m)) \/ f = z \o <<End>>)
<1> DEFINE V == Footer
           w == z \o V
           f == SubSeq(w, 1, n)
<1>0. Len(z) \in Nat
  OBVIOUS
<1>1. V \in Seq(Token) /\ Len(V) = 2 /\ V[1] = End
  <2>1. V = <<End, Num(0)>>
    BY DEF Footer, End
  <2> HIDE DEF V, Token
  <2> QED BY <2>1, EndIsToken
<1> HIDE DEF V, Token, f
<1>2. /\ w \in Seq(Token) /\ Len(w) = Len(z) + Len(V) /\ Len(z) \in Nat
      /\ \A i \in 1 .. Len(z) + Len(V) : w[i] = IF i <= Len(z) THEN z[i] ELSE V[i - Len(z)]
  BY <1>0, <1>1, ConcatProperties
<1> HIDE DEF w
<1>3. n \in 0 .. Len(z) + 1 /\ n \in 0 .. Len(w)
  BY <1>1, <1>2 DEF w, V
<1>4. f \in Seq(Token) /\ Len(f) = n /\ \A i \in 1 .. n : f[i] = w[i]
  BY <1>2, <1>3, PrefixIs DEF f
<1> HIDE DEF f
<1>5. CASE n <= Len(z)
  <2> DEFINE g == SubSeq(z, 1, n)
  <2>1. n \in 0 .. Len(z)
    BY <1>2, <1>3, <1>5
  <2>2. g \in Seq(Token) /\ Len(g) = n /\ \A i \in 1 .. n : g[i] = z[i]
    BY <2>1, PrefixIs
  <2> HIDE DEF g
  <2>3. \A i \in 1 .. n : i \in 1 .. Len(z) + Len(V) /\ i <= Len(z)
    BY <1>1, <1>2, <2>1
  <2>4. \A i \in 1 .. n : f[i] = g[i]
    BY <1>2, <1>4, <2>2, <2>3
  <2>5. f = g
    BY <1>4, <2>2, <2>4, SeqEqual
  <2> QED BY <1>4, <2>1, <2>5 DEF f, g, w, V
<1>6. CASE n > Len(z)
  <2> DEFINE g == z \o <<End>>
             q == <<End>>
  <2>0. q \in Seq(Token) /\ Len(q) = 1 /\ q[1] = End
    BY EndIsToken
  <2> HIDE DEF q
  <2>1. /\ g \in Seq(Token) /\ Len(g) = Len(z) + Len(q)
        /\ \A i \in 1 .. Len(z) + Len(q) : g[i] = IF i <= Len(z) THEN z[i] ELSE q[i - Len(z)]
    BY <2>0, ConcatProperties DEF q
  <2> HIDE DEF g
  <2>2. n = Len(z) + 1 /\ \A i \in 1 .. n : /\ i \in 1 .. Len(z) + Len(V)
                                           /\ i \in 1 .. Len(z) + Len(q)
                                           /\ (i <= Len(z) \/ i - Len(z) = 1)
    BY <1>1, <1>2, <1>3, <1>6, <2>0
  <2>3. ASSUME NEW i \in 1 .. n PROVE f[i] = g[i]
    <3>1. /\ f[i] = IF i <= Len(z) THEN z[i] ELSE V[i - Len(z)]
          /\ g[i] = IF i <= Len(z) THEN z[i] ELSE q[i - Len(z)]
      BY <1>2, <1>4, <2>1, <2>2
    <3>2. i <= Len(z) \/ i - Len(z) = 1
      BY <2>2
    <3> QED BY <1>1, <2>0, <3>1, <3>2
  <2>4. f = g
    BY <1>4, <2>0, <2>1, <2>2, <2>3, SeqEqual
  <2> QED BY <1>4, <2>4 DEF f, g, q, w, V
<1> QED BY <1>2, <1>3, <1>5, <1>6

LEMMA NotUnknown ==
    ASSUME NEW db, DOMAIN db \subseteq Key
    PROVE  db # Unknown
<1>1. DOMAIN Unknown = {NoValue}
  BY DEF Unknown
<1> QED BY <1>1, Strings

LEMMA WholeLoads ==
    ASSUME NEW all, IsSnap(all), NEW z \in Seq(Token), SoFar(z, all, DOMAIN all),
           NEW f, f \in {z \o <<End>>, z \o Footer}
    PROVE  f \in Seq(Token) /\ View(loadFromFile(f)) = View(all)
<1> DEFINE d == Load(z)
           y == ReadToken(d, End)
<1>1. PICK db : Ready(d, "type", db) /\ SameView(db, all, DOMAIN all)
  BY DEF SoFar
<1> HIDE DEF d
<1>2. At(y, "done") /\ y.db = db
  <2>1. RDB_OPCODE_EOF \in Nat
    BY DEF RDB_OPCODE_EOF
  <2> QED BY <1>1, <2>1, OpReads DEF Ready, End
<1> HIDE DEF y
<1>3. f \in Seq(Token) /\ Load(f) = y
  <2>1. y = ReadToken(Load(z), End)
    BY DEF y, d
  <2> QED BY <1>2, <2>1, EndLoads
<1>4. loadFromFile(f) = db
  BY <1>2, <1>3, LoadIs DEF At
<1>5. IsDb(db)
  BY <1>2 DEF At, IsDecoder
<1>6. db # Unknown /\ all # Unknown
  BY <1>5, NotUnknown DEF IsDb, IsSnap
<1>7. View(db) = View(all)
  BY <1>1, <1>6 DEF View, SameView
<1> QED BY <1>3, <1>4, <1>7

LEMMA DamageIsNoticed ==
    ASSUME NEW z \in Seq(Token), At(Load(z), "field") \/ At(Load(z), "exception"),
           NEW f, f \in {z \o <<End>>, z \o Footer}
    PROVE  f \in Seq(Token) /\ loadFromFile(f) = Empty
<1> DEFINE d == Load(z)
           y == ReadToken(d, End)
<1>1. At(y, "exception")
  <2> HIDE DEF d
  <2>1. RDB_OPCODE_EOF \in Nat
    BY DEF RDB_OPCODE_EOF
  <2>2. At(d, "field") => At(y, "exception")
    BY <2>1, OpReads DEF End
  <2>3. At(d, "exception") => y = d
    BY ExceptionIsFinal
  <2> QED BY <2>2, <2>3 DEF d
<1>2. f \in Seq(Token) /\ Load(f) = y
  BY <1>1, EndLoads
<1> HIDE DEF y, d
<1>3. Going(y)
  BY <1>1, StillGoing
<1> QED BY <1>2, <1>3, GoingLoadsNothing

-----------------------------------------------------------------------------
(* The inductive invariant. *)

\* A save of all has written z, and left is to do.
Saved(z, all, left) ==
    /\ Len(z) > 0
    /\ Whole(all) => SoFar(z, all, DOMAIN all \ left)
    /\ Alone(all) => /\ Quiet(z)
                     /\ left # {} => z = Header
                     /\ left = {} => At(Load(z), "field") \/ At(Load(z), "exception")

Contents ==
    /\ proc \in {"running", "saving"} => data = Unknown \/ IsDb(data)
    /\ IsSnap(snap)
    /\ file \in Seq(Token) /\ buf \in Seq(Token)

IInv ==
    /\ TypeOK
    /\ Contents
    /\ Saving => ~ acked /\ Saved(buf, snap, todo)
    /\ WholeOrNothing /\ WholeOnceAcked

LEMMA InitIInv == Init => IInv
<1> SUFFICES ASSUME Init PROVE IInv
  OBVIOUS
<1>1. IsDb(Empty) /\ IsSnap(Empty)
  BY NothingIsDb, DbIsSnap
<1>2. /\ ~ Saving /\ ~ acked /\ file = <<>> /\ snap = Empty /\ proc = "running"
      /\ data = Empty /\ buf = <<>> /\ todo = {} /\ harm = {} /\ acked \in BOOLEAN
  BY DEF Init, Saving
<1>5. TypeOK
  BY <1>2 DEF TypeOK
<1>6. Contents
  <2>1. <<>> \in Seq(Token)
    <3> HIDE DEF Token
    <3> QED OBVIOUS
  <2> QED BY <1>1, <1>2, <2>1 DEF Contents
<1>3. Load(<<>>) = Decoder
  BY FoldNothing DEF Load
<1>4. loadFromFile(<<>>) = Empty
  BY <1>3, FirstState, StillGoing, GoingLoadsNothing
<1> QED BY <1>2, <1>4, <1>5, <1>6 DEF IInv, WholeOrNothing, WholeOnceAcked

LEMMA SaveBegins ==
    ASSUME NEW all, IsSnap(all)
    PROVE  Saved(Header, all, DOMAIN all) /\ Header \in Seq(Token) /\ Header # <<>>
<1>1. Header \in Seq(Token) /\ Len(Header) = 3 /\ Quiet(Header) /\ Ready(Load(Header), "type", Empty)
  BY HeaderLoads
<1>2. SameView(Empty, all, DOMAIN all \ DOMAIN all)
  BY DEF SameView, Empty
<1>3. Alone(all) => DOMAIN all # {}
  BY FS_EmptySet DEF Alone, Lone
<1> QED BY <1>1, <1>2, <1>3 DEF Saved, SoFar

\* One more key of the database.
LEMMA SaveGoesOn ==
    ASSUME NEW all, IsSnap(all), NEW left \in SUBSET DOMAIN all,
           NEW z \in Seq(Token), Saved(z, all, left), NEW k \in left, all[k] # Null,
           NEW T, T = writeKeyValuePair(k, all[k]), \A t \in ToSet(T) : Writable(t)
    PROVE  z \o T \in Seq(Token) /\ Saved(z \o T, all, left \ {k})
<1>1. /\ T \in Seq(Token) /\ Len(T) \in Nat /\ ToSet(T) = {T[m] : m \in 1 .. Len(T)}
      /\ k \in DOMAIN all
  BY TokenKinds DEF IsSnap
<1>2. Len(T) <= Len(T) /\ \A m \in 1 .. Len(T) : T[m] = T[m] /\ Writable(T[m])
  BY <1>1
<1>3. z \o T \in Seq(Token) /\ Len(z \o T) = Len(z) + Len(T)
  <2> HIDE DEF Token
  <2> QED BY <1>1, ConcatProperties
<1>4. Len(z \o T) > 0
  BY <1>1, <1>3 DEF Saved
<1>5. Whole(all) => SoFar(z \o T, all, DOMAIN all \ (left \ {k}))
  <2> SUFFICES ASSUME Whole(all) PROVE SoFar(z \o T, all, DOMAIN all \ (left \ {k}))
    OBVIOUS
  <2> DEFINE S == DOMAIN all \ left
  <2>1. S \in SUBSET DOMAIN all /\ SoFar(z, all, S) /\ k \in DOMAIN all \ S
    BY <1>1 DEF Saved
  <2>2. S \cup {k} = DOMAIN all \ (left \ {k})
    BY <1>1
  <2> HIDE DEF S
  <2>3. SoFar(z \o T, all, S \cup {k})
    BY <1>1, <1>2, <2>1, KeyWritten
  <2> QED BY <2>2, <2>3
<1>6. Alone(all) => /\ Quiet(z \o T)
                    /\ left \ {k} = {}
                    /\ At(Load(z \o T), "field") \/ At(Load(z \o T), "exception")
  <2> SUFFICES ASSUME Alone(all)
               PROVE  /\ Quiet(z \o T) /\ left \ {k} = {}
                      /\ At(Load(z \o T), "field") \/ At(Load(z \o T), "exception")
    OBVIOUS
  <2>1. z = Header
    BY DEF Saved
  <2>2. /\ Quiet(Header \o T) /\ DOMAIN all = {k}
        /\ At(Load(Header \o T), "field") \/ At(Load(Header \o T), "exception")
    BY <1>1, <1>2, LastKey
  <2> QED BY <2>1, <2>2
<1> QED BY <1>3, <1>4, <1>5, <1>6 DEF Saved

\* A save that ends before its end leaves a file that loads as nothing.
LEMMA SaveCut ==
    ASSUME NEW all, IsSnap(all), NEW left \in SUBSET DOMAIN all,
           NEW z \in Seq(Token), Saved(z, all, left), Whole(all) \/ Alone(all),
           NEW n \in 0 .. Len(z)
    PROVE  loadFromFile(SubSeq(z, 1, n)) = Empty
BY QuietPrefix DEF Saved, SoFar

\* So does one that fails.
LEMMA SaveFails ==
    ASSUME NEW all, IsSnap(all), NEW left \in SUBSET DOMAIN all,
           NEW z \in Seq(Token), Saved(z, all, left), NEW k \in left, all[k] # Null,
           NEW T, T = writeKeyValuePair(k, all[k]), \E t \in ToSet(T) : ~ Writable(t)
    PROVE  LET f == z \o BeforeError(T)
           IN f \in Seq(Token) /\ (Whole(all) \/ Alone(all) => loadFromFile(f) = Empty)
<1> DEFINE U == BeforeError(T)
<1>1. k \in Key /\ IsFound(all[k]) /\ k \in DOMAIN all
  BY DEF IsSnap
<1>2. U \in Seq(Token) /\ Len(U) < Len(T) /\ \A m \in 1 .. Len(U) : U[m] = T[m] /\ Writable(T[m])
  BY <1>1, FirstError
<1>3. Len(T) \in Nat
  BY <1>1, TokenKinds
<1> HIDE DEF U
<1>4. Len(U) <= Len(T)
  BY <1>2, <1>3
<1>5. z \o U \in Seq(Token)
  <2> HIDE DEF Token
  <2> QED BY <1>2, ConcatProperties
<1>6. Whole(all) => Quiet(z \o U)
  <2> DEFINE S == DOMAIN all \ left
  <2>1. Whole(all) => SoFar(z, all, S)
    BY DEF Saved
  <2>2. S \in SUBSET DOMAIN all /\ k \in DOMAIN all \ S
    BY <1>1
  <2> HIDE DEF S
  <2> QED BY <1>2, <1>4, <2>1, <2>2, KeyWritten
<1>7. Alone(all) => Quiet(z \o U)
  <2> SUFFICES ASSUME Alone(all) PROVE Quiet(z \o U)
    OBVIOUS
  <2>1. z = Header
    BY DEF Saved
  <2>2. Quiet(Header \o U)
    BY <1>1, <1>2, <1>4, LastKey
  <2> QED BY <2>1, <2>2
<1>8. Quiet(z \o U) => loadFromFile(z \o U) = Empty
  BY <1>5, QuietWhole, GoingLoadsNothing
<1> QED BY <1>5, <1>6, <1>7, <1>8 DEF U

LEMMA SaveEnds ==
    ASSUME NEW all, IsSnap(all), NEW z \in Seq(Token), Saved(z, all, {}),
           NEW f, f \in {z \o <<End>>, z \o Footer}
    PROVE  /\ Whole(all) => View(loadFromFile(f)) = View(all)
           /\ Alone(all) => loadFromFile(f) = Empty
           /\ f \in Seq(Token)
<1>1. Whole(all) => View(loadFromFile(f)) = View(all)
  <2>1. DOMAIN all \ {} = DOMAIN all
    OBVIOUS
  <2> QED BY <2>1, WholeLoads DEF Saved
<1>2. Alone(all) => loadFromFile(f) = Empty
  BY DamageIsNoticed DEF Saved
<1>3. f \in Seq(Token)
  <2>1. Footer \in Seq(Token) /\ <<End>> \in Seq(Token)
    <3>1. Footer = <<End, Num(0)>>
      BY DEF Footer, End
    <3> HIDE DEF Token
    <3> QED BY <3>1, EndIsToken
  <2> HIDE DEF Token
  <2> QED BY <2>1, ConcatProperties
<1> QED BY <1>1, <1>2, <1>3

\* What the two invariants say of a file.
FileOK(f, all) ==
    Whole(all) \/ Alone(all) => View(loadFromFile(f)) \in {View(Empty), View(all)}

-----------------------------------------------------------------------------
(* The actions keep it. *)

LEMMA NoTokens == <<>> \in Seq(Token)
<1> HIDE DEF Token
<1> QED OBVIOUS

LEMMA WritesKeepDb ==
    ASSUME NEW db, IsDb(db)
    PROVE  /\ \A k \in Key, v \in Key : IsDb(set(db, k, v))
           /\ \A k \in Key, f \in Key, v \in Key : IsDb(hset(db, k, f, v))
           /\ \A keys : IsDb(del(db, keys))
<1>1. ASSUME NEW k \in Key, NEW v \in Key PROVE IsDb(set(db, k, v))
  BY DbAssigned DEF set, IsText
<1>2. ASSUME NEW k \in Key, NEW f \in Key, NEW v \in Key PROVE IsDb(hset(db, k, f, v))
  <2> DEFINE o == set_field(HashAt(db, k), f, v)
  <2>1. H!IsObject(o)
    BY HashAtKey, ObjectWritten
  <2> HIDE DEF o
  <2>2. IsMap(HashObject(o))
    BY <2>1, ObjectIsMap
  <2> QED BY <2>2, DbAssigned DEF hset, o
<1>3. ASSUME NEW keys PROVE IsDb(del(db, keys))
  <2> DEFINE e == del(db, keys)
  <2>1. /\ DOMAIN e \subseteq DOMAIN db /\ e = [k \in DOMAIN e |-> e[k]]
        /\ \A k \in DOMAIN e : e[k] = db[k]
    BY DEF del
  <2> HIDE DEF e
  <2>2. IsFiniteSet(DOMAIN e)
    BY <2>1, FS_Subset DEF IsDb
  <2> QED BY <2>1, <2>2 DEF IsDb, e
<1> QED BY <1>1, <1>2, <1>3

LEMMA CommandKeeps ==
    ASSUME IInv, NEW db, Execute(db), data # Unknown, IsDb(data) => IsDb(db)
    PROVE  IInv'
<1>1. /\ proc = "running" /\ data' = db /\ proc' = proc /\ file' = file /\ buf' = buf
      /\ todo' = todo /\ snap' = snap /\ acked' = acked /\ harm' = harm
  BY DEF Execute
<1>2. ~ Saving /\ ~ Saving'
  BY <1>1 DEF Saving
<1>3. TypeOK /\ Contents /\ WholeOrNothing /\ WholeOnceAcked
  BY DEF IInv
<1>4. TypeOK'
  BY <1>1, <1>2, <1>3 DEF TypeOK
<1>5. Contents'
  BY <1>1, <1>3 DEF Contents
<1>6. WholeOrNothing' /\ WholeOnceAcked'
  BY <1>1, <1>2, <1>3 DEF WholeOrNothing, WholeOnceAcked
<1> QED BY <1>2, <1>4, <1>5, <1>6 DEF IInv

LEMMA SaveStarts ==
    ASSUME IInv, NEW db, NEW h, BeginSave(db, h), IsSnap(db), h \subseteq {"full disk", "interrupted"},
           \/ proc' = "saving" /\ IsDb(db)
           \/ proc' \in {"exiting", "nested"}
    PROVE  IInv'
<1>1. /\ data' = db /\ file' = <<>> /\ buf' = Header /\ todo' = DOMAIN db /\ snap' = db
      /\ acked' = FALSE /\ harm' = h
  BY DEF BeginSave
<1>2. Saving' /\ proc' # "down"
  BY DEF Saving
<1>3. Saved(Header, db, DOMAIN db) /\ Header \in Seq(Token) /\ Header # <<>>
  BY SaveBegins
<1>4. TypeOK'
  BY <1>1, <1>2, <1>3 DEF TypeOK
<1>5. <<>> \in Seq(Token)
  BY NoTokens
<1>6. Contents'
  BY <1>1, <1>3, <1>5 DEF Contents
<1>7. WholeOrNothing' /\ WholeOnceAcked'
  BY <1>1, <1>2 DEF WholeOrNothing, WholeOnceAcked
<1>8. ~ acked' /\ Saved(buf', snap', todo')
  BY <1>1, <1>3
<1> QED BY <1>4, <1>6, <1>7, <1>8 DEF IInv

LEMMA WriteKeeps ==
    ASSUME IInv, NEW k, WriteKey(k)
    PROVE  IInv'
<1> DEFINE T == writeKeyValuePair(k, data[k])
<1>1. /\ Saving /\ k \in todo /\ data[k] # Null /\ \A t \in ToSet(T) : Writable(t)
      /\ buf' = buf \o T /\ todo' = todo \ {k}
      /\ data' = data /\ proc' = proc /\ file' = file /\ snap' = snap /\ acked' = acked /\ harm' = harm
  BY DEF WriteKey
<1>2. TypeOK /\ Contents /\ ~ acked /\ Saved(buf, snap, todo) /\ data = snap
  BY <1>1 DEF IInv, TypeOK
<1>3. todo \in SUBSET DOMAIN snap /\ IsSnap(snap) /\ buf \in Seq(Token)
  BY <1>2 DEF TypeOK, Contents
<1>4. T = writeKeyValuePair(k, snap[k]) /\ snap[k] # Null
  BY <1>1, <1>2
<1> HIDE DEF T
<1>5. buf \o T \in Seq(Token) /\ Saved(buf \o T, snap, todo \ {k})
  BY <1>1, <1>2, <1>3, <1>4, SaveGoesOn
<1>6. Saving' /\ buf' # <<>>
  <2>1. Len(buf \o T) > 0
    BY <1>5 DEF Saved
  <2>2. Saving' /\ buf' = buf \o T
    BY <1>1 DEF Saving
  <2> HIDE DEF Token
  <2>3. \A z \in Seq(Token) : Len(z) > 0 => z # <<>>
    OBVIOUS
  <2> QED BY <1>5, <2>1, <2>2, <2>3
<1>7. TypeOK'
  BY <1>1, <1>2, <1>6 DEF TypeOK
<1>8. Contents'
  BY <1>1, <1>2, <1>5 DEF Contents
<1>9. WholeOrNothing' /\ WholeOnceAcked'
  BY <1>6 DEF WholeOrNothing, WholeOnceAcked
<1>10. ~ acked' /\ Saved(buf', snap', todo')
  BY <1>1, <1>2, <1>5
<1> QED BY <1>7, <1>8, <1>9, <1>10 DEF IInv

\* A save is over: it has returned, or the process is gone.
LEMMA SaveOver ==
    ASSUME IInv, Saving, buf' = <<>>, todo' = {}, snap' = snap, file' \in Seq(Token),
           \/ proc = "saving" /\ proc' = "running" /\ data' = data
           \/ proc' = "down" /\ data' = Empty,
           acked' \in BOOLEAN, harm' \subseteq {"full disk", "interrupted"},
           FileOK(file', snap),
           acked' /\ "full disk" \notin harm' /\ Whole(snap) => View(loadFromFile(file')) = View(snap)
    PROVE  IInv'
<1>1. TypeOK /\ Contents
  BY DEF IInv
<1>2. ~ Saving'
  BY DEF Saving
<1>3. TypeOK'
  BY <1>1, <1>2 DEF TypeOK
<1>4. Contents'
  <2>1. <<>> \in Seq(Token)
    BY NoTokens
  <2> QED BY <1>1, <2>1 DEF Contents
<1>5. WholeOrNothing' /\ WholeOnceAcked'
  BY Zenon DEF WholeOrNothing, WholeOnceAcked, FileOK, Whole, Alone
<1> QED BY <1>2, <1>3, <1>4, <1>5 DEF IInv

LEMMA FailKeeps ==
    ASSUME IInv, NEW k, FailSave(k)
    PROVE  IInv'
<1> DEFINE T == writeKeyValuePair(k, data[k])
           f == buf \o BeforeError(T)
<1>1. /\ Saving /\ k \in todo /\ data[k] # Null /\ \E t \in ToSet(T) : ~ Writable(t)
      /\ file' = f /\ Return /\ acked' = acked /\ harm' = harm
  BY DEF FailSave
<1>2. TypeOK /\ Contents /\ ~ acked /\ Saved(buf, snap, todo) /\ data = snap
  BY <1>1 DEF IInv, TypeOK
<1>3. todo \in SUBSET DOMAIN snap /\ IsSnap(snap) /\ buf \in Seq(Token)
  BY <1>2 DEF TypeOK, Contents
<1>4. T = writeKeyValuePair(k, snap[k]) /\ snap[k] # Null
  BY <1>1, <1>2
<1> HIDE DEF T
<1>5. f \in Seq(Token) /\ (Whole(snap) \/ Alone(snap) => loadFromFile(f) = Empty)
  BY <1>1, <1>2, <1>3, <1>4, SaveFails
<1> HIDE DEF f
<1>6. FileOK(f, snap)
  BY <1>5 DEF FileOK
<1>7. /\ buf' = <<>> /\ todo' = {} /\ snap' = snap
      /\ \/ proc = "saving" /\ proc' = "running" /\ data' = data
         \/ proc' = "down" /\ data' = Empty
  BY <1>1 DEF Return
<1>8. acked' = FALSE /\ harm' \subseteq {"full disk", "interrupted"} /\ file' \in Seq(Token)
  BY <1>1, <1>2, <1>5 DEF TypeOK
<1>9. FileOK(file', snap)
  BY <1>1, <1>6
<1> QED BY <1>1, <1>7, <1>8, <1>9, SaveOver

LEMMA EndKeeps ==
    ASSUME IInv, EndSave
    PROVE  IInv'
<1> DEFINE f == buf \o Footer
<1>1. Saving /\ todo = {} /\ file' = f /\ acked' = TRUE /\ Return /\ harm' = harm
  BY DEF EndSave
<1>2. TypeOK /\ Contents /\ Saved(buf, snap, {})
  BY <1>1 DEF IInv
<1>3. IsSnap(snap) /\ buf \in Seq(Token)
  BY <1>2 DEF Contents
<1>4. /\ Whole(snap) => View(loadFromFile(f)) = View(snap)
      /\ Alone(snap) => loadFromFile(f) = Empty
      /\ f \in Seq(Token)
  BY <1>2, <1>3, SaveEnds
<1> HIDE DEF f
<1>5. FileOK(file', snap) /\ (Whole(snap) => View(loadFromFile(file')) = View(snap))
  BY <1>1, <1>4 DEF FileOK
<1>6. /\ buf' = <<>> /\ todo' = {} /\ snap' = snap
      /\ \/ proc = "saving" /\ proc' = "running" /\ data' = data
         \/ proc' = "down" /\ data' = Empty
  BY <1>1 DEF Return
<1>7. acked' \in BOOLEAN /\ harm' \subseteq {"full disk", "interrupted"} /\ file' \in Seq(Token)
  BY <1>1, <1>2, <1>4 DEF TypeOK
<1> QED BY <1>1, <1>5, <1>6, <1>7, SaveOver

LEMMA EndShortKeeps ==
    ASSUME IInv, EndSaveShort
    PROVE  IInv'
<1>1. PICK n \in 0 .. Len(buf \o Footer) - 1 : file' = SubSeq(buf \o Footer, 1, n)
  BY DEF EndSaveShort
<1>2. Saving /\ todo = {} /\ acked' = TRUE /\ Return /\ harm' = harm \cup {"full disk"}
  BY DEF EndSaveShort
<1>3. TypeOK /\ Contents /\ Saved(buf, snap, {})
  BY <1>2 DEF IInv
<1>4. IsSnap(snap) /\ buf \in Seq(Token)
  BY <1>3 DEF Contents
<1> DEFINE f == SubSeq(buf \o Footer, 1, n)
<1>5. f \in Seq(Token) /\ ((\E m \in 0 .. Len(buf) : f = SubSeq(buf, 1, m)) \/ f = buf \o <<End>>)
  BY <1>4, ShortFile
<1>6. file' = f
  BY <1>1
<1> HIDE DEF f
<1>7. (\E m \in 0 .. Len(buf) : f = SubSeq(buf, 1, m)) => FileOK(f, snap)
  BY <1>3, <1>4, SaveCut DEF FileOK
<1>8. f = buf \o <<End>> => FileOK(f, snap)
  <2> SUFFICES ASSUME f = buf \o <<End>> PROVE FileOK(f, snap)
    OBVIOUS
  <2>1. f \in {buf \o <<End>>, buf \o Footer}
    OBVIOUS
  <2>2. /\ Whole(snap) => View(loadFromFile(f)) = View(snap)
        /\ Alone(snap) => loadFromFile(f) = Empty
    BY <1>3, <1>4, <2>1, SaveEnds
  <2> QED BY <2>2 DEF FileOK
<1>9. FileOK(file', snap) /\ file' \in Seq(Token)
  BY <1>5, <1>6, <1>7, <1>8
<1>10. /\ buf' = <<>> /\ todo' = {} /\ snap' = snap
       /\ \/ proc = "saving" /\ proc' = "running" /\ data' = data
          \/ proc' = "down" /\ data' = Empty
  BY <1>2 DEF Return
<1>11. acked' \in BOOLEAN /\ harm' \subseteq {"full disk", "interrupted"} /\ "full disk" \in harm'
  BY <1>2, <1>3 DEF TypeOK
<1> QED BY <1>2, <1>9, <1>10, <1>11, SaveOver

LEMMA CrashKeeps ==
    ASSUME IInv, Crash
    PROVE  IInv'
<1>1. /\ proc' = "down" /\ data' = Empty /\ buf' = <<>> /\ todo' = {}
      /\ snap' = snap /\ acked' = acked /\ harm' = harm
  BY DEF Crash
<1>2. TypeOK /\ Contents /\ WholeOrNothing /\ WholeOnceAcked
  BY DEF IInv
<1>3. CASE Saving
  <2>1. PICK n \in 0 .. Len(buf) : file' = SubSeq(buf, 1, n)
    BY <1>3 DEF Crash
  <2>2. ~ acked /\ Saved(buf, snap, todo) /\ IsSnap(snap) /\ buf \in Seq(Token) /\ todo \in SUBSET DOMAIN snap
    BY <1>2, <1>3 DEF IInv, Contents, TypeOK
  <2> DEFINE f == SubSeq(buf, 1, n)
  <2>3. f \in Seq(Token)
    BY <2>2, PrefixIs
  <2>4. Whole(snap) \/ Alone(snap) => loadFromFile(f) = Empty
    BY <2>2, SaveCut
  <2>5. file' = f
    BY <2>1
  <2> HIDE DEF f
  <2>6. FileOK(file', snap) /\ file' \in Seq(Token)
    BY <2>3, <2>4, <2>5 DEF FileOK
  <2>7. acked' = FALSE /\ harm' \subseteq {"full disk", "interrupted"}
    BY <1>1, <1>2, <2>2 DEF TypeOK
  <2> QED BY <1>1, <1>3, <2>6, <2>7, SaveOver
<1>4. CASE ~ Saving
  <2>1. file' = file
    BY <1>4 DEF Crash
  <2>2. ~ Saving'
    BY <1>1 DEF Saving
  <2>3. TypeOK'
    BY <1>1, <1>2, <2>2 DEF TypeOK
  <2>4. Contents'
    BY <1>1, <1>2, <2>1, NoTokens DEF Contents
  <2>5. WholeOrNothing' /\ WholeOnceAcked'
    BY <1>1, <1>2, <1>4, <2>1, <2>2 DEF WholeOrNothing, WholeOnceAcked
  <2> QED BY <2>2, <2>3, <2>4, <2>5 DEF IInv
<1> QED BY <1>3, <1>4

LEMMA RestartKeeps ==
    ASSUME IInv, Restart
    PROVE  IInv'
<1>1. /\ proc = "down" /\ proc' = "running" /\ data' = loadFromFile(file)
      /\ file' = file /\ buf' = buf /\ todo' = todo /\ snap' = snap /\ acked' = acked /\ harm' = harm
  BY DEF Restart
<1>2. TypeOK /\ Contents /\ WholeOrNothing /\ WholeOnceAcked
  BY DEF IInv
<1>3. ~ Saving /\ ~ Saving'
  BY <1>1 DEF Saving
<1>4. data' = Unknown \/ IsDb(data')
  BY <1>1, <1>2, LoadSound DEF Contents
<1>5. TypeOK'
  BY <1>1, <1>2, <1>3 DEF TypeOK
<1>6. Contents'
  BY <1>1, <1>2, <1>4 DEF Contents
<1>7. WholeOrNothing' /\ WholeOnceAcked'
  BY <1>1, <1>2, <1>3 DEF WholeOrNothing, WholeOnceAcked
<1> QED BY <1>3, <1>5, <1>6, <1>7 DEF IInv

LEMMA StutterKeeps ==
    ASSUME IInv, UNCHANGED vars
    PROVE  IInv'
<1>1. /\ data' = data /\ proc' = proc /\ file' = file /\ buf' = buf /\ todo' = todo
      /\ snap' = snap /\ acked' = acked /\ harm' = harm
  BY DEF vars
<1>2. Saving' <=> Saving
  BY <1>1 DEF Saving
<1>3. TypeOK' /\ Contents'
  BY <1>1, <1>2 DEF IInv, TypeOK, Contents
<1>4. WholeOrNothing' /\ WholeOnceAcked'
  BY <1>1, <1>2 DEF IInv, WholeOrNothing, WholeOnceAcked
<1> QED BY <1>1, <1>2, <1>3, <1>4 DEF IInv

LEMMA StepIInv == IInv /\ [Next]_vars => IInv'
<1> SUFFICES ASSUME IInv, [Next]_vars PROVE IInv'
  OBVIOUS
<1>1. /\ DbKey \subseteq Key /\ Field \subseteq Key /\ Value \subseteq Key /\ HashKey \subseteq Key
  BY PersistenceAssumption
<1>2. ASSUME NEW k \in DbKey, NEW v \in Value, Set(k, v) PROVE IInv'
  <2>1. Execute(set(data, k, v)) /\ data # Unknown
    BY <1>2 DEF Set, Execute
  <2>2. IsDb(data) => IsDb(set(data, k, v))
    BY <1>1, WritesKeepDb
  <2> QED BY <2>1, <2>2, CommandKeeps
<1>3. ASSUME NEW k \in HashKey, NEW f \in Field, NEW v \in Value, HSet(k, f, v) PROVE IInv'
  <2>1. Execute(hset(data, k, f, v)) /\ data # Unknown
    BY <1>3 DEF HSet
  <2>2. IsDb(data) => IsDb(hset(data, k, f, v))
    BY <1>1, WritesKeepDb
  <2> QED BY <2>1, <2>2, CommandKeeps
<1>4. ASSUME NEW k \in DbKey, Del(k) PROVE IInv'
  <2>1. Execute(del(data, <<k>>)) /\ data # Unknown
    BY <1>4 DEF Del
  <2>2. IsDb(data) => IsDb(del(data, <<k>>))
    BY WritesKeepDb
  <2> QED BY <2>1, <2>2, CommandKeeps
<1>5. Contents /\ (Saving => data = snap) /\ harm \subseteq {"full disk", "interrupted"}
  BY DEF IInv, TypeOK
<1>6. ASSUME NEW k \in DbKey, NEW f \in Field, NEW v \in Value, SignalInWrite(k, f, v) PROVE IInv'
  <2>1. PICK db \in Torn(k, f, v) : BeginSave(db, {"interrupted"})
    BY <1>6 DEF SignalInWrite
  <2>2. proc' = "exiting" /\ IsDb(data)
    BY <1>5, <1>6 DEF SignalInWrite, Contents
  <2>3. IsSnap(db)
    BY <1>1, <2>2, TornFound
  <2> QED BY <2>1, <2>2, <2>3, SaveStarts
<1>7. ASSUME Save PROVE IInv'
  <2>1. BeginSave(data, {}) /\ proc' = "saving" /\ proc = "running" /\ data # Unknown
    BY <1>7 DEF Save, BeginSave
  <2>2. IsDb(data) /\ IsSnap(data)
    BY <1>5, <2>1, DbIsSnap DEF Contents
  <2> QED BY <2>1, <2>2, SaveStarts
<1>8. ASSUME Signal PROVE IInv'
  <2>1. /\ proc \in {"running", "saving", "exiting"} /\ proc' \in {"exiting", "nested"}
        /\ BeginSave(data, IF proc = "exiting" THEN harm ELSE {}) /\ data # Unknown
    BY <1>8 DEF Signal, BeginSave
  <2>2. IsSnap(data)
    <3>1. proc \in {"running", "saving"} => IsSnap(data)
      BY <1>5, <2>1, DbIsSnap DEF Contents
    <3>2. proc = "exiting" => IsSnap(data)
      BY <1>5 DEF Contents, Saving
    <3> QED BY <2>1, <3>1, <3>2
  <2> DEFINE h == IF proc = "exiting" THEN harm ELSE {}
  <2>3. h \subseteq {"full disk", "interrupted"} /\ BeginSave(data, h)
    BY <1>5, <2>1
  <2> HIDE DEF h
  <2> QED BY <2>1, <2>2, <2>3, SaveStarts
<1> QED BY <1>2, <1>3, <1>4, <1>6, <1>7, <1>8, WriteKeeps, FailKeeps, EndKeeps, EndShortKeeps,
            CrashKeeps, RestartKeeps, StutterKeeps DEF Next

LEMMA Invariance == Spec => []IInv
BY InitIInv, StepIInv, PTL DEF Spec

-----------------------------------------------------------------------------
(* Storing the pairs of a hash again. *)

\* The first m pairs of E give the field f the value v.
SaysUpTo(E, m, f, v) ==
    \/ \E i \in 1 .. m : E[i].key = f /\ E[i].value = v
    \/ v = NoValue /\ \A i \in 1 .. m : E[i].key # f

Says(E, f, v) == SaysUpTo(E, Len(E), f, v)

LEMMA SaysOne ==
    ASSUME NEW E, H!Fields(E), NEW f, NEW v, NEW w, Says(E, f, v), Says(E, f, w)
    PROVE  v = w
BY DEF Says, SaysUpTo, H!Fields

LEMMA ListOfSet ==
    ASSUME NEW S, IsFiniteSet(S), NEW z, z = SetToSeq(S)
    PROVE  z \in Seq(S) /\ Len(z) = Cardinality(S) /\ \A e \in S : \E i \in 1 .. Len(z) : z[i] = e
<1> USE SetListed
<1>1. SetToSeq(S) \in Seq(S) /\ Len(SetToSeq(S)) = Cardinality(S)
  OBVIOUS
<1>2. \A e \in S : \E i \in 1 .. Len(SetToSeq(S)) : SetToSeq(S)[i] = e
  OBVIOUS
<1> QED BY <1>1, <1>2

\* The pairs of a table, when the count is that of its keys.
LEMMA PairsOfTable ==
    ASSUME NEW d, IsTidy(d),
           NEW A, A = HT!Nodes(d.ht0), NEW B, B = HT!Nodes(d.ht1),
           d.used = Cardinality(A) + Cardinality(B),
           d.used = Cardinality({e.key : e \in A \cup B}),
           NEW E, E = SetToSeq(A) \o SetToSeq(B)
    PROVE  /\ H!Fields(E) /\ Len(E) = d.used
           /\ \A f \in Key : Says(E, f, HT!get_field(d, f))
<1>1. /\ IsFiniteSet(A) /\ IsFiniteSet(B) /\ d.used \in Nat
      /\ A \subseteq H!P!Entry /\ B \subseteq H!P!Entry
  <2>1. IsNeat(d.ht0) /\ IsNeat(d.ht1) /\ d.used \in Nat
    BY DEF IsTidy, H!P!IsDict
  <2>2. ASSUME NEW h, IsNeat(h)
        PROVE  IsFiniteSet(HT!Nodes(h)) /\ HT!Nodes(h) \subseteq H!P!Entry
    <3>1. IsFiniteSet(HT!Nodes(h)) /\ h.bucket \in [0 .. h.size - 1 -> SUBSET H!P!Entry]
      BY <2>2 DEF IsNeat, H!P!IsTable
    <3> QED BY <3>1 DEF HT!Nodes
  <2> QED BY <2>1, <2>2
<1>0. PICK Y, Z : Y = SetToSeq(A) /\ Z = SetToSeq(B)
  OBVIOUS
<1>2. /\ Y \in Seq(A) /\ Len(Y) = Cardinality(A) /\ \A e \in A : \E i \in 1 .. Len(Y) : Y[i] = e
      /\ Z \in Seq(B) /\ Len(Z) = Cardinality(B) /\ \A e \in B : \E i \in 1 .. Len(Z) : Z[i] = e
  <2>1. Y \in Seq(A) /\ Len(Y) = Cardinality(A) /\ \A e \in A : \E i \in 1 .. Len(Y) : Y[i] = e
    <3>1. IsFiniteSet(A) /\ Y = SetToSeq(A)
      BY <1>0, <1>1
    <3> QED BY ONLY <3>1, ListOfSet
  <2>2. Z \in Seq(B) /\ Len(Z) = Cardinality(B) /\ \A e \in B : \E i \in 1 .. Len(Z) : Z[i] = e
    <3>1. IsFiniteSet(B) /\ Z = SetToSeq(B)
      BY <1>0, <1>1
    <3> QED BY ONLY <3>1, ListOfSet
  <2> QED BY <2>1, <2>2
<1> DEFINE n == d.used
           K == {e.key : e \in A \cup B}
<1>3. E = Y \o Z /\ Y \in Seq(A \cup B) /\ Z \in Seq(A \cup B) /\ Len(Y) \in Nat /\ Len(Z) \in Nat
  BY <1>0, <1>2
<1>4. /\ E \in Seq(A \cup B) /\ Len(E) = n
      /\ \A i \in 1 .. n : E[i] = IF i <= Len(Y) THEN Y[i] ELSE Z[i - Len(Y)]
  <2>1. /\ E \in Seq(A \cup B) /\ Len(E) = Len(Y) + Len(Z)
        /\ \A i \in 1 .. Len(Y) + Len(Z) : E[i] = IF i <= Len(Y) THEN Y[i] ELSE Z[i - Len(Y)]
    BY <1>3, ConcatProperties
  <2> QED BY <1>2, <2>1
<1>5. \A e \in A \cup B : \E i \in 1 .. n : E[i] = e
  <2> SUFFICES ASSUME NEW e \in A \cup B PROVE \E i \in 1 .. n : E[i] = e
    OBVIOUS
  <2>0. n = Len(Y) + Len(Z)
    BY <1>2
  <2>1. CASE e \in A
    <3>1. PICK i \in 1 .. Len(Y) : Y[i] = e
      BY <1>2, <2>1
    <3>2. i \in 1 .. n /\ i <= Len(Y)
      BY <1>3, <2>0
    <3> QED BY <1>4, <3>1, <3>2
  <2>2. CASE e \in B
    <3>1. PICK i \in 1 .. Len(Z) : Z[i] = e
      BY <1>2, <2>2
    <3>2. i + Len(Y) \in 1 .. n /\ ~ (i + Len(Y) <= Len(Y)) /\ (i + Len(Y)) - Len(Y) = i
      BY <1>3, <2>0
    <3> QED BY <1>4, <3>1, <3>2
  <2> QED BY <2>1, <2>2
<1>6. \A i \in 1 .. n : E[i] \in A \cup B
  BY <1>4, ElementOfSeq
<1>7. H!Fields(E)
  <2> DEFINE g == [i \in 1 .. n |-> E[i].key]
  <2>1. g \in Surjection(1 .. n, K)
    <3>1. \A i \in 1 .. n : E[i].key \in K
      BY <1>6
    <3>2. ASSUME NEW k \in K PROVE \E i \in 1 .. n : E[i].key = k
      <4>1. PICK e \in A \cup B : e.key = k
        OBVIOUS
      <4>2. PICK i \in 1 .. n : E[i] = e
        BY <1>5
      <4> QED BY <4>1, <4>2
    <3> QED BY <3>1, <3>2 DEF Surjection
  <2>2. IsFiniteSet(1 .. n) /\ Cardinality(1 .. n) = n
    BY <1>1, OneTo
  <2>3. Cardinality(1 .. n) = Cardinality(K)
    BY <2>2
  <2> HIDE DEF g, K
  <2>4. g \in Injection(1 .. n, K)
    BY <2>1, <2>2, <2>3, FS_SurjSameCardinalityImpliesInj
  <2>5. \A i, j \in 1 .. n : g[i] = g[j] => i = j
    BY <2>4 DEF Injection, IsInjective
  <2>6. \A i \in 1 .. n : g[i] = E[i].key
    BY DEF g
  <2> QED BY <1>4, <2>5, <2>6 DEF H!Fields
<1>8. ASSUME NEW f \in Key PROVE Says(E, f, HT!get_field(d, f))
  <2> DEFINE F0 == HT!Found(d.ht0, f)
             F1 == HT!Found(d.ht1, f)
  <2>1. /\ d.ht0.size \in Nat \ {0}
        /\ d.ht1.size \in Nat /\ (HT!is_rehashing(d) <=> d.ht1.size # 0)
        /\ \A h : H!P!Slot(h, f) = HT!Slot(h, f)
    BY DEF IsTidy, H!P!IsDict, H!P!IsTable, H!P!is_rehashing, HT!is_rehashing, H!P!Slot, HT!Slot
  <2>2. /\ HT!Slot(d.ht0, f) \in 0 .. d.ht0.size - 1
        /\ HT!is_rehashing(d) => HT!Slot(d.ht1, f) \in 0 .. d.ht1.size - 1
    <3>1. Hash[f] \in Nat
      BY HashObjectAssumption DEF HT!DictAssumption
    <3> QED BY <2>1, <3>1, SMTT(30) DEF HT!Slot
  <2>3. /\ F0 \subseteq A /\ \A e \in F0 : e.key = f
        /\ HT!is_rehashing(d) => F1 \subseteq B /\ \A e \in F1 : e.key = f
    BY <2>2 DEF HT!Found, HT!Nodes
  <2>4. /\ \A e \in A : e.key = f => e \in F0
        /\ \A e \in B : e.key = f => HT!is_rehashing(d) /\ e \in F1
    <3>1. H!P!AtHome(d.ht0) /\ H!P!AtHome(d.ht1)
      BY DEF IsTidy, IsNeat
    <3>2. ASSUME NEW e \in A, e.key = f PROVE e \in F0
      <4>1. PICK i \in 0 .. d.ht0.size - 1 : e \in d.ht0.bucket[i]
        BY DEF HT!Nodes
      <4>2. H!P!Slot(d.ht0, e.key) = i
        BY <3>1, <4>1 DEF H!P!AtHome
      <4> QED BY <2>1, <3>2, <4>1, <4>2 DEF HT!Found
    <3>3. ASSUME NEW e \in B, e.key = f PROVE HT!is_rehashing(d) /\ e \in F1
      <4>1. PICK i \in 0 .. d.ht1.size - 1 : e \in d.ht1.bucket[i]
        BY DEF HT!Nodes
      <4>2. H!P!Slot(d.ht1, e.key) = i
        BY <3>1, <4>1 DEF H!P!AtHome
      <4>3. d.ht1.size # 0
        BY <2>1
      <4> QED BY <2>1, <3>3, <4>1, <4>2, <4>3 DEF HT!Found
    <3> QED BY <3>2, <3>3
  <2>5. ASSUME NEW S, S \subseteq A \cup B, \A e \in S : e.key = f, S # {}
        PROVE  Says(E, f, HT!ValueIn(S))
    <3>1. PICK e \in S : HT!ValueIn(S) = e.value
      BY <2>5 DEF HT!ValueIn
    <3>2. PICK i \in 1 .. n : E[i] = e
      BY <1>5, <2>5
    <3> QED BY <1>4, <2>5, <3>1, <3>2 DEF Says, SaysUpTo
  <2> HIDE DEF F0, F1
  <2>6. CASE F0 # {}
    <3>1. HT!get_field(d, f) = HT!ValueIn(F0)
      BY <2>6 DEF HT!get_field, F0
    <3> QED BY <2>3, <2>5, <2>6, <3>1
  <2>7. CASE F0 = {} /\ HT!is_rehashing(d) /\ F1 # {}
    <3>1. HT!get_field(d, f) = HT!ValueIn(F1)
      BY <2>7 DEF HT!get_field, F0, F1
    <3> QED BY <2>3, <2>5, <2>7, <3>1
  <2>8. CASE F0 = {} /\ ~ (HT!is_rehashing(d) /\ F1 # {})
    <3>1. HT!get_field(d, f) = NoValue
      BY <2>8 DEF HT!get_field, HT!ValueIn, F0, F1
    <3>2. \A e \in A \cup B : e.key # f
      BY <2>4, <2>8
    <3> QED BY <1>4, <1>6, <3>1, <3>2 DEF Says, SaysUpTo
  <2> QED BY <2>6, <2>7, <2>8
<1> QED BY <1>4, <1>7, <1>8

\* The pairs of a hash in either encoding.
LEMMA HashPairs ==
    ASSUME NEW x, IsMap(x) \/ IsTable(x), NEW o, o = x.hash, NEW E, E = get_all_fields(o),
           o.encoding = "HASHTABLE" =>
              /\ o.dict.used = HT!get_all_length(o.dict)
              /\ o.dict.used = Cardinality({e.key : e \in Pairs(o.dict)})
    PROVE  /\ E \in Seq(H!P!Entry) /\ H!Fields(E) /\ Len(E) = size(o)
           /\ \A f \in Key : Says(E, f, get_field(o, f))
<1>1. /\ E \in Seq(H!P!Entry) /\ o.encoding \in {"ZIPLIST", "HASHTABLE"}
      /\ o.encoding = "ZIPLIST" => E = o.ziplist /\ Len(E) = size(o)
      /\ o.encoding = "HASHTABLE" => IsTidy(o.dict) /\ size(o) = o.dict.used
  BY FieldsListed
<1>2. CASE o.encoding = "ZIPLIST"
  <2>1. H!IsZiplist(E)
    BY <1>1, <1>2 DEF IsMap, IsTable, H!IsObject, H!IsHash
  <2>2. \A f : get_field(o, f) = H!ValueOf(E, f)
    BY <1>1, <1>2, ObjectSame DEF H!get_field, H!ValueOf
  <2>3. \A f : Says(E, f, H!ValueOf(E, f))
    BY <2>1, Assumed, H!ValueThere DEF Says, SaysUpTo
  <2> QED BY <1>1, <1>2, <2>1, <2>2, <2>3 DEF H!IsZiplist
<1>3. CASE o.encoding = "HASHTABLE"
  <2> DEFINE d == o.dict
             A == HT!Nodes(d.ht0)
             B == HT!Nodes(d.ht1)
  <2>1. E = SetToSeq(A) \o SetToSeq(B) /\ Pairs(d) = A \cup B
    BY <1>3 DEF get_all_fields, Pairs
  <2>2. HT!get_all_length(d) = Cardinality(A) + Cardinality(B)
    BY DEF HT!get_all_length, HT!Cardinality, Cardinality
  <2>3. \A f : get_field(o, f) = HT!get_field(d, f)
    BY <1>3 DEF get_field
  <2> HIDE DEF A, B
  <2>4. d.used = Cardinality(A) + Cardinality(B) /\ d.used = Cardinality({e.key : e \in A \cup B})
    BY <1>3, <2>1, <2>2
  <2>5. IsTidy(d) /\ A = HT!Nodes(d.ht0) /\ B = HT!Nodes(d.ht1)
    BY <1>1, <1>3 DEF A, B
  <2> HIDE DEF d
  <2>6. /\ H!Fields(E) /\ Len(E) = d.used
        /\ \A f \in Key : Says(E, f, HT!get_field(d, f))
    BY <2>1, <2>4, <2>5, PairsOfTable
  <2> QED BY <1>1, <1>3, <2>3, <2>6 DEF d
<1> QED BY <1>1, <1>2, <1>3

\* Pairs that fit into a ziplist make that ziplist.
LEMMA ListRefills ==
    ASSUME NEW E \in Seq(H!P!Entry), H!Fields(E), should_use_ziplist(E), NEW f
    PROVE  Says(E, f, get_field(Fold("field", NewObject, E), f))
<1> DEFINE n == Len(E)
           Listed(m) == [encoding |-> "ZIPLIST", ziplist |-> SubSeq(E, 1, m), dict |-> HT!NewDict]
<1>1. PICK run : IsRun("field", NewObject, E, run) /\ Fold("field", NewObject, E) = run[n]
  BY FoldRuns
<1>2. n \in Nat /\ DOMAIN E = 1 .. n /\ n < ZIPLIST_MAX_ENTRIES
  BY DEF should_use_ziplist
<1>3. ASSUME NEW m \in 0 .. n
      PROVE  LET zl == SubSeq(E, 1, m)
             IN zl \in Seq(H!P!Entry) /\ Len(zl) = m /\ \A j \in 1 .. m : zl[j] = E[j]
  OBVIOUS
<1>4. \A j \in 1 .. n : {E[j].key, E[j].value} \cap Large = {} /\ E[j] = Pair(E[j].key, E[j].value)
  <2>1. \A j \in 1 .. n : E[j] \in H!P!Entry
    BY ElementOfSeq
  <2> QED BY <1>2, <2>1 DEF should_use_ziplist, H!P!Entry, Pair
<1>5. H!D!Entry = H!P!Entry
  BY DEF H!D!Entry, H!P!Entry
<1>6. \A zl, g : find_in_ziplist(zl, g) = H!find_in_ziplist(zl, g)
  BY DEF find_in_ziplist, H!find_in_ziplist, SelectInSeq, H!SelectInSeq, Min, H!Min
<1>7. run[0] = Listed(0)
  <2>1. SubSeq(E, 1, 0) = <<>>
    BY <1>3
  <2> QED BY <1>1, <2>1 DEF IsRun, NewObject
<1>8. ASSUME NEW m \in 1 .. n, run[m - 1] = Listed(m - 1) PROVE run[m] = Listed(m)
  <2> DEFINE o == Listed(m - 1)
             zl == SubSeq(E, 1, m - 1)
             g == E[m].key
             v == E[m].value
             new == Append(zl, Pair(g, v))
  <2>1. run[m] = set_field(o, g, v)
    BY <1>1, <1>8 DEF IsRun, Step
  <2>2. /\ m - 1 \in 0 .. n /\ m \in 0 .. n /\ m \in 1 .. n
        /\ \A j \in 1 .. m - 1 : j \in 1 .. n /\ j # m
    BY <1>2
  <2>3. zl \in Seq(H!P!Entry) /\ Len(zl) = m - 1 /\ \A j \in 1 .. m - 1 : zl[j] = E[j]
    BY <1>3, <2>2
  <2>4. \A j \in 1 .. m - 1 : zl[j].key # g
    BY <2>2, <2>3 DEF H!Fields
  <2> HIDE DEF zl, g, v
  <2>5. find_in_ziplist(zl, g) = 0
    BY <1>5, <1>6, <2>3, <2>4, Assumed, H!Find
  <2>6. new = SubSeq(E, 1, m)
    <3>1. Pair(g, v) = E[m] /\ Pair(g, v) \in H!P!Entry
      BY <1>4, <2>2, ElementOfSeq DEF g, v
    <3>2. /\ new \in Seq(H!P!Entry) /\ Len(new) = m
          /\ \A j \in 1 .. m : new[j] = E[j]
      <4>1. new \in Seq(H!P!Entry) /\ Len(new) = Len(zl) + 1
            /\ new[Len(zl) + 1] = Pair(g, v) /\ \A j \in 1 .. Len(zl) : new[j] = zl[j]
        BY <2>3, <3>1
      <4> HIDE DEF new
      <4> QED BY <2>3, <3>1, <4>1
    <3>3. /\ SubSeq(E, 1, m) \in Seq(H!P!Entry) /\ Len(SubSeq(E, 1, m)) = m
          /\ \A j \in 1 .. m : SubSeq(E, 1, m)[j] = E[j]
      BY <1>3, <2>2
    <3> HIDE DEF new
    <3> QED BY <3>2, <3>3, SeqEqual
  <2> HIDE DEF new
  <2>7. should_use_ziplist(new)
    <3>1. Len(new) = m /\ DOMAIN new = 1 .. m /\ \A j \in 1 .. m : new[j] = E[j]
      BY <1>3, <2>2, <2>6
    <3>2. m < ZIPLIST_MAX_ENTRIES
      BY <1>2, HashObjectAssumption
    <3> QED BY <1>4, <3>1, <3>2 DEF should_use_ziplist
  <2>8. {g, v} \cap Large = {}
    BY <1>4 DEF g, v
  <2>9. /\ o.encoding = "ZIPLIST" /\ o.ziplist = zl
        /\ [o EXCEPT !.ziplist = new] = Listed(m)
    <3>1. o = [encoding |-> "ZIPLIST", ziplist |-> zl, dict |-> HT!NewDict]
      BY DEF zl
    <3>2. Listed(m) = [encoding |-> "ZIPLIST", ziplist |-> new, dict |-> HT!NewDict]
      BY <2>6
    <3> HIDE DEF o, Listed
    <3> QED BY <3>1, <3>2
  <2>10. [o EXCEPT !.ziplist = Append(@, Pair(g, v))] = [o EXCEPT !.ziplist = new]
    BY <2>9 DEF new
  <2> DEFINE longer == [o EXCEPT !.ziplist = new]
  <2>11. longer.ziplist = new
    BY <2>6
  <2> HIDE DEF o, Listed
  <2>12. StoreInZiplist(o, g, v) = longer
    BY <2>5, <2>7, <2>9, <2>10, <2>11 DEF StoreInZiplist
  <2>13. set_field(o, g, v) = longer
    BY <2>8, <2>9, <2>12 DEF set_field
  <2> QED BY <2>1, <2>9, <2>13
<1> HIDE DEF Listed
<1>9. run[n] = Listed(n)
  <2> DEFINE G == {m \in 0 .. n : run[m] = Listed(m)}
  <2>1. 0 \in G
    BY <1>2, <1>7
  <2>2. ASSUME NEW m \in 1 .. n, m - 1 \in G PROVE m \in G
    BY <1>2, <1>8, <2>2
  <2> HIDE DEF G
  <2>3. 0 .. n \subseteq G
    BY <1>2, <2>1, <2>2, UpTo
  <2>4. n \in G
    BY <1>2, <2>3
  <2> QED BY <2>4 DEF G
<1>10. SubSeq(E, 1, n) = E
  BY <1>2
<1>11. Listed(n).encoding = "ZIPLIST" /\ Listed(n).ziplist = E
  BY <1>10 DEF Listed
<1>12. get_field(run[n], f) = H!ValueOf(E, f)
  BY <1>6, <1>9, <1>11 DEF get_field, H!ValueOf
<1>13. Says(E, f, H!ValueOf(E, f))
  <2>1. H!IsZiplist(E)
    BY <1>5 DEF H!IsZiplist
  <2> QED BY <2>1, Assumed, H!ValueThere DEF Says, SaysUpTo
<1> QED BY <1>1, <1>12, <1>13

(* What is read of a hash is among the pairs it stores.  *)
LEMMA ReadIsStored ==
    ASSUME NEW o, H!IsObject(o), NEW f \in Key, get_field(o, f) # NoValue
    PROVE  \E e \in H!Stored(o) : e.key = f
<1>1. H!get_field(o, f) # NoValue
  BY ObjectSame
<1>2. CASE o.encoding = "ZIPLIST"
  <2>1. o.ziplist \in Seq(H!D!Entry)
    BY <1>2 DEF H!IsObject, H!IsHash, H!IsZiplist
  <2>2. H!find_in_ziplist(o.ziplist, f) # 0
    BY <1>1, <1>2 DEF H!get_field
  <2>3. PICK i \in 1 .. Len(o.ziplist) : o.ziplist[i].key = f
    BY <2>1, <2>2, Assumed, H!Find
  <2>4. o.ziplist[i] \in H!ToSet(o.ziplist)
    BY <2>1, <2>3 DEF H!ToSet
  <2> QED BY <1>2, <2>3, <2>4 DEF H!Stored
<1>3. CASE o.encoding = "HASHTABLE"
  <2>1. H!HT!get_field(o.dict, f) # NoValue
    BY <1>1, <1>3 DEF H!get_field
  <2>2. H!P!Sound(o.dict)
    BY DEF H!IsObject, H!IsTabled
  <2>3. \E e \in H!P!Nodes(o.dict.ht0) \cup H!P!Nodes(o.dict.ht1) : e.key = f
    BY <2>1, <2>2, Assumed, H!ReadableInNodes
  <2>4. \A h : H!P!Nodes(h) = H!HT!Nodes(h)
    BY DEF H!P!Nodes, H!HT!Nodes
  <2> QED BY <1>3, <2>3, <2>4 DEF H!Stored
<1> QED BY <1>2, <1>3 DEF H!IsObject, H!IsHash

\* Pairs that are few never make a table grow.
LEMMA FewRefill ==
    ASSUME NEW E \in Seq(H!P!Entry), H!Fields(E), Len(E) < INIT_HT_SIZE, NEW f \in Key
    PROVE  Says(E, f, get_field(Fold("field", NewObject, E), f))
<1> DEFINE n == Len(E)
           F == {E[i].key : i \in 1 .. n}
<1>1. PICK run : IsRun("field", NewObject, E, run) /\ Fold("field", NewObject, E) = run[n]
  BY FoldRuns
<1>2. n \in Nat /\ n < INIT_HT_SIZE /\ INIT_HT_SIZE \in Nat
  BY HashObjectAssumption DEF HT!DictAssumption
<1>3. \A i \in 1 .. n : /\ E[i].key \in Key /\ E[i].value \in Key
                        /\ E[i] = H!Pair(E[i].key, E[i].value)
  <2>1. \A i \in 1 .. n : E[i] \in H!P!Entry
    BY ElementOfSeq
  <2> QED BY <2>1 DEF H!P!Entry, H!Pair
<1>4. H!IsFew(F)
  <2> DEFINE g == [i \in 1 .. n |-> E[i].key]
  <2>1. g \in Surjection(1 .. n, F)
    BY DEF Surjection
  <2> HIDE DEF g
  <2>2. IsFiniteSet(1 .. n) /\ Cardinality(1 .. n) = n
    <3> HIDE DEF n, F
    <3> QED BY <1>2, OneTo
  <2>3. IsFiniteSet(F) /\ Cardinality(F) <= n
    BY <2>1, <2>2, FS_Surjection
  <2>4. F \subseteq Key
    BY <1>3
  <2> HIDE DEF F
  <2>5. Cardinality(F) \in Nat
    BY <2>3, FS_CardinalityType
  <2>6. Cardinality(F) < INIT_HT_SIZE
    BY <1>2, <2>3, <2>5
  <2>7. \A S : (H!IsFiniteSet(S) <=> IsFiniteSet(S)) /\ H!Cardinality(S) = Cardinality(S)
    BY DEF H!IsFiniteSet, IsFiniteSet, H!Cardinality, Cardinality
  <2> QED BY <2>3, <2>4, <2>6, <2>7 DEF H!IsFew
<1>5. \A i \in 1 .. n : E[i].key \in F
  OBVIOUS
<1>6. \A g : g \notin F => \A i \in 1 .. n : E[i].key # g
  OBVIOUS
<1> HIDE DEF F, n
<1> DEFINE Good(m) == /\ H!IsFlat(run[m], F)
                      /\ \A g \in F : SaysUpTo(E, m, g, get_field(run[m], g))
                      /\ H!Stored(run[m]) \subseteq {E[i] : i \in 1 .. m}
<1>7. Good(0)
  <2>1. run[0] = H!NewObject
    BY <1>1, ObjectSame DEF IsRun
  <2>2. H!IsFlat(run[0], F) /\ \A g \in F : H!get_field(run[0], g) = NoValue
    BY <1>4, <2>1, Assumed, H!FlatNew
  <2>3. H!Stored(run[0]) = {}
    BY <2>1 DEF H!Stored, H!NewObject, H!ToSet
  <2> QED BY <2>2, <2>3, ObjectSame DEF SaysUpTo
<1>8. ASSUME NEW m \in 1 .. n, Good(m - 1) PROVE Good(m)
  <2> DEFINE g == E[m].key
             v == E[m].value
             o == run[m - 1]
             p == run[m]
  <2>1. p = set_field(o, g, v)
    BY <1>1 DEF IsRun, Step, n
  <2>2. p = H!set_field(o, g, v) /\ g \in F /\ g \in Key /\ v \in Key
    BY <1>3, <1>5, <2>1, ObjectSame
  <2>3. H!IsFlat(o, F) /\ H!IsObject(o) /\ H!Stored(o) \subseteq {E[i] : i \in 1 .. m - 1}
        /\ \A h \in F : SaysUpTo(E, m - 1, h, get_field(o, h))
    BY <1>8 DEF H!IsFlat
  <2>4. H!Pair(g, v) = E[m]
    BY <1>3
  <2>5. 1 .. m = (1 .. m - 1) \cup {m}
    BY <1>2
  <2> HIDE DEF g, v, o, p
  <2>6. /\ H!IsFlat(p, F)
        /\ \A h \in F : H!get_field(p, h) = IF h = g THEN v ELSE H!get_field(o, h)
    BY <1>4, <2>2, <2>3, Assumed, H!FlatSet
  <2>7. H!Stored(p) \subseteq H!Stored(o) \cup {H!Pair(g, v)}
    BY <2>2, <2>3, Assumed, H!SetKeeps
  <2>8. H!Stored(p) \subseteq {E[i] : i \in 1 .. m}
    BY <2>3, <2>4, <2>5, <2>7
  <2>9. ASSUME NEW h \in F PROVE SaysUpTo(E, m, h, get_field(p, h))
    <3>1. get_field(p, h) = IF h = g THEN v ELSE get_field(o, h)
      BY <2>6, ObjectSame
    <3>2. CASE h = g
      <4>1. m \in 1 .. m /\ E[m].key = h /\ E[m].value = get_field(p, h)
        BY <2>5, <3>1, <3>2 DEF g, v
      <4> QED BY <4>1 DEF SaysUpTo
    <3>3. CASE h # g
      <4>1. SaysUpTo(E, m - 1, h, get_field(p, h))
        BY <2>3, <3>1, <3>3
      <4> QED BY <2>5, <3>3, <4>1 DEF SaysUpTo, g
    <3> QED BY <3>2, <3>3
  <2> QED BY <2>6, <2>8, <2>9 DEF p
<1> HIDE DEF Good
<1>9. Good(n)
  <2> DEFINE G == {m \in 0 .. n : Good(m)}
  <2>1. 0 \in G
    BY <1>2, <1>7
  <2>2. ASSUME NEW m \in 1 .. n, m - 1 \in G PROVE m \in G
    BY <1>2, <1>8, <2>2
  <2> HIDE DEF G
  <2>3. 0 .. n \subseteq G
    BY <1>2, <2>1, <2>2, UpTo
  <2>4. n \in G
    BY <1>2, <2>3
  <2> QED BY <2>4 DEF G
<1>10. /\ H!IsObject(run[n]) /\ H!Stored(run[n]) \subseteq {E[i] : i \in 1 .. n}
       /\ \A g \in F : SaysUpTo(E, n, g, get_field(run[n], g))
  BY <1>9 DEF Good, H!IsFlat
<1>11. CASE f \in F
  BY <1>1, <1>10, <1>11 DEF Says, n
<1>12. CASE f \notin F
  <2>1. \A i \in 1 .. n : E[i].key # f
    BY <1>6, <1>12
  <2>2. get_field(run[n], f) = NoValue
    BY <1>10, <2>1, ReadIsStored
  <2> QED BY <1>1, <2>1, <2>2 DEF Says, SaysUpTo, n
<1> QED BY <1>11, <1>12

LEMMA SmallRefill ==
    ASSUME NEW db, IsSnap(db), Exact(db), Small(db)
    PROVE  Refills(db)
<1> SUFFICES ASSUME NEW o \in Hashes(db), NEW f \in Field
             PROVE  get_field(Refilled(o), f) = get_field(o, f)
  BY DEF Refills
<1>1. PICK k \in DOMAIN db : db[k].type = "HASH" /\ db[k].hash.encoding # "TORN" /\ o = db[k].hash
  BY DEF Hashes
<1> DEFINE x == db[k]
           E == get_all_fields(o)
<1>2. IsMap(x) \/ IsTable(x)
  <2>1. IsFound(x)
    BY DEF IsSnap
  <2>2. ~ IsText(x) /\ x # Null
    BY <1>1 DEF IsText, StringObject, Null
  <2>3. x # Broken
    <3>1. Broken.hash.encoding = "TORN"
      BY DEF Broken, NewObject
    <3> QED BY <1>1, <3>1
  <2> QED BY <2>1, <2>2, <2>3 DEF IsFound
<1>3. o.encoding = "HASHTABLE" => o.dict \in Tables(db)
  BY <1>1 DEF Tables
<1>4. o.encoding = "HASHTABLE" =>
         /\ o.dict.used = HT!get_all_length(o.dict)
         /\ o.dict.used = Cardinality({e.key : e \in Pairs(o.dict)})
  BY <1>3 DEF Exact, Counted
<1>5. f \in Key
  BY PersistenceAssumption
<1> HIDE DEF x, E
<1>6. /\ E \in Seq(H!P!Entry) /\ H!Fields(E) /\ Len(E) = size(o)
      /\ Says(E, f, get_field(o, f))
  <2>1. o = x.hash /\ E = get_all_fields(o)
    BY <1>1 DEF x, E
  <2> QED BY <1>2, <1>4, <1>5, <2>1, HashPairs
<1>7. Refilled(o) = Fold("field", NewObject, E)
  BY RefilledIs DEF E
<1>8. should_use_ziplist(E) \/ Len(E) < INIT_HT_SIZE
  BY <1>6 DEF Small, E
<1>9. Says(E, f, get_field(Refilled(o), f))
  BY <1>5, <1>6, <1>7, <1>8, ListRefills, FewRefill
<1> QED BY <1>6, <1>9, SaysOne

\* What is restorable is whole: of the hashes that are small this is a fact,
\* and of the others the condition.
LEMMA RestorableIsWhole ==
    ASSUME NEW db, IsSnap(db), Restorable(db)
    PROVE  Whole(db)
BY SmallRefill DEF Restorable, Exact, Whole

-----------------------------------------------------------------------------
(* What the runs of module Persistence check. *)

(* Whatever order commands, saves, signals, crashes and restarts come in: a
   stream is open exactly while a save runs, the database does not change under
   it, and it writes only keys of the database it began with
   (Database::saveToFile, signalHandler).  *)
THEOREM TypesKept == Spec => []TypeOK
<1>1. IInv => TypeOK
  BY DEF IInv
<1> QED BY <1>1, Invariance, PTL

(* For every database that can be restored and wherever a save ends: dump.rdb
   then holds the whole database of the moment the save began or loads as
   nothing (RdbEncoder::saveToFile, RdbDecoder::loadFromFile).  *)
THEOREM SavesAreWhole == Spec => []SnapshotOrNothing
<1>1. IInv => SnapshotOrNothing
  <2>1. IInv => IsSnap(snap) /\ WholeOrNothing
    BY DEF IInv, Contents
  <2>2. Restorable(snap) /\ IsSnap(snap) => Whole(snap)
    BY RestorableIsWhole
  <2> QED BY <2>1, <2>2 DEF SnapshotOrNothing, WholeOrNothing, Alone
<1> QED BY <1>1, Invariance, PTL

(* ... and once a save has returned true, with room on the disk, it holds the
   database, also of hashes in the middle of a rehash, until the next save
   begins (Database::saveToFile).  *)
THEOREM SavesSurvive == Spec => []AckedSaveSurvives
<1>1. IInv => AckedSaveSurvives
  <2>1. IInv => IsSnap(snap) /\ WholeOnceAcked
    BY DEF IInv, Contents
  <2>2. Restorable(snap) /\ IsSnap(snap) => Whole(snap)
    BY RestorableIsWhole
  <2> QED BY <2>1, <2>2 DEF AckedSaveSurvives, WholeOnceAcked
<1> QED BY <1>1, Invariance, PTL

(* What a restart restores: the database that was saved, if the save was
   acknowledged and found room, and nobody saved since (Database::Database).  *)
THEOREM RestartLoadsIt ==
    Spec => [][proc = "down" /\ proc' = "running" /\ acked /\ "full disk" \notin harm
               /\ Restorable(snap) => View(data') = View(snap)]_vars
<1>1. IInv /\ [Next]_vars =>
        [proc = "down" /\ proc' = "running" /\ acked /\ "full disk" \notin harm
         /\ Restorable(snap) => View(data') = View(snap)]_vars
  <2> SUFFICES ASSUME IInv, Next, proc = "down", proc' = "running", acked,
                      "full disk" \notin harm, Restorable(snap)
               PROVE  View(data') = View(snap)
    OBVIOUS
  <2>1. Restart
    BY DEF Next, Set, HSet, Del, Execute, Save, Signal, SignalInWrite, WriteKey, FailSave,
           EndSave, EndSaveShort, Crash, Saving
  <2>2. data' = loadFromFile(file) /\ ~ Saving
    BY <2>1 DEF Restart, Saving
  <2>3. IsSnap(snap) /\ WholeOnceAcked
    BY DEF IInv, Contents
  <2>4. Whole(snap)
    BY <2>3, RestorableIsWhole
  <2> QED BY <2>2, <2>3, <2>4 DEF WholeOnceAcked
<1> QED BY <1>1, Invariance, PTL DEF Spec

(* For every hash that is a ziplist again or too small to grow, and whatever
   state a save finds it in: the pairs it writes, stored one after the other,
   are read as the hash was (HashObject::get_all_fields, RdbDecoder's loop over
   set_field).  *)
THEOREM FewFieldsRefill == Spec => [](Exact(snap) /\ Small(snap) => Refills(snap))
<1>1. IInv => (Exact(snap) /\ Small(snap) => Refills(snap))
  BY SmallRefill DEF IInv, Contents
<1> QED BY <1>1, Invariance, PTL
=============================================================================
