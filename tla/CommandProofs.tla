--------------------------- MODULE CommandProofs ---------------------------
(***************************************************************************)
(* The invariants of module Command for every list of requests, and that   *)
(* the commands are those of module Store as long as the hashes are small. *)
(*                                                                         *)
(* The second part rests on HashObjectProofs, whose lemmas about an object *)
(* are instantiated, at an object nobody writes to.  They speak of the     *)
(* operators through that instance; the first lemmas say that these are    *)
(* the ones the commands use.                                              *)
(***************************************************************************)
EXTENDS Command, FiniteSetTheorems, SequenceTheorems, TLAPS

\* The lemmas about a hash, of any.
H == INSTANCE HashObjectProofs
        WITH obj <- NewObject, Rounds <- {1}, Batch <- 1, MaxUsed <- 0

(* The instance assumes no more than the commands do. *)
LEMMA Assumed == H!HashObjectAssumption /\ H!HashCallAssumption
<1>1. H!HashObjectAssumption
  BY HashObjectAssumption DEF HT!DictAssumption, H!HT!DictAssumption
<1>2. H!HashCallAssumption
  BY DEF H!D!BoundAssumption
<1> QED BY <1>1, <1>2

-----------------------------------------------------------------------------
(* The operators of the instance are those of the commands. *)

\* Those of a table,
LEMMA StepSame ==
    ASSUME NEW d, NEW n
    PROVE  HT!rehash_step(d, n) = H!HT!rehash_step(d, n)
<1>0. \A A : HT!Cardinality(A) = H!HT!Cardinality(A)
  BY DEF HT!Cardinality, H!HT!Cardinality
<1>1. \A j : HT!Occupied(d, j) = H!HT!Occupied(d, j)
  BY DEF HT!Occupied, H!HT!Occupied
<1>2. ASSUME NEW j
      PROVE  HT!LeavesLoopAt(d, n, j) <=> H!HT!LeavesLoopAt(d, n, j)
  BY <1>1, <1>0 DEF HT!LeavesLoopAt, H!HT!LeavesLoopAt
<1>3. HT!LoopExit(d, n) = H!HT!LoopExit(d, n)
  BY <1>2 DEF HT!LoopExit, H!HT!LoopExit
<1>4. ASSUME NEW j
      PROVE  HT!PassBuckets(d, j) = H!HT!PassBuckets(d, j)
  BY DEF HT!PassBuckets, H!HT!PassBuckets, HT!Slot, H!HT!Slot, HT!Record, H!HT!Record
<1>5. ASSUME NEW e
      PROVE  HT!FinishRehash(e) = H!HT!FinishRehash(e)
  BY DEF HT!FinishRehash, H!HT!FinishRehash, HT!Record, H!HT!Record, HT!Table, H!HT!Table
<1> QED BY <1>3, <1>4, <1>5 DEF HT!rehash_step, H!HT!rehash_step,
           HT!is_rehashing, H!HT!is_rehashing

LEMMA TableSame ==
    /\ HT!NewDict = H!HT!NewDict
    /\ \A d, f, v : HT!set_field(d, f, v) = H!HT!set_field(d, f, v)
    /\ \A d, f : HT!get_field(d, f) = H!HT!get_field(d, f)
<1>1. ASSUME NEW d, NEW f, NEW v
      PROVE  HT!StoreInMain(d, f, v) = H!HT!StoreInMain(d, f, v)
  BY DEF HT!StoreInMain, H!HT!StoreInMain, HT!Found, H!HT!Found, HT!WithMain, H!HT!WithMain,
         HT!WithBucket, H!HT!WithBucket, HT!Slot, H!HT!Slot,
         HT!expand_if_needed, H!HT!expand_if_needed,
         HT!is_rehashing, H!HT!is_rehashing, HT!StartRehash, H!HT!StartRehash,
         HT!Record, H!HT!Record, HT!Table, H!HT!Table
<1>2. ASSUME NEW d, NEW f, NEW v
      PROVE  HT!set_field(d, f, v) = H!HT!set_field(d, f, v)
  BY <1>1, StepSame DEF HT!set_field, H!HT!set_field
<1>3. ASSUME NEW d, NEW f
      PROVE  HT!get_field(d, f) = H!HT!get_field(d, f)
  BY DEF HT!get_field, H!HT!get_field, HT!Found, H!HT!Found, HT!Slot, H!HT!Slot,
         HT!ValueIn, H!HT!ValueIn, HT!is_rehashing, H!HT!is_rehashing
<1>4. HT!NewDict = H!HT!NewDict
  BY DEF HT!NewDict, H!HT!NewDict, HT!Record, H!HT!Record, HT!Table, H!HT!Table
<1> QED BY <1>2, <1>3, <1>4

\* and those of an object.  A promotion folds the one set_field or the other.
LEMMA ObjectSame ==
    /\ NewObject = H!NewObject
    /\ \A o, f, v : set_field(o, f, v) = H!set_field(o, f, v)
    /\ \A o, f : get_field(o, f) = H!get_field(o, f)
    /\ \A o : size(o) = H!size(o)
<1>1. ASSUME NEW zl, NEW f
      PROVE  find_in_ziplist(zl, f) = H!find_in_ziplist(zl, f)
  BY DEF find_in_ziplist, H!find_in_ziplist, SelectInSeq, H!SelectInSeq, Min, H!Min
<1>2. ASSUME NEW zl
      PROVE  should_use_ziplist(zl) <=> H!should_use_ziplist(zl)
  BY DEF should_use_ziplist, H!should_use_ziplist
<1>3. ASSUME NEW o
      PROVE  promote_to_hashtable(o) = H!promote_to_hashtable(o)
  <2> DEFINE zl == o.ziplist
             All == SUBSET (DOMAIN zl)
             Ours(it) == it = [s \in All |->
                IF s = {} THEN HT!NewDict
                ELSE HT!set_field(it[s \ {Max(s)}], zl[Max(s)].key, zl[Max(s)].value)]
             Theirs(it) == it = [s \in All |->
                IF s = {} THEN H!HT!NewDict
                ELSE H!HT!set_field(it[s \ {H!Max(s)}], zl[H!Max(s)].key, zl[H!Max(s)].value)]
  <2>1. \A s : Max(s) = H!Max(s)
    BY DEF Max, H!Max
  <2>2. promote_to_hashtable(o).dict = (CHOOSE it : Ours(it))[DOMAIN zl]
    BY DEF promote_to_hashtable, FoldLeft, MapThenFoldSet
  <2>3. H!promote_to_hashtable(o).dict = (CHOOSE it : Theirs(it))[DOMAIN zl]
    BY DEF H!promote_to_hashtable, H!FoldLeft, H!MapThenFoldSet
  <2> HIDE DEF zl, All
  <2>4. \A it : Ours(it) <=> Theirs(it)
    BY <2>1, TableSame
  <2> HIDE DEF Ours, Theirs
  <2>5. (CHOOSE it : Ours(it)) = (CHOOSE it : Theirs(it))
    BY <2>4
  <2>6. promote_to_hashtable(o).dict = H!promote_to_hashtable(o).dict
    BY <2>2, <2>3, <2>5
  <2>7. \A p, q : [encoding |-> "HASHTABLE", ziplist |-> <<>>, dict |-> p].dict = p
    OBVIOUS
  <2> QED BY <2>6 DEF promote_to_hashtable, H!promote_to_hashtable
<1>4. ASSUME NEW o, NEW f, NEW v
      PROVE  StoreInZiplist(o, f, v) = H!StoreInZiplist(o, f, v)
  BY <1>1, <1>2, <1>3 DEF StoreInZiplist, H!StoreInZiplist, Pair, H!Pair
<1>5. ASSUME NEW o, NEW f, NEW v
      PROVE  set_field(o, f, v) = H!set_field(o, f, v)
  BY <1>3, <1>4, TableSame DEF set_field, H!set_field
<1>6. ASSUME NEW o, NEW f
      PROVE  get_field(o, f) = H!get_field(o, f)
  BY <1>1, TableSame DEF get_field, H!get_field
<1>7. NewObject = H!NewObject /\ \A o : size(o) = H!size(o)
  BY TableSame DEF NewObject, H!NewObject, size, H!size
<1> QED BY <1>5, <1>6, <1>7

-----------------------------------------------------------------------------
(* A write to a hash. *)

LEMMA NoValueIsNone == NoValue \notin Value /\ Field \subseteq Key
BY HashObjectAssumption, RequestAssumption DEF HT!DictAssumption

(* It leaves an object with at least one field, the one written. *)
LEMMA Written ==
    ASSUME NEW o, H!IsObject(o), NEW f \in Field, NEW v \in Value
    PROVE  LET p == set_field(o, f, v)
           IN H!IsObject(p) /\ size(p) > 0
<1> DEFINE p == H!set_field(o, f, v)
           F == {g \in Key : H!get_field(p, g) # NoValue}
<1>1. f \in Key /\ v # NoValue
  BY NoValueIsNone
<1>2. H!IsObject(p) /\ H!get_field(p, f) = v
  BY <1>1, Assumed, H!SetKeeps
<1> HIDE DEF p
<1>3. IsFiniteSet(F) /\ H!size(p) \in Nat /\ H!size(p) >= Cardinality(F)
  <2>1. \A A : H!Cardinality(A) = Cardinality(A) /\ (H!IsFiniteSet(A) <=> IsFiniteSet(A))
    BY DEF H!Cardinality, Cardinality, H!IsFiniteSet, IsFiniteSet
  <2> QED BY <1>2, <2>1, Assumed, H!SizeOfObject
<1>4. f \in F
  BY <1>1, <1>2
<1> HIDE DEF F
<1>5. Cardinality(F) \in Nat /\ Cardinality(F) # 0
  BY <1>3, <1>4, FS_CardinalityType, FS_EmptySet
<1> QED BY <1>2, <1>3, <1>5, ObjectSame DEF p

-----------------------------------------------------------------------------
(* What a command can come to, whatever its arguments are. *)

\* What DEL and EXISTS are given are names.
LEMMA Named ==
    ASSUME NEW args \in Request, Len(args) > 1, NEW cmd \in {"DEL", "EXISTS"},
           toUpper(args[1]) = cmd
    PROVE  Tail(args) \in S!Names
<1> DEFINE n == Len(args) - 1
<1>1. args \in Seq(ToSet(args)) /\ Known(args)
  <2>1. args # <<>>
    OBVIOUS
  <2> QED BY <2>1, RequestAssumption
<1>2. n \in Nat /\ n >= 1 /\ n <= MaxNames /\ \A i \in 2 .. n + 1 : args[i] \in DbKey
  BY <1>1 DEF Known
<1>3. /\ Tail(args) \in Seq(ToSet(args)) /\ Len(Tail(args)) = n
      /\ \A i \in 1 .. n : Tail(args)[i] = args[i + 1]
  <2>1. args # <<>>
    OBVIOUS
  <2> QED BY <1>1, <2>1, HeadTailProperties
<1>4. Tail(args) \in [1 .. n -> DbKey]
  <2>1. \A i \in 1 .. n : args[i + 1] \in DbKey
    BY <1>2
  <2> HIDE DEF n
  <2>2. Tail(args) \in [1 .. n -> ToSet(args)]
    BY <1>3, LenProperties
  <2> QED BY <1>3, <2>1, <2>2
<1>5. n \in 1 .. MaxNames
  BY <1>2, RequestAssumption
<1> HIDE DEF n
<1> QED BY <1>4, <1>5 DEF S!Names

Counts(db, names, R) == R = Reply(db, Integer(exists(db, names)))

(* All that execute may return.  A handler that refuses its arguments returns
   the database it was given.  *)
Outcome(db, R) ==
    \/ R.data = db /\ R.reply \in {Error, SimpleString("PONG"), SimpleString("OK"),
                                   Keys({}), Keys(DOMAIN db)}
    \/ \E k \in DbKey, v \in Value : R = Reply(set(db, k, v), SimpleString("OK"))
    \/ \E k \in DbKey : R = Reply(db, Bulk(get(db, k)))
    \/ \E k \in DbKey, f \in Field, v \in Value :
          ~ WrongType(db, k) /\ R = Reply(hset(db, k, f, v), Integer(1))
    \/ \E k \in DbKey, f \in Field : R = Reply(db, Bulk(hget(db, k, f)))
    \/ \E names \in S!Names :
          \/ R = Reply(del(db, names), Integer(deleted(db, names)))
          \/ Counts(db, names, R)

(* Nothing else is returned: one case per handler. *)
LEMMA Outcomes ==
    ASSUME NEW db, NEW args \in Request, NEW R, R = execute(db, args)
    PROVE  Outcome(db, R)
<1> DEFINE cmd == toUpper(args[1])
           n   == Len(args)
<1>1. ASSUME NEW r PROVE Reply(db, r).data = db /\ Reply(db, r).reply = r
  BY DEF Reply
<1>2. CASE args = <<>>
  BY <1>1, <1>2 DEF Outcome, execute
<1>3. CASE args # <<>>
  <2>1. Known(args) /\ args \in Seq(ToSet(args)) /\ n \in Nat /\ n > 0
    BY <1>3, RequestAssumption
  <2>2. CASE cmd = "PING"
    BY <1>1, <1>3, <2>2 DEF Outcome, execute, handlePing
  <2>3. CASE cmd = "SET"
    <3>1. R = handleSet(db, args)
      BY <1>3, <2>3 DEF execute
    <3>2. n >= 3 => args[2] \in DbKey /\ args[3] \in Value
      BY <2>1, <2>3 DEF Known
    <3> HIDE DEF cmd
    <3>3. CASE n < 3
      BY <1>1, <3>1, <3>3 DEF Outcome, handleSet
    <3>4. CASE n >= 3
      <4>1. R = Reply(set(db, args[2], args[3]), SimpleString("OK"))
        BY <2>1, <3>1, <3>4 DEF handleSet
      <4> QED BY <3>2, <3>4, <4>1 DEF Outcome
    <3> QED BY <2>1, <3>3, <3>4
  <2>4. CASE cmd = "GET"
    <3>1. R = handleGet(db, args)
      BY <1>3, <2>4 DEF execute
    <3>2. n = 2 => args[2] \in DbKey
      BY <2>1, <2>4 DEF Known
    <3> HIDE DEF cmd
    <3> QED BY <1>1, <2>1, <3>1, <3>2 DEF Outcome, handleGet
  <2>5. CASE cmd = "HSET"
    <3>1. R = handleHSet(db, args)
      BY <1>3, <2>5 DEF execute
    <3>2. n >= 4 => args[2] \in DbKey /\ args[3] \in Field /\ args[4] \in Value
      BY <2>1, <2>5 DEF Known
    <3> HIDE DEF cmd
    <3>3. CASE n < 4 \/ n % 2 # 0 \/ WrongType(db, args[2])
      BY <1>1, <3>1, <3>3 DEF Outcome, handleHSet
    <3>4. CASE ~ (n < 4 \/ n % 2 # 0 \/ WrongType(db, args[2]))
      <4>1. R = Reply(hset(db, args[2], args[3], args[4]), Integer(1))
        BY <3>1, <3>4 DEF handleHSet
      <4>2. n >= 4
        BY <2>1, <3>4
      <4> QED BY <3>2, <3>4, <4>1, <4>2 DEF Outcome
    <3> QED BY <3>3, <3>4
  <2>6. CASE cmd = "HGET"
    <3>1. R = handleHGet(db, args)
      BY <1>3, <2>6 DEF execute
    <3>2. n = 3 => args[2] \in DbKey /\ args[3] \in Field
      BY <2>1, <2>6 DEF Known
    <3> HIDE DEF cmd
    <3> QED BY <1>1, <2>1, <3>1, <3>2 DEF Outcome, handleHGet
  <2>7. CASE cmd = "DEL"
    <3>1. R = handleDel(db, args)
      BY <1>3, <2>7 DEF execute
    <3>2. n >= 2 => Tail(args) \in S!Names
      BY <2>1, <2>7, Named
    <3> HIDE DEF cmd
    <3>3. CASE n < 2
      BY <1>1, <3>1, <3>3 DEF Outcome, handleDel
    <3>4. CASE n >= 2
      <4>1. R = Reply(del(db, Tail(args)), Integer(deleted(db, Tail(args))))
        BY <2>1, <3>1, <3>4 DEF handleDel
      <4> QED BY <3>2, <3>4, <4>1 DEF Outcome
    <3> QED BY <2>1, <3>3, <3>4
  <2>8. CASE cmd = "EXISTS"
    <3>1. R = handleExists(db, args)
      BY <1>3, <2>8 DEF execute
    <3>2. n >= 2 => Tail(args) \in S!Names
      BY <2>1, <2>8, Named
    <3> HIDE DEF cmd
    <3>3. CASE n < 2
      BY <1>1, <3>1, <3>3 DEF Outcome, handleExists
    <3>4. CASE n >= 2
      <4>1. Counts(db, Tail(args), R)
        <5>1. ~ (n < 2)
          BY <2>1, <3>4
        <5> QED BY <3>1, <5>1, Zenon DEF handleExists, Counts
      <4> QED BY <3>2, <3>4, <4>1 DEF Outcome
    <3> QED BY <2>1, <3>3, <3>4
  <2>9. CASE cmd = "KEYS"
    <3>1. R = handleKeys(db, args)
      BY <1>3, <2>9 DEF execute
    <3> HIDE DEF cmd
    <3> QED BY <1>1, <3>1 DEF Outcome, handleKeys, getAllKeys
  <2>10. CASE cmd = "SAVE"
    <3>1. R = handleSave(db, args)
      BY <1>3, <2>10 DEF execute
    <3> HIDE DEF cmd
    <3> QED BY <1>1, <3>1 DEF Outcome, handleSave
  <2>11. CASE cmd \notin {"PING", "SET", "GET", "HSET", "HGET", "DEL", "EXISTS", "KEYS", "SAVE"}
    <3>1. R = Reply(db, Error)
      BY <1>3, <2>11 DEF execute
    <3> HIDE DEF cmd
    <3> QED BY <1>1, <3>1 DEF Outcome
  <2> QED BY <2>2, <2>3, <2>4, <2>5, <2>6, <2>7, <2>8, <2>9, <2>10, <2>11
<1> QED BY <1>2, <1>3

-----------------------------------------------------------------------------
(* The database: strings, and hashes that hold at least one field. *)

IsText(x) == \E v \in Value : x = StringObject(v)

IsMap(x) == x = HashObject(x.hash) /\ H!IsObject(x.hash) /\ size(x.hash) > 0

IsDb(db) ==
    /\ DOMAIN db \subseteq DbKey
    /\ \A k \in DOMAIN db : IsText(db[k]) \/ IsMap(db[k])

LEMMA Kinds ==
    ASSUME NEW x
    PROVE  /\ IsText(x) => x.type = "STRING" /\ x.value \in Value
           /\ IsMap(x) => x.type = "HASH"
BY DEF IsText, IsMap, StringObject, HashObject

\* What a HSET writes to is an object, existing or new.
LEMMA HashAtKey ==
    ASSUME NEW db, IsDb(db), NEW k
    PROVE  H!IsObject(HashAt(db, k))
<1>1. H!IsObject(NewObject)
  BY Assumed, ObjectSame, H!NewKeeps
<1>2. Holds(db, k, "HASH") => H!IsObject(db[k].hash)
  BY Kinds DEF IsDb, Holds, IsMap
<1> QED BY <1>1, <1>2 DEF HashAt

(* No command stores anything else. *)
LEMMA DbKept ==
    ASSUME NEW db, IsDb(db), NEW R, Outcome(db, R)
    PROVE  IsDb(R.data)
<1>1. \A e, r : Reply(e, r).data = e
  BY DEF Reply
<1>2. ASSUME NEW k \in DbKey, NEW x, IsText(x) \/ IsMap(x)
      PROVE  IsDb(Assign(db, k, x))
  <2> DEFINE e == Assign(db, k, x)
  <2>1. /\ DOMAIN e = DOMAIN db \cup {k} /\ e[k] = x
        /\ \A j \in DOMAIN db : j # k => e[j] = db[j]
    BY DEF Assign
  <2> HIDE DEF e
  <2>2. DOMAIN e \subseteq DbKey
    BY <2>1 DEF IsDb
  <2>3. ASSUME NEW j \in DOMAIN e
        PROVE  IsText(e[j]) \/ IsMap(e[j])
    BY <1>2, <2>1 DEF IsDb
  <2> QED BY <2>2, <2>3 DEF IsDb, e
<1>3. ASSUME NEW k \in DbKey, NEW v \in Value
      PROVE  IsDb(set(db, k, v))
  <2>1. IsText(StringObject(v))
    BY DEF IsText
  <2> QED BY <1>2, <2>1 DEF set
<1>4. ASSUME NEW k \in DbKey, NEW f \in Field, NEW v \in Value
      PROVE  IsDb(hset(db, k, f, v))
  <2> DEFINE p == set_field(HashAt(db, k), f, v)
  <2>1. H!IsObject(p) /\ size(p) > 0
    BY HashAtKey, Written
  <2>2. hset(db, k, f, v) = Assign(db, k, HashObject(p))
    BY DEF hset
  <2> HIDE DEF p
  <2>3. HashObject(p).hash = p
    BY DEF HashObject
  <2>4. IsMap(HashObject(p))
    BY <2>1, <2>3 DEF IsMap
  <2> QED BY <1>2, <2>2, <2>4
<1>5. ASSUME NEW names
      PROVE  IsDb(del(db, names))
  BY DEF IsDb, del
<1>6. ASSUME NEW names, Counts(db, names, R) PROVE R.data = db
  BY <1>1, <1>6, Zenon DEF Counts
<1> QED BY <1>1, <1>3, <1>4, <1>5, <1>6 DEF Outcome

LEMMA Invariance == Spec => []IsDb(data)
<1>1. Init => IsDb(data)
  <2>1. DOMAIN <<>> = {}
    OBVIOUS
  <2> QED BY <2>1 DEF Init, Empty, IsDb
<1>2. IsDb(data) /\ [Next]_vars => IsDb(data')
  <2> SUFFICES ASSUME IsDb(data), [Next]_vars PROVE IsDb(data')
    OBVIOUS
  <2>1. ASSUME NEW args \in Request, Execute(args)
        PROVE  IsDb(data')
    <3>1. IsDb(execute(data, args).data)
      BY Outcomes, DbKept
    <3> QED BY <2>1, <3>1 DEF Execute
  <2>2. CASE UNCHANGED vars
    BY <2>2 DEF vars
  <2> QED BY <2>1, <2>2 DEF Next
<1>3. IsDb(data') => IsDb(data)'
  BY DEF IsDb, IsText, IsMap
<1> QED BY <1>1, <1>2, <1>3, PTL DEF Spec

(* Whatever is sent: only keys named are stored, every value has one of the
   two types, and no hash is empty.  *)
THEOREM DatabaseTypeOK == Spec => []TypeOK
<1>1. IsDb(data) => TypeOK
  BY Kinds DEF IsDb, IsMap, TypeOK, Holds
<1> QED BY <1>1, Invariance, PTL

(* Whatever is sent and refused has changed nothing.  *)
THEOREM ErrorsAreHarmless == Spec => ErrorsChangeNothing
<1>1. Next => (reply'.type = "error" => UNCHANGED data)
  <2> SUFFICES ASSUME NEW args \in Request, Execute(args), reply'.type = "error"
               PROVE  data' = data
    BY DEF Next
  <2>1. Outcome(data, execute(data, args))
    BY Outcomes
  <2>2. /\ \A e, r : Reply(e, r).data = e /\ Reply(e, r).reply = r
        /\ \A n : Integer(n).type # "error"
        /\ \A t : SimpleString(t).type # "error"
    BY DEF Reply, Integer, SimpleString
  <2>3. Execute(args) => data' = execute(data, args).data /\ reply' = execute(data, args).reply
    BY DEF Execute
  <2>4. ASSUME NEW names, NEW R, Counts(data, names, R) PROVE R.data = data
    BY <2>2, <2>4, Zenon DEF Counts
  <2> QED BY <2>1, <2>2, <2>3, <2>4 DEF Outcome
<1> QED BY <1>1, PTL DEF Spec, ErrorsChangeNothing

-----------------------------------------------------------------------------
(* What a client sees of a database, while the fields are few. *)

FewFields == IsFiniteSet(Field) /\ Cardinality(Field) < INIT_HT_SIZE

IsFlatDb(db) ==
    /\ IsDb(db)
    /\ \A k \in DOMAIN db : db[k].type = "HASH" => H!IsFlat(db[k].hash, Field)

Shown(x) ==
    IF x.type = "STRING" THEN S!String(x.value)
    ELSE S!Map([f \in Field |-> get_field(x.hash, f)])

View(db) == [k \in DbKey |-> IF k \notin DOMAIN db THEN S!Nothing ELSE Shown(db[k])]

\* The fields are few in the sense of HashObjectProofs.
LEMMA Few == ASSUME FewFields PROVE H!IsFew(Field)
<1>1. H!Cardinality(Field) = Cardinality(Field) /\ (H!IsFiniteSet(Field) <=> IsFiniteSet(Field))
  BY DEF H!Cardinality, Cardinality, H!IsFiniteSet, IsFiniteSet
<1> QED BY <1>1, NoValueIsNone DEF FewFields, H!IsFew

LEMMA Texts ==
    ASSUME NEW v
    PROVE  Shown(StringObject(v)) = S!String(v)
BY DEF Shown, StringObject

LEMMA Maps ==
    ASSUME NEW o
    PROVE  Shown(HashObject(o)) = S!Map([f \in Field |-> get_field(o, f)])
BY DEF Shown, HashObject

\* A key that exists shows, with the type of its object.
LEMMA SomethingShown ==
    ASSUME NEW x
    PROVE  /\ Shown(x) # S!Nothing
           /\ x.type = "STRING" => Shown(x).type = "string" /\ Shown(x).value = x.value
           /\ x.type # "STRING" => Shown(x).type = "map"
BY DEF Shown, S!Nothing, S!String, S!Map

(* Storing an object changes what its key shows. *)
LEMMA ViewAssigned ==
    ASSUME NEW db, NEW k \in DbKey, NEW x
    PROVE  View(Assign(db, k, x)) = [View(db) EXCEPT ![k] = Shown(x)]
<1> DEFINE e == Assign(db, k, x)
<1>1. /\ DOMAIN e = DOMAIN db \cup {k} /\ e[k] = x
      /\ \A j \in DOMAIN db : j # k => e[j] = db[j]
  BY DEF Assign
<1> HIDE DEF e
<1>2. \A j \in DbKey : View(e)[j] = IF j = k THEN Shown(x) ELSE View(db)[j]
  BY <1>1 DEF View
<1>3. View(e) = [j \in DbKey |-> View(e)[j]] /\ View(db) = [j \in DbKey |-> View(db)[j]]
  BY DEF View
<1> QED BY <1>2, <1>3 DEF e

LEMMA ExistingKeys ==
    ASSUME NEW db, IsDb(db)
    PROVE  {k \in DbKey : View(db)[k] # S!Nothing} = DOMAIN db
<1>1. \A k \in DbKey : View(db)[k] # S!Nothing <=> k \in DOMAIN db
  BY SomethingShown DEF View
<1> QED BY <1>1 DEF IsDb

(* The object a HSET writes to shows what its key does, a new one nothing. *)
LEMMA FlatAtKey ==
    ASSUME FewFields, NEW db, IsFlatDb(db), NEW k \in DbKey, ~ WrongType(db, k)
    PROVE  /\ H!IsFlat(HashAt(db, k), Field)
           /\ (IF View(db)[k] = S!Nothing THEN S!EmptyMap ELSE View(db)[k]) =
                 S!Map([f \in Field |-> get_field(HashAt(db, k), f)])
<1>1. CASE k \in DOMAIN db
  <2>1. db[k].type = "HASH" /\ HashAt(db, k) = db[k].hash
    BY <1>1 DEF WrongType, HashAt, Holds
  <2>2. View(db)[k] = Shown(db[k]) /\ Shown(db[k]) # S!Nothing
    BY <1>1, SomethingShown DEF View
  <2>3. Shown(db[k]) = S!Map([f \in Field |-> get_field(db[k].hash, f)])
    BY <2>1 DEF Shown
  <2> QED BY <1>1, <2>1, <2>2, <2>3 DEF IsFlatDb
<1>2. CASE k \notin DOMAIN db
  <2>1. HashAt(db, k) = NewObject /\ View(db)[k] = S!Nothing
    BY <1>2 DEF HashAt, Holds, View
  <2>2. H!IsFlat(NewObject, Field) /\ \A f \in Field : get_field(NewObject, f) = NoValue
    BY Few, Assumed, ObjectSame, H!FlatNew
  <2> QED BY <2>1, <2>2 DEF S!EmptyMap
<1> QED BY <1>1, <1>2

(* The write changes its own field and no other. *)
LEMMA FlatWritten ==
    ASSUME FewFields, NEW o, H!IsFlat(o, Field), NEW f \in Field, NEW v \in Value
    PROVE  LET p == set_field(o, f, v)
           IN /\ H!IsFlat(p, Field)
              /\ [g \in Field |-> get_field(p, g)] =
                    [[g \in Field |-> get_field(o, g)] EXCEPT ![f] = v]
<1>1. /\ H!IsFlat(set_field(o, f, v), Field)
      /\ \A g \in Field : get_field(set_field(o, f, v), g) =
                             IF g = f THEN v ELSE get_field(o, g)
  BY Few, Assumed, ObjectSame, H!FlatSet
<1> QED BY <1>1

(* No command fills a table. *)
LEMMA FlatKept ==
    ASSUME FewFields, NEW db, IsFlatDb(db), NEW R, Outcome(db, R)
    PROVE  IsFlatDb(R.data)
<1>1. \A e, r : Reply(e, r).data = e
  BY DEF Reply
<1>2. IsDb(R.data)
  BY DbKept DEF IsFlatDb
<1>3. ASSUME NEW k \in DbKey, NEW x, x.type = "HASH" => H!IsFlat(x.hash, Field),
             IsDb(Assign(db, k, x))
      PROVE  IsFlatDb(Assign(db, k, x))
  <2> DEFINE e == Assign(db, k, x)
  <2>1. /\ DOMAIN e = DOMAIN db \cup {k} /\ e[k] = x
        /\ \A j \in DOMAIN db : j # k => e[j] = db[j]
    BY DEF Assign
  <2> HIDE DEF e
  <2> QED BY <1>3, <2>1 DEF IsFlatDb, e
<1>4. ASSUME NEW k \in DbKey, NEW v, R.data = set(db, k, v)
      PROVE  IsFlatDb(R.data)
  <2>1. StringObject(v).type # "HASH"
    BY DEF StringObject
  <2> QED BY <1>2, <1>3, <1>4, <2>1 DEF set
<1>5. ASSUME NEW k \in DbKey, NEW f \in Field, NEW v \in Value, ~ WrongType(db, k),
             R.data = hset(db, k, f, v)
      PROVE  IsFlatDb(R.data)
  <2> DEFINE p == set_field(HashAt(db, k), f, v)
  <2>1. H!IsFlat(p, Field)
    BY <1>5, FlatAtKey, FlatWritten
  <2>2. R.data = Assign(db, k, HashObject(p))
    BY <1>5 DEF hset
  <2> HIDE DEF p
  <2>3. HashObject(p).hash = p
    BY DEF HashObject
  <2> QED BY <1>2, <1>3, <2>1, <2>2, <2>3
<1>6. ASSUME NEW names, R.data = del(db, names)
      PROVE  IsFlatDb(R.data)
  BY <1>2, <1>6 DEF IsFlatDb, del
<1>7. ASSUME NEW names, Counts(db, names, R) PROVE R.data = db
  BY <1>1, <1>7, Zenon DEF Counts
<1> QED BY <1>1, <1>4, <1>5, <1>6, <1>7 DEF Outcome

LEMMA FlatInvariance == ASSUME FewFields PROVE Spec => []IsFlatDb(data)
<1>1. Init => IsFlatDb(data)
  <2>1. DOMAIN <<>> = {}
    OBVIOUS
  <2> QED BY <2>1 DEF Init, Empty, IsDb, IsFlatDb
<1>2. IsFlatDb(data) /\ [Next]_vars => IsFlatDb(data')
  <2> SUFFICES ASSUME IsFlatDb(data), [Next]_vars PROVE IsFlatDb(data')
    OBVIOUS
  <2>1. ASSUME NEW args \in Request, Execute(args)
        PROVE  IsFlatDb(data')
    <3>1. IsFlatDb(execute(data, args).data)
      BY Outcomes, FlatKept
    <3> QED BY <2>1, <3>1 DEF Execute
  <2>2. CASE UNCHANGED vars
    BY <2>2 DEF vars
  <2> QED BY <2>1, <2>2 DEF Next
<1>3. IsFlatDb(data') => IsFlatDb(data)'
  BY DEF IsFlatDb, IsDb, IsText, IsMap
<1> QED BY <1>1, <1>2, <1>3, PTL DEF Spec

(* Every command is one of the abstract ones, for the view of the database. *)
LEMMA StepMapped ==
    ASSUME FewFields, IsFlatDb(data), NEW args \in Request, Execute(args)
    PROVE  S!Next
<1> DEFINE R  == execute(data, args)
           kv == [k \in DbKey |-> ValueOf(k)]
<1>1. kv = View(data) /\ kv' = View(data')
  BY DEF ValueOf, View, Shown, S!Nothing, S!String, S!Map
<1>2. Outcome(data, R) /\ data' = R.data /\ reply' = R.reply /\ IsDb(data)
  BY Outcomes DEF Execute, IsFlatDb
<1> HIDE DEF R
<1>3. \A e, r : Reply(e, r).data = e /\ Reply(e, r).reply = r
  BY DEF Reply
<1>4. /\ \A t : SimpleString(t) = S!Simple(t)
      /\ \A n : Integer(n) = S!Integer(n)
      /\ \A v : Bulk(v) = S!Bulk(v)
      /\ \A K : Keys(K) = S!Keys(K)
      /\ Error = S!Error
  BY DEF SimpleString, S!Simple, Integer, S!Integer, Bulk, S!Bulk, Keys, S!Keys,
         Error, S!Error
<1>5. S!Existing = DOMAIN data
  BY <1>1, <1>2, ExistingKeys DEF S!Existing
<1> HIDE DEF kv
<1>6. ASSUME NEW r, R.data = data, R.reply = r
      PROVE  S!Answer(r)
  BY <1>1, <1>2, <1>6 DEF S!Answer, kv
<1>7. CASE R.data = data /\ R.reply \in {Error, SimpleString("PONG"), SimpleString("OK"),
                                         Keys({}), Keys(DOMAIN data)}
  <2>1. S!Answer(R.reply)
    BY <1>6, <1>7
  <2>2. R.reply \in {S!Error, S!Simple("PONG"), S!Simple("OK"), S!Keys({}), S!Keys(S!Existing)}
    BY <1>4, <1>5, <1>7
  <2> QED BY <2>1, <2>2 DEF S!Next, S!Other
<1>8. ASSUME NEW k \in DbKey, NEW v \in Value,
             R = Reply(set(data, k, v), SimpleString("OK"))
      PROVE  S!Set(k, v)
  <2>1. View(data') = [View(data) EXCEPT ![k] = S!String(v)]
    BY <1>2, <1>3, <1>8, ViewAssigned, Texts DEF set
  <2>2. reply' = S!Simple("OK")
    BY <1>2, <1>3, <1>4, <1>8
  <2> QED BY <1>1, <2>1, <2>2 DEF S!Set, kv
<1>9. ASSUME NEW k \in DbKey, R = Reply(data, Bulk(get(data, k)))
      PROVE  S!Get(k)
  <2>1. get(data, k) = IF View(data)[k].type = "string" THEN View(data)[k].value ELSE NoValue
    <3>1. S!Nothing.type # "string"
      BY DEF S!Nothing
    <3> QED BY <3>1, SomethingShown DEF get, Holds, View
  <2>2. S!Answer(S!Bulk(get(data, k)))
    BY <1>3, <1>4, <1>6, <1>9
  <2> QED BY <1>1, <2>1, <2>2 DEF S!Get, kv
<1>10. ASSUME NEW k \in DbKey, NEW f \in Field, R = Reply(data, Bulk(hget(data, k, f)))
       PROVE  S!HGet(k, f)
  <2>1. hget(data, k, f) = IF View(data)[k].type = "map" THEN View(data)[k].fields[f] ELSE NoValue
    <3>1. CASE k \notin DOMAIN data
      BY <3>1 DEF hget, Holds, View, S!Nothing
    <3>2. CASE k \in DOMAIN data
      <4>1. View(data)[k] = Shown(data[k])
        BY <3>2 DEF View
      <4>2. IsText(data[k]) \/ IsMap(data[k])
        BY <1>2, <3>2 DEF IsDb
      <4>3. CASE data[k].type = "HASH"
        <5>1. Shown(data[k]) = S!Map([g \in Field |-> get_field(data[k].hash, g)])
          BY <4>3 DEF Shown
        <5> QED BY <3>2, <4>1, <4>3, <5>1 DEF hget, Holds, S!Map
      <4>4. CASE data[k].type = "STRING"
        BY <3>2, <4>1, <4>4, SomethingShown DEF hget, Holds
      <4> QED BY <4>2, <4>3, <4>4, Kinds
    <3> QED BY <3>1, <3>2
  <2>2. S!Answer(S!Bulk(hget(data, k, f)))
    BY <1>3, <1>4, <1>6, <1>10
  <2> QED BY <1>1, <2>1, <2>2 DEF S!HGet, kv
<1>11. ASSUME NEW k \in DbKey, NEW f \in Field, NEW v \in Value, ~ WrongType(data, k),
              R = Reply(hset(data, k, f, v), Integer(1))
       PROVE  S!HSet(k, f, v)
  <2> DEFINE o == HashAt(data, k)
             m == IF View(data)[k] = S!Nothing THEN S!EmptyMap ELSE View(data)[k]
  <2>1. H!IsFlat(o, Field) /\ m = S!Map([g \in Field |-> get_field(o, g)])
    BY <1>11, FlatAtKey
  <2>2. m.type = "map" /\ m.fields = [g \in Field |-> get_field(o, g)]
    <3> HIDE DEF m
    <3> QED BY <2>1 DEF S!Map
  <2>3. data' = Assign(data, k, HashObject(set_field(o, f, v)))
    BY <1>2, <1>3, <1>11 DEF hset
  <2> HIDE DEF o, m
  <2>4. Shown(HashObject(set_field(o, f, v))) = S!Map([m.fields EXCEPT ![f] = v])
    <3> DEFINE p == set_field(o, f, v)
    <3>1. [g \in Field |-> get_field(p, g)] = [[g \in Field |-> get_field(o, g)] EXCEPT ![f] = v]
      BY <2>1, FlatWritten
    <3>2. [g \in Field |-> get_field(p, g)] = [m.fields EXCEPT ![f] = v]
      BY <2>2, <3>1
    <3> HIDE DEF p
    <3>3. Shown(HashObject(p)) = S!Map([g \in Field |-> get_field(p, g)])
      BY Maps
    <3>4. Shown(HashObject(p)) = S!Map([m.fields EXCEPT ![f] = v])
      BY <3>2, <3>3
    <3> QED BY <3>4 DEF p
  <2>5. View(data') = [View(data) EXCEPT ![k] = S!Map([m.fields EXCEPT ![f] = v])]
    BY <2>3, <2>4, ViewAssigned
  <2>6. reply' = S!Integer(1)
    BY <1>2, <1>3, <1>4, <1>11
  <2> QED BY <1>1, <2>2, <2>5, <2>6 DEF S!HSet, m, kv
<1>12. ASSUME NEW names \in S!Names, R = Reply(del(data, names), Integer(deleted(data, names)))
       PROVE  S!Del(names)
  <2> DEFINE gone == {names[i] : i \in DOMAIN names}
  <2>1. ToSet(names) = gone
    BY DEF ToSet
  <2>2. View(data') = [k \in DbKey |-> IF k \in gone THEN S!Nothing ELSE View(data)[k]]
    BY <1>2, <1>3, <1>12, <2>1 DEF del, View
  <2>3. S!Cardinality(S!Existing \cap gone) = Cardinality(DOMAIN data \cap gone)
    BY <1>5 DEF S!Cardinality, Cardinality
  <2>4. reply' = S!Integer(S!Cardinality(S!Existing \cap gone))
    BY <1>2, <1>3, <1>4, <1>12, <2>1, <2>3 DEF deleted
  <2> QED BY <1>1, <2>2, <2>4 DEF S!Del, kv
<1>13. ASSUME NEW names \in S!Names, Counts(data, names, R)
       PROVE  S!Exists(names)
  <2> DEFINE there == {i \in DOMAIN names : names[i] \in DOMAIN data}
  <2>1. R = Reply(data, Integer(Cardinality(there)))
    BY <1>13, Zenon DEF Counts, exists
  <2>2. S!Cardinality(there) = Cardinality(there)
    BY DEF S!Cardinality, Cardinality
  <2>3. S!Answer(S!Integer(S!Cardinality(there)))
    BY <1>3, <1>4, <1>6, <2>1, <2>2
  <2> QED BY <1>5, <2>3 DEF S!Exists
<1> QED BY <1>2, <1>7, <1>8, <1>9, <1>10, <1>11, <1>12, <1>13 DEF Outcome, S!Next

(* The commands are those of a map, whatever arrives, for every number of
   keys and values, encoding, and hash function, while the fields are fewer
   than the buckets of a new table: no insertion starts a rehash.  *)
THEOREM CommandsImplementStore == ASSUME FewFields PROVE Spec => ImplementsStore
<1>1. Init => S!Init
  <2>1. DOMAIN <<>> = {}
    OBVIOUS
  <2> QED BY <2>1 DEF Init, Empty, S!Init, ValueOf, S!Nothing, SimpleString, S!Simple
<1>2. IsFlatDb(data) /\ [Next]_vars => [S!Next]_S!vars
  <2> SUFFICES ASSUME IsFlatDb(data), [Next]_vars PROVE [S!Next]_S!vars
    OBVIOUS
  <2>1. CASE Next
    BY <2>1, StepMapped DEF Next
  <2>2. CASE UNCHANGED vars
    BY <2>2 DEF vars, S!vars, ValueOf
  <2> QED BY <2>1, <2>2
<1> QED BY <1>1, <1>2, FlatInvariance, PTL DEF Spec, ImplementsStore, S!Spec
=============================================================================
