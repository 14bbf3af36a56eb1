------------------------------ MODULE DictOps ------------------------------
(***************************************************************************)
(* The incrementally rehashed hash table of Dict.hpp and Dict.cpp, as      *)
(* operators on a record with one field for each member variable:          *)
(*                                                                         *)
(*   ht0, ht1    ht_[0], the main table, and ht_[1], the table a rehash    *)
(*               fills.  A table is its size and its buckets; the empty    *)
(*               std::vector is the table of size 0.                       *)
(*   used        used_                                                     *)
(*   rehashidx   rehashidx_                                                *)
(*                                                                         *)
(* A bucket is the set of the entries in its chain.  The order of a chain  *)
(* decides nothing as long as no key occurs twice in it; UniqueKeys of     *)
(* module Dict states that.  std::hash is the CONSTANT Hash.               *)
(*                                                                         *)
(* Operators named Op_Fault, here and in the other modules, are not part   *)
(* of the model: each is Op with a bug the code could have had, for some   *)
(* property to notice.                                                     *)
(***************************************************************************)
EXTENDS Integers, FiniteSets

CONSTANTS
    Key,                \* field names
    Value,              \* values
    NoValue,            \* "not found"
    Hash,               \* std::hash<std::string>
    INIT_HT_SIZE,       \* size of a new table (4 in the code)
    HASHTABLE_MIN_FILL  \* percentage below which a table shrinks (10)

ASSUME DictAssumption ==
    /\ NoValue \notin Value
    /\ Hash \in [Key -> Nat]
    /\ INIT_HT_SIZE \in Nat \ {0}
    /\ HASHTABLE_MIN_FILL \in Nat

Entry == [key : Key, value : Value]

\* ht_[i].resize(n) on an empty vector; Table(0) is ht_[i].clear().
Table(n) == [size |-> n, bucket |-> [i \in 0 .. n-1 |-> {}]]

Record(h0, h1, u, i) == [ht0 |-> h0, ht1 |-> h1, used |-> u, rehashidx |-> i]

NewDict == Record(Table(INIT_HT_SIZE), Table(0), 0, -1)

is_rehashing(d) == d.rehashidx # -1

(* hash(key) % table.size(): where every operation looks for a key. *)
Slot(h, k) == Hash[k] % h.size

\* The nodes of table h that a walk of k's chain finds.
Found(h, k) == {e \in h.bucket[Slot(h, k)] : e.key = k}

\* Table h with the bucket of k replaced by B.
WithBucket(h, k, B) ==
    [size |-> h.size, bucket |-> [h.bucket EXCEPT ![Slot(h, k)] = B]]

-----------------------------------------------------------------------------
(* Starting a rehash. *)

StartRehash(d, n) == Record(d.ht0, Table(n), d.used, 0)

expand_if_needed(d) ==
    IF is_rehashing(d) \/ d.used < d.ht0.size
    THEN d
    ELSE StartRehash(d, 2 * d.ht0.size)

LargerOf(m, n) == IF m < n THEN n ELSE m

shrink_if_needed(d) ==
    IF \/ is_rehashing(d)
       \/ d.ht0.size <= INIT_HT_SIZE
       \/ (d.used * 100) \div d.ht0.size >= HASHTABLE_MIN_FILL
    THEN d
    ELSE StartRehash(d, LargerOf(INIT_HT_SIZE, d.ht0.size \div 2))

-----------------------------------------------------------------------------
(***************************************************************************)
(* rehash_step(n).  The loop passes the buckets of ht_[0] in order from    *)
(* rehashidx_: an occupied one is moved to ht_[1] and uses up one of the n *)
(* rounds, an empty one counts as an empty visit.  It is left              *)
(*   - when the n rounds are used up, or                                   *)
(*   - at an empty visit that brings their number over ten times the       *)
(*     rounds that remain; n was decremented on entry to the round, so     *)
(*     with n = 1 the first empty bucket ends the call; or                 *)
(*   - when it has passed the whole table: the rehash is complete.         *)
(* With used_ = 0 the body is never entered.                               *)
(***************************************************************************)

\* The buckets from rehashidx_ up to, not including, j that hold an entry.
Occupied(d, j) == {i \in d.rehashidx .. j-1 : d.ht0.bucket[i] # {}}

LeavesLoopAt(d, n, j) ==
    LET rounds  == Cardinality(Occupied(d, j))
        skipped == (j - d.rehashidx) - rounds
    IN \/ rounds = n
       \/ /\ j > d.rehashidx
          /\ d.ht0.bucket[j-1] = {}
          /\ skipped > 10 * (n - rounds - 1)

\* At most one element: where the loop ends short of completing the rehash.
LoopExit(d, n) ==
    {j \in d.rehashidx .. d.ht0.size :
        /\ LeavesLoopAt(d, n, j)
        /\ \A i \in d.rehashidx .. j-1 : ~ LeavesLoopAt(d, n, i)}

\* A node keeps the number of its bucket.
PassBuckets_KeepSlot(d, j) ==
    LET passed == d.rehashidx .. j-1
        Take(i) == IF i \in passed THEN d.ht0.bucket[i] ELSE {}
    IN Record([d.ht0 EXCEPT !.bucket = [i \in DOMAIN @ |-> @[i] \ Take(i)]],
              [d.ht1 EXCEPT !.bucket = [i \in DOMAIN @ |-> @[i] \cup Take(i)]],
              d.used, j)

\* Passes the buckets rehashidx_ .. j-1, relinking their nodes into ht_[1].
PassBuckets(d, j) ==
    LET passed == d.rehashidx .. j-1
        moved  == UNION {d.ht0.bucket[i] : i \in passed}
        left   == [i \in 0 .. d.ht0.size-1 |->
                     IF i \in passed THEN {} ELSE d.ht0.bucket[i]]
        filled == [i \in 0 .. d.ht1.size-1 |->
                     d.ht1.bucket[i] \cup {e \in moved : Slot(d.ht1, e.key) = i}]
    IN Record([size |-> d.ht0.size, bucket |-> left],
              [size |-> d.ht1.size, bucket |-> filled],
              d.used, j)

FinishRehash_KeepIndex(d) == Record(d.ht1, Table(0), d.used, d.rehashidx)

FinishRehash_Restart(d) == Record(d.ht1, Table(2 * d.ht1.size), d.used, 0)

\* ht_[0] = std::move(ht_[1]): whatever ht_[0] still holds is destroyed.
FinishRehash(d) == Record(d.ht1, Table(0), d.used, -1)

\* Completes one bucket too early.
rehash_step_LastBucket(d, n) ==
    IF ~ is_rehashing(d) \/ d.used = 0
    THEN d
    ELSE IF LoopExit(d, n) = {}
         THEN FinishRehash(PassBuckets(d, d.ht0.size - 1))
         ELSE PassBuckets(d, CHOOSE j \in LoopExit(d, n) : TRUE)

\* Never puts ht_[1] in the place of ht_[0].
rehash_step_NoFinish(d, n) ==
    IF ~ is_rehashing(d) \/ d.used = 0
    THEN d
    ELSE IF LoopExit(d, n) = {}
         THEN PassBuckets(d, d.ht0.size)
         ELSE PassBuckets(d, CHOOSE j \in LoopExit(d, n) : TRUE)

rehash_step(d, n) ==
    IF ~ is_rehashing(d) \/ d.used = 0
    THEN d
    ELSE IF LoopExit(d, n) = {}
         THEN FinishRehash(PassBuckets(d, d.ht0.size))
         ELSE PassBuckets(d, CHOOSE j \in LoopExit(d, n) : TRUE)

-----------------------------------------------------------------------------
(* The operations on fields. *)

WithMain(d, h, u) == Record(h, d.ht1, u, d.rehashidx)
WithNew(d, h, u)  == Record(d.ht0, h, u, d.rehashidx)

StoreInMain_NoSearch(d, k, v) ==
    LET B == d.ht0.bucket[Slot(d.ht0, k)] \cup {[key |-> k, value |-> v]}
    IN expand_if_needed(WithMain(d, WithBucket(d.ht0, k, B), d.used + 1))

StoreInMain_Uncounted(d, k, v) ==
    LET B == d.ht0.bucket[Slot(d.ht0, k)] \ Found(d.ht0, k)
    IN WithMain(d, WithBucket(d.ht0, k, B \cup {[key |-> k, value |-> v]}), d.used)

\* Inserts in ht_[1] while a rehash is under way.
StoreInMain_IntoNew(d, k, v) ==
    LET h == IF is_rehashing(d) THEN d.ht1 ELSE d.ht0
        B == (h.bucket[Slot(h, k)] \ Found(h, k)) \cup {[key |-> k, value |-> v]}
        u == IF Found(h, k) = {} THEN d.used + 1 ELSE d.used
    IN IF is_rehashing(d) THEN WithNew(d, WithBucket(h, k, B), u)
       ELSE expand_if_needed(WithMain(d, WithBucket(h, k, B), u))

\* Searches and inserts in ht_[0] only, also while a rehash is under way.
StoreInMain(d, k, v) ==
    LET new == [key |-> k, value |-> v]
        old == Found(d.ht0, k)
        B   == d.ht0.bucket[Slot(d.ht0, k)]
    IN IF old # {}
       THEN WithMain(d, WithBucket(d.ht0, k, (B \ old) \cup {new}), d.used)
       ELSE expand_if_needed(
              WithMain(d, WithBucket(d.ht0, k, B \cup {new}), d.used + 1))

set_field(d, k, v) == StoreInMain(rehash_step(d, 1), k, v)

\* The value in a set of nodes of one key.
ValueIn(nodes) ==
    IF nodes = {} THEN NoValue ELSE (CHOOSE e \in nodes : TRUE).value

get_field_MainOnly(d, k) == ValueIn(Found(d.ht0, k))

get_field_NewFirst(d, k) ==
    IF is_rehashing(d) /\ Found(d.ht1, k) # {} THEN ValueIn(Found(d.ht1, k))
    ELSE ValueIn(Found(d.ht0, k))

get_field(d, k) ==
    IF Found(d.ht0, k) # {} THEN ValueIn(Found(d.ht0, k))
    ELSE IF is_rehashing(d) THEN ValueIn(Found(d.ht1, k))
    ELSE NoValue

\* Table h after the node of key k is unlinked.
Unlink(h, k) == WithBucket(h, k, h.bucket[Slot(h, k)] \ Found(h, k))

EraseFirst_NewFirst(d, k) ==
    IF is_rehashing(d) /\ Found(d.ht1, k) # {}
    THEN shrink_if_needed(WithNew(d, Unlink(d.ht1, k), d.used - 1))
    ELSE IF Found(d.ht0, k) # {}
    THEN shrink_if_needed(WithMain(d, Unlink(d.ht0, k), d.used - 1))
    ELSE d

\* Removes the first node found, looking in ht_[0] before ht_[1].
EraseFirst(d, k) ==
    IF Found(d.ht0, k) # {}
    THEN shrink_if_needed(WithMain(d, Unlink(d.ht0, k), d.used - 1))
    ELSE IF is_rehashing(d) /\ Found(d.ht1, k) # {}
    THEN shrink_if_needed(WithNew(d, Unlink(d.ht1, k), d.used - 1))
    ELSE d

del_field(d, k) == EraseFirst(rehash_step(d, 1), k)

\* The nodes get_all() visits, table by table.
Nodes(h) == UNION {h.bucket[i] : i \in 0 .. h.size-1}

\* The number of pairs get_all() returns: a key held by both tables twice.
get_all_length(d) == Cardinality(Nodes(d.ht0)) + Cardinality(Nodes(d.ht1))
=============================================================================
