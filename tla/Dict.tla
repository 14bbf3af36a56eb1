-------------------------------- MODULE Dict --------------------------------
(***************************************************************************)
(* One Dict object and the calls that change it, in any order.  The const  *)
(* members get_field and get_all are read off the state.                   *)
(***************************************************************************)
EXTENDS DictOps

CONSTANTS
    Rounds,   \* arguments of rehash_step
    Batch,    \* the one try_rehash_for_ms passes (100)
    MaxUsed   \* bound on used_

ASSUME BoundAssumption ==
    Rounds \subseteq Nat /\ Batch \in Rounds \ {0} /\ MaxUsed \in Nat

VARIABLE dict

Init == dict = NewDict

SetField(k, v) ==
    /\ set_field(dict, k, v).used <= MaxUsed
    /\ dict' = set_field(dict, k, v)

DelField(k) == dict' = del_field(dict, k)

\* One turn of the loop of try_rehash_for_ms; the deadline may end the call
\* after any number of turns.
RehashStep(n) ==
    /\ is_rehashing(dict)
    /\ dict' = rehash_step(dict, n)

Next ==
    \/ \E k \in Key, v \in Value : SetField(k, v)
    \/ \E k \in Key : DelField(k)
    \/ \E n \in Rounds : RehashStep(n)

Spec == Init /\ [][Next]_dict

(* The loop of try_rehash_for_ms is entered again and again while the table
   rehashes: the owner gives it time.  *)
FairSpec == Spec /\ WF_dict(RehashStep(Batch))

-----------------------------------------------------------------------------
(* Invariants.  Each is stated of a dict, then of the variable. *)

IsTable(h) ==
    /\ h = [size |-> h.size, bucket |-> h.bucket]
    /\ h.size \in Nat
    /\ h.bucket \in [0 .. h.size-1 -> SUBSET Entry]

IsDict(d) ==
    /\ d = Record(d.ht0, d.ht1, d.used, d.rehashidx)
    /\ IsTable(d.ht0)
    /\ IsTable(d.ht1)
    /\ d.used \in Nat
    /\ d.rehashidx \in {-1} \cup (0 .. d.ht0.size)
    /\ d.ht0.size > 0
    /\ is_rehashing(d) <=> d.ht1.size > 0

(* The members have their types, rehashidx_ stays within ht_[0], which is
   never empty, and ht_[1] is in use exactly during a rehash: the early
   return for an empty ht_[0] in rehash_step is dead code.  *)
TypeOK == IsDict(dict)

AtHome(h) == \A i \in 0 .. h.size-1 : \A e \in h.bucket[i] : Slot(h, e.key) = i

(* Every node is in the bucket its hash selects in its own table, the
   bucket every walk for its key starts from.  *)
HomeBuckets == AtHome(dict.ht0) /\ AtHome(dict.ht1)

Unique(h) ==
    \A i \in 0 .. h.size-1 : \A e, f \in h.bucket[i] : e.key = f.key => e = f

(* No chain of a table holds a key twice, whatever mixture of inserts,
   removals and migrations produced it.  *)
UniqueKeys == Unique(dict.ht0) /\ Unique(dict.ht1)

(* The bucket of k in ht_[0] is one that the current rehash has passed.  *)
Passed(d, k) == is_rehashing(d) /\ Slot(d.ht0, k) < d.rehashidx

OnlyPassed(d) ==
    \A i \in 0 .. d.ht1.size-1 : \A e \in d.ht1.bucket[i] : Passed(d, e.key)

(* ht_[1] only holds keys whose bucket of ht_[0] has been passed.  So the
   rehash can never relink a node into a chain that holds its key already:
   a key found in both tables has its ht_[0] copy in a passed bucket.  *)
NewTableOnlyPassed == OnlyPassed(dict)

(* used_ never falls below the number of nodes stored, so del_field never
   drives it negative, where shrink_if_needed would divide it as an unsigned
   number.  It may be larger: the end of a rehash destroys nodes uncounted. *)
UsedCoversNodes == dict.used >= get_all_length(dict)

(* What a set_field stores is what get_field returns next, also when the
   write lands in a bucket the rehash has passed, or ends the rehash.  *)
ReadYourWrite ==
    \A k \in Key, v \in Value : get_field(set_field(dict, k, v), k) = v

-----------------------------------------------------------------------------
(* Action properties. *)

RehashEnds == is_rehashing(dict) /\ dict'.ht0 # dict.ht0 /\ dict'.rehashidx <= 0

(* What get_field returns for a key changes only by set_field or del_field
   of that key, or because the rehash ends while ht_[0] holds the key in a
   bucket that was already passed.  *)
OnlyStrandedLost ==
    [][\A k \in Key :
          get_field(dict', k) # get_field(dict, k) =>
             \/ Passed(dict, k) /\ Found(dict.ht0, k) # {} /\ RehashEnds
             \/ \E v \in Value : SetField(k, v)
             \/ DelField(k)]_dict

-----------------------------------------------------------------------------
(* Refinement: the table implements the two-layer map of module LossyMap. *)

TopLayer ==
    [k \in Key |-> IF Passed(dict, k) THEN ValueIn(Found(dict.ht0, k)) ELSE NoValue]

BaseLayer ==
    [k \in Key |-> IF Passed(dict, k) THEN ValueIn(Found(dict.ht1, k))
                                ELSE ValueIn(Found(dict.ht0, k))]

LM == INSTANCE LossyMap WITH
        base <- BaseLayer, top <- TopLayer, open <- is_rehashing(dict)

(* Every behaviour of the table is one of the two-layer map.  *)
ImplementsLossyMap == LM!Spec

(* The map's reads are get_field.  *)
ReadsAgree == \A k \in Key : LM!Visible(k) = get_field(dict, k)

-----------------------------------------------------------------------------
(* Liveness. *)

(* A rehash that is driven by try_rehash_for_ms leaves every index behind,
   as long as the table counts any element.  With used_ = 0 rehash_step
   does nothing and the rehash stays open.  *)
RehashProgresses ==
    \A i \in 0 .. LargerOf(INIT_HT_SIZE, 2 * MaxUsed) :
        dict.rehashidx = i ~> (dict.rehashidx # i \/ dict.used = 0)

=============================================================================
