----------------------------- MODULE HashObject -----------------------------
(***************************************************************************)
(* One HashObject and the calls that change it, in any order.              *)
(***************************************************************************)
EXTENDS HashObjectOps

CONSTANTS Rounds, Batch, MaxUsed   \* as in module Dict

VARIABLE obj

\* The hash table inside the object, with the invariants of module Dict.
D == INSTANCE Dict WITH dict <- obj.dict

ASSUME HashCallAssumption == D!BoundAssumption

-----------------------------------------------------------------------------
Init == obj = NewObject

SetField(f, v) ==
    /\ set_field(obj, f, v).dict.used <= MaxUsed
    /\ obj' = set_field(obj, f, v)

DelField(f) == obj' = del_field(obj, f)

\* One turn of the loop of try_rehash_for_ms.
TryRehash ==
    /\ obj.encoding = "HASHTABLE"
    /\ D!is_rehashing(obj.dict)
    /\ obj' = [obj EXCEPT !.dict = D!rehash_step(@, Batch)]

Next ==
    \/ \E f \in Key, v \in Value : SetField(f, v)
    \/ \E f \in Key : DelField(f)
    \/ TryRehash

Spec == Init /\ [][Next]_obj

-----------------------------------------------------------------------------
(* Only the storage the encoding selects is in use; a Dict built by a
   promotion is one that the operations of a Dict could have built.  *)
TypeOK ==
    /\ obj = [encoding |-> obj.encoding, ziplist |-> obj.ziplist, dict |-> obj.dict]
    /\ obj.encoding \in {"ZIPLIST", "HASHTABLE"}
    /\ obj.ziplist \in Seq(D!Entry)
    /\ obj.encoding = "ZIPLIST" => obj.dict = D!NewDict
    /\ obj.encoding = "HASHTABLE" => obj.ziplist = <<>>
    /\ D!TypeOK /\ D!HomeBuckets /\ D!UniqueKeys /\ D!NewTableOnlyPassed

(* A ziplist stays within both limits: the update of a pair in place, which
   checks neither, cannot bring a large value in.  *)
ZiplistWithinLimits ==
    obj.encoding = "ZIPLIST" => should_use_ziplist(obj.ziplist)

(* While the object is a ziplist it is exactly a map: a write changes its
   own field and no other, and a removed field is gone.  *)
ZiplistIsMap ==
    obj.encoding = "ZIPLIST" =>
        \A f \in Key :
           /\ \A g \in Key : get_field(del_field(obj, f), g) =
                                IF g = f THEN NoValue ELSE get_field(obj, g)
           /\ \A v \in Value :
                 set_field(obj, f, v).encoding = "ZIPLIST" =>
                    \A g \in Key : get_field(set_field(obj, f, v), g) =
                                      IF g = f THEN v ELSE get_field(obj, g)

(* A write is read back, also the one that turns the ziplist into a table,
   whether it did so by its size or by the number of pairs.  *)
ReadYourWrite ==
    \A f \in Key, v \in Value : get_field(set_field(obj, f, v), f) = v

(* size() is no smaller than the number of fields that can be read, in both
   encodings and across the promotion.  *)
SizeCoversFields ==
    size(obj) >= Cardinality({f \in Key : get_field(obj, f) # NoValue})

(* No operation, promotion and rehash included, brings in a pair other than
   the one written: no value moves to another field or appears from nowhere. *)
NothingInvented ==
    [][\A e \in Stored(obj') \ Stored(obj) : SetField(e.key, e.value)]_obj

(* HashObject.cpp calls it an upgrade to a hash table: no field that could
   be read is gone after it.  *)
PromotionKeepsFields ==
    [][obj.encoding = "ZIPLIST" /\ obj'.encoding = "HASHTABLE" =>
          \A f \in Key : get_field(obj, f) # NoValue => get_field(obj', f) # NoValue]_obj
=============================================================================
