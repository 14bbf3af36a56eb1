--------------------------- MODULE HashObjectOps ----------------------------
(***************************************************************************)
(* The value of a hash key (HashObject.hpp, HashObject.cpp), as operators  *)
(* on a record.  It starts as a ziplist, a vector of pairs, and becomes a  *)
(* Dict for good as soon as it has ZIPLIST_MAX_ENTRIES pairs or is given a *)
(* large field or value.                                                   *)
(*                                                                         *)
(* The std::variant storage_ is two fields of the record; the one that the *)
(* encoding does not select is empty.                                      *)
(***************************************************************************)
EXTENDS Integers, Sequences, SequencesExt

CONSTANTS
    Key, Value, NoValue, Hash, INIT_HT_SIZE, HASHTABLE_MIN_FILL,
    ZIPLIST_MAX_ENTRIES,  \* 512
    Large                 \* fields and values over ZIPLIST_MAX_ENTRY_SIZE

HT == INSTANCE DictOps

ASSUME HashObjectAssumption ==
    /\ HT!DictAssumption
    /\ ZIPLIST_MAX_ENTRIES \in Nat \ {0} /\ Large \subseteq Key \cup Value

Pair(f, v) == [key |-> f, value |-> v]

NewObject == [encoding |-> "ZIPLIST", ziplist |-> <<>>, dict |-> HT!NewDict]

\* The position of field f, 0 for end().
find_in_ziplist(zl, f) == SelectInSeq(zl, LAMBDA e : e.key = f)

should_use_ziplist(zl) ==
    /\ Len(zl) < ZIPLIST_MAX_ENTRIES
    /\ \A i \in DOMAIN zl : {zl[i].key, zl[i].value} \cap Large = {}

promote_to_hashtable_NoEncoding(o) ==
    [o EXCEPT !.ziplist = <<>>,
              !.dict = FoldLeft(LAMBDA d, e : HT!set_field(d, e.key, e.value),
                                HT!NewDict, o.ziplist)]

promote_to_hashtable(o) ==
    [encoding |-> "HASHTABLE",
     ziplist  |-> <<>>,
     dict     |-> FoldLeft(LAMBDA d, e : HT!set_field(d, e.key, e.value),
                           HT!NewDict, o.ziplist)]

StoreInZiplist_Append(o, f, v) ==
    LET longer == [o EXCEPT !.ziplist = Append(@, Pair(f, v))]
    IN IF should_use_ziplist(longer.ziplist) THEN longer ELSE promote_to_hashtable(longer)

StoreInZiplist_PromoteFirst(o, f, v) ==
    LET i == find_in_ziplist(o.ziplist, f)
        longer == [o EXCEPT !.ziplist = Append(@, Pair(f, v))]
    IN IF i # 0 THEN [o EXCEPT !.ziplist[i].value = v]
       ELSE IF should_use_ziplist(longer.ziplist) THEN longer
       ELSE promote_to_hashtable(o)

\* The limits are checked when a pair is appended, not when one is updated.
StoreInZiplist(o, f, v) ==
    LET i == find_in_ziplist(o.ziplist, f)
        longer == [o EXCEPT !.ziplist = Append(@, Pair(f, v))]
    IN IF i # 0 THEN [o EXCEPT !.ziplist[i].value = v]
       ELSE IF should_use_ziplist(longer.ziplist) THEN longer
       ELSE promote_to_hashtable(longer)

set_field_Unchecked(o, f, v) ==
    IF o.encoding = "ZIPLIST" THEN StoreInZiplist(o, f, v)
    ELSE [o EXCEPT !.dict = HT!set_field(@, f, v)]

set_field(o, f, v) ==
    LET p == IF o.encoding = "ZIPLIST" /\ {f, v} \cap Large # {}
             THEN promote_to_hashtable(o) ELSE o
    IN IF p.encoding = "ZIPLIST" THEN StoreInZiplist(p, f, v)
       ELSE [p EXCEPT !.dict = HT!set_field(@, f, v)]

get_field(o, f) ==
    LET i == find_in_ziplist(o.ziplist, f)
    IN IF o.encoding = "HASHTABLE" THEN HT!get_field(o.dict, f)
       ELSE IF i # 0 THEN o.ziplist[i].value
       ELSE NoValue

\* Fills the gap with the last pair, but for its name.
del_field_MovesValue(o, f) ==
    LET i == find_in_ziplist(o.ziplist, f)
    IN IF o.encoding = "HASHTABLE" THEN [o EXCEPT !.dict = HT!del_field(@, f)]
       ELSE IF i # 0
       THEN [o EXCEPT !.ziplist = Front([@ EXCEPT ![i].value = Last(o.ziplist).value])]
       ELSE o

del_field(o, f) ==
    LET i == find_in_ziplist(o.ziplist, f)
    IN IF o.encoding = "HASHTABLE" THEN [o EXCEPT !.dict = HT!del_field(@, f)]
       ELSE IF i # 0 THEN [o EXCEPT !.ziplist = RemoveAt(@, i)]
       ELSE o

size_Buckets(o) ==
    IF o.encoding = "ZIPLIST" THEN Len(o.ziplist) ELSE o.dict.ht0.size

size(o) == IF o.encoding = "ZIPLIST" THEN Len(o.ziplist) ELSE o.dict.used

\* The pairs of get_all_fields, without the order and the repetitions.
Stored(o) ==
    IF o.encoding = "ZIPLIST" THEN ToSet(o.ziplist)
    ELSE HT!Nodes(o.dict.ht0) \cup HT!Nodes(o.dict.ht1)
=============================================================================
