------------------------------ MODULE Database ------------------------------
(***************************************************************************)
(* The key space of Database.cpp: data_ as a function from the keys that   *)
(* exist to their objects, and one operator for each member function.      *)
(***************************************************************************)
EXTENDS HashObjectOps

StringObject(v) == [type |-> "STRING", value |-> v]
HashObject(o)   == [type |-> "HASH", hash |-> o]
Empty == <<>>

Holds(db, k, type) == k \in DOMAIN db /\ db[k].type = type

\* data_[k] = x.
Assign(db, k, x) == [j \in DOMAIN db \cup {k} |-> IF j = k THEN x ELSE db[j]]

set(db, k, v) == Assign(db, k, StringObject(v))

get(db, k) == IF Holds(db, k, "STRING") THEN db[k].value ELSE NoValue

\* hset throws on a key that holds something else than a hash.
WrongType(db, k) == k \in DOMAIN db /\ db[k].type # "HASH"

HashAt(db, k) == IF Holds(db, k, "HASH") THEN db[k].hash ELSE NewObject

hset_CreatesOnly(db, k, f, v) ==
    Assign(db, k, HashObject(IF k \in DOMAIN db THEN set_field(HashAt(db, k), f, v)
                            ELSE NewObject))

hset(db, k, f, v) == Assign(db, k, HashObject(set_field(HashAt(db, k), f, v)))

hget(db, k, f) ==
    IF Holds(db, k, "HASH") THEN get_field(db[k].hash, f) ELSE NoValue

\* What del leaves, and what it returns: a key named twice counts once.
del(db, keys)     == [k \in DOMAIN db \ ToSet(keys) |-> db[k]]
deleted(db, keys) == Cardinality(DOMAIN db \cap ToSet(keys))

\* A key named twice counts twice.
exists(db, keys) == Cardinality({i \in DOMAIN keys : keys[i] \in DOMAIN db})

\* "*" is the only pattern.
getAllKeys(db, pattern) == IF pattern = "*" THEN DOMAIN db ELSE {}
=============================================================================
