----------------------------- MODULE Persistence ----------------------------
(***************************************************************************)
(* The server process as its data sees it: the commands that change the    *)
(* database (Database.cpp), SAVE, the signal handler of main.cpp, a crash, *)
(* and the restart that loads dump.rdb.                                    *)
(*                                                                         *)
(* A save truncates the file and then writes key after key through a       *)
(* buffered stream, whose errors nobody looks at; a crash leaves some      *)
(* prefix of what was written.  The handler may interrupt a SAVE, whose    *)
(* stream is then never flushed, or a handler for the other signal, or a   *)
(* write to the database, which it then saves as it finds it.              *)
(***************************************************************************)
EXTENDS Rdb

CONSTANTS
    DbKey,     \* keys of the database
    HashKey,   \* the keys HSET is used with
    Field,     \* the fields HSET is used with
    MaxUsed    \* bound on the fields of a hash table

\* A key, a field and a value are strings: where a load is out of step, any may
\* come to be read for another.
ASSUME PersistenceAssumption ==
    /\ HashKey \subseteq DbKey
    /\ DbKey \cup Field \cup Value \cup {EmptyString} \subseteq Key /\ NoValue \notin Key
    /\ Length \in [Key -> Nat]

VARIABLES
    data,   \* g_db.data_
    proc,   \* "running", "saving" (in SAVE), "exiting" (in the handler),
            \* "nested" (in the handler of the second signal), "down"
    file,   \* dump.rdb
    buf,    \* what the open stream was given
    todo,   \* keys that the save has not written
    snap,   \* the database when the last save began
    acked,  \* that save returned true
    harm    \* what that save suffered: a full disk, an interrupted write

vars == <<data, proc, file, buf, todo, snap, acked, harm>>

Saving == proc \in {"saving", "exiting", "nested"}

Init ==
    /\ data = Empty
    /\ proc = "running"
    /\ file = <<>>
    /\ buf = <<>>
    /\ todo = {}
    /\ snap = Empty
    /\ acked = FALSE
    /\ harm = {}

-----------------------------------------------------------------------------
(* Commands. *)

Execute(db) ==
    /\ proc = "running" /\ data # Unknown
    /\ data' = db
    /\ UNCHANGED <<proc, file, buf, todo, snap, acked, harm>>

Set(k, v) == Execute(set(data, k, v))

\* A key that holds a string is left alone: WRONGTYPE.
HSet(k, f, v) ==
    /\ data # Unknown
    /\ ~ WrongType(data, k)
    /\ set_field(HashAt(data, k), f, v).dict.used <= MaxUsed
    /\ Execute(hset(data, k, f, v))

Del(k) ==
    /\ data # Unknown
    /\ Execute(del(data, <<k>>))

-----------------------------------------------------------------------------
(* What the handler finds of a database that is being written to. *)

Null   == [type |-> "null"]
Broken == [type |-> "HASH", hash |-> [NewObject EXCEPT !.encoding = "TORN"]]

\* The table ht_[0] with B left of the chain that is being moved, and ht_[1]
\* with the nodes M of it.
Left(d, B) == [size |-> d.ht0.size, bucket |-> [d.ht0.bucket EXCEPT ![d.rehashidx] = B]]
Moved(d, M) ==
    [size   |-> d.ht1.size,
     bucket |-> [j \in 0 .. d.ht1.size - 1 |->
                   d.ht1.bucket[j] \cup {e \in M : HT!Slot(d.ht1, e.key) = j}]]

\* After M, the node e is on its way.
Astray(d, M, e) ==
    LET i    == d.rehashidx
        rest == d.ht0.bucket[i] \ (M \cup {e})
        new  == Moved(d, M)
    IN {HT!Record(Left(d, {}), new, d.used, i),
        HT!Record(Left(d, rest), new, d.used, i),
        HT!Record(Left(d, rest), HT!WithBucket(new, e.key, {}), d.used, i)}

\* rehash_step has taken a node out of the chain it moves and not linked it
\* yet: the rest of the chain, or the chain it goes to, hangs on that node.
InFlight(d) ==
    LET i     == d.rehashidx
        chain == d.ht0.bucket[i]
    IN IF ~ HT!is_rehashing(d) \/ i = d.ht0.size THEN {}
       ELSE UNION {UNION {Astray(d, M, e) : e \in chain \ M} : M \in SUBSET chain}

\* set_field hangs the chain on the new node, links that, and counts it.
Linking(d, f, v) ==
    LET B == d.ht0.bucket[HT!Slot(d.ht0, f)]
    IN IF HT!Found(d.ht0, f) # {} THEN {}
       ELSE {HT!WithMain(d, HT!WithBucket(d.ht0, f, C), d.used) : C \in {{}, B \cup {Pair(f, v)}}}

\* The states of the database within a hset, or within the storing of a key
\* that is new, that are neither the one before nor the one after.
Torn(k, f, v) ==
    LET o == HashAt(data, k)
        p == IF o.encoding = "ZIPLIST" /\ {f, v} \cap Large # {}
             THEN promote_to_hashtable(o) ELSE o
        dicts == InFlight(p.dict) \cup Linking(HT!rehash_step(p.dict, 1), f, v)
        With(x) == Assign(data, k, x)
    IN IF k \notin DOMAIN data THEN {With(Null)}
       ELSE IF WrongType(data, k) THEN {}
       ELSE (IF o.encoding # set_field(o, f, v).encoding THEN {With(Broken)} ELSE {})
            \cup (IF p.encoding = "HASHTABLE"
                  THEN {With(HashObject([p EXCEPT !.dict = d])) : d \in dicts} ELSE {})

-----------------------------------------------------------------------------
(* Saving. *)

\* ofstream out(filename): the old dump is gone.
BeginSave(db, h) ==
    /\ data # Unknown
    /\ data' = db
    /\ file' = <<>>
    /\ buf' = Header
    /\ todo' = DOMAIN db
    /\ snap' = db
    /\ acked' = FALSE
    /\ harm' = h

Save == proc = "running" /\ proc' = "saving" /\ BeginSave(data, {})

\* SIGINT or SIGTERM, between two commands or in the middle of a SAVE; then
\* the other one in the middle of the handler.
Signal ==
    /\ proc \in {"running", "saving", "exiting"}
    /\ proc' = IF proc = "exiting" THEN "nested" ELSE "exiting"
    /\ BeginSave(data, IF proc = "exiting" THEN harm ELSE {})

\* The same in the middle of a write.
SignalInWrite(k, f, v) ==
    /\ proc = "running" /\ data # Unknown
    /\ proc' = "exiting"
    /\ \E db \in Torn(k, f, v) : BeginSave(db, {"interrupted"})

\* A null pointer is not written: the process dies of it (Crash).
WriteKey(k) ==
    /\ Saving
    /\ k \in todo /\ data[k] # Null
    /\ \A t \in ToSet(writeKeyValuePair(k, data[k])) : Writable(t)
    /\ buf' = buf \o writeKeyValuePair(k, data[k])
    /\ todo' = todo \ {k}
    /\ UNCHANGED <<data, proc, file, snap, acked, harm>>

\* saveToFile returns: to the SAVE command, or to the handler, which exits.
Return ==
    /\ buf' = <<>>
    /\ todo' = {}
    /\ \/ proc = "saving" /\ proc' = "running" /\ UNCHANGED data
       \/ proc # "saving" /\ proc' = "down" /\ data' = Empty
    /\ UNCHANGED snap

\* writeLen throws, or a variant that holds the other alternative does; the
\* stream is closed and false returned.
FailSave(k) ==
    /\ Saving
    /\ k \in todo /\ data[k] # Null
    /\ \E t \in ToSet(writeKeyValuePair(k, data[k])) : ~ Writable(t)
    /\ file' = buf \o BeforeError(writeKeyValuePair(k, data[k]))
    /\ Return
    /\ UNCHANGED <<acked, harm>>

EndSave_KeepsWriting ==
    /\ Saving
    /\ todo = {}
    /\ file' = buf \o Footer
    /\ acked' = TRUE
    /\ proc' = IF proc = "saving" THEN "running" ELSE "down"
    /\ data' = IF proc = "saving" THEN data ELSE Empty
    /\ UNCHANGED <<buf, todo, snap, harm>>

EndSave ==
    /\ Saving
    /\ todo = {}
    /\ file' = buf \o Footer
    /\ acked' = TRUE
    /\ Return
    /\ UNCHANGED harm

\* The disk is full: from some byte on the stream drops what it is given.
EndSaveShort ==
    /\ Saving
    /\ todo = {}
    /\ \E n \in 0 .. Len(buf \o Footer) - 1 : file' = SubSeq(buf \o Footer, 1, n)
    /\ acked' = TRUE
    /\ harm' = harm \cup {"full disk"}
    /\ Return

-----------------------------------------------------------------------------
(* Crash and restart. *)

Crash ==
    /\ proc # "down"
    /\ proc' = "down"
    /\ data' = Empty
    /\ IF Saving THEN \E n \in 0 .. Len(buf) : file' = SubSeq(buf, 1, n)
                 ELSE UNCHANGED file
    /\ buf' = <<>>
    /\ todo' = {}
    /\ UNCHANGED <<snap, acked, harm>>

\* Database::Database(), before main.
Restart ==
    /\ proc = "down"
    /\ proc' = "running"
    /\ data' = loadFromFile(file)
    /\ UNCHANGED <<file, buf, todo, snap, acked, harm>>

Next ==
    \/ \E k \in DbKey, v \in Value : Set(k, v)
    \/ \E k \in HashKey, f \in Field, v \in Value : HSet(k, f, v)
    \/ \E k \in DbKey, f \in Field, v \in Value : SignalInWrite(k, f, v)
    \/ \E k \in DbKey : Del(k) \/ WriteKey(k) \/ FailSave(k)
    \/ Save \/ Signal \/ EndSave \/ EndSaveShort \/ Crash \/ Restart

Spec == Init /\ [][Next]_vars

-----------------------------------------------------------------------------
\* What a client can read of a database.
ViewOf(x) ==
    IF x.type # "HASH" THEN x
    ELSE [type |-> "HASH", fields |-> [f \in Field |-> get_field(x.hash, f)]]

View(db) == IF db = Unknown THEN Unknown ELSE [k \in DOMAIN db |-> ViewOf(db[k])]

(* A stream is open exactly while a save runs, and writes only keys of the
   database it began with.  *)
TypeOK ==
    /\ proc \in {"running", "saving", "exiting", "nested", "down"}
    /\ proc = "down" => data = Empty
    /\ buf = <<>> <=> ~ Saving
    /\ todo \subseteq DOMAIN snap
    /\ Saving => data = snap
    /\ acked \in BOOLEAN /\ harm \subseteq {"full disk", "interrupted"}

Tables(db) ==
    {db[k].hash.dict : k \in {j \in DOMAIN db : db[j].type = "HASH" /\ db[j].hash.encoding = "HASHTABLE"}}

Pairs(d) == HT!Nodes(d.ht0) \cup HT!Nodes(d.ht1)

\* Each hash counts what it stores.  Dict gives that up when a rehash ends over a
\* bucket that was written to after it was passed, and within a write.
Counted(db) == \A d \in Tables(db) : d.used = HT!get_all_length(d)

\* ... and once: the copy a read finds need not be the one a load keeps.
Exact(db) ==
    /\ Counted(db)
    /\ \A d \in Tables(db) : d.used = Cardinality({e.key : e \in Pairs(d)})

\* A wrong count is noticed where the last key ends: the end of the file is no
\* string, and the length that begins a field no type.
Lone(db) ==
    /\ Cardinality(DOMAIN db) = 1
    /\ \A d \in Tables(db) : \A e \in Pairs(d) : Length[e.key] \notin {0, 2} /\ Length[e.key] < 64

\* What is written can be read: writeLen and readLen agree on every length of a
\* string, and on every number of pairs, but on those that writeLen refuses.
Legible(db) ==
    \A k \in DOMAIN db : db[k] # Null =>
        \A t \in ToSet(writeKeyValuePair(k, db[k])) :
            t.kind \in {"num", "str"} /\ Writable(t) => RL!Faithful(LengthOf(t))

Hashes(db) ==
    {db[k].hash : k \in {j \in DOMAIN db : db[j].type = "HASH" /\ db[j].hash.encoding # "TORN"}}

\* The hash that stores the pairs of o again, one after the other.
Refilled(o) == FoldLeft(LAMBDA h, e : set_field(h, e.key, e.value), NewObject, get_all_fields(o))

\* ... reads as o does.  The rehashes of a growing table may destroy pairs.
Refills(db) == \A o \in Hashes(db) : \A f \in Field : get_field(Refilled(o), f) = get_field(o, f)

\* A hash that is a ziplist again, or too small for its table to grow.
Small(db) == \A o \in Hashes(db) : should_use_ziplist(get_all_fields(o)) \/ size(o) < INIT_HT_SIZE

\* What a load can restore: hashes of few pairs, each counted once, in whatever
\* encoding and however far into a rehash or a write the save found them; and
\* larger ones, unless a growing table loses pairs as they are stored again.
Restorable(db) ==
    /\ Legible(db)
    /\ (Exact(db) /\ Small(db)) \/ (Counted(db) /\ Refills(db))

(* Whatever happened during a save, crash, full disk, signal, a string that
   is too long, the file holds the whole database of that moment or loads as
   nothing; no part of it is ever loaded.  Also of a database that a signal
   found within a write, when its last hash is its only key.  *)
SnapshotOrNothing ==
    /\ ~ Saving
    /\ Restorable(snap) \/ (Legible(snap) /\ ~ Counted(snap) /\ Lone(snap))
    => View(loadFromFile(file)) \in {View(Empty), View(snap)}

(* Once a save has returned true, and until the next one begins, the file
   holds what it saved, also of a hash in the middle of a rehash: a crash at
   any moment loses only what was written since.  *)
AckedSaveSurvives ==
    acked /\ "full disk" \notin harm /\ ~ Saving /\ Restorable(snap)
    => View(loadFromFile(file)) = View(snap)

(* Database.cpp:12 says that the constructor restores the data from dump.rdb:
   what a save that met with no harm has stored is what comes back.  *)
RestartRestores ==
    [][proc = "down" /\ proc' = "running" /\ acked /\ harm = {} =>
          View(data') = View(snap)]_vars
=============================================================================
