----------------------------- MODULE CommandOps -----------------------------
(***************************************************************************)
(* The commands of Command.cpp over the key space of module Database.  A   *)
(* command is the sequence of its arguments, the name first; its result is *)
(* the database it leaves and the reply.                                   *)
(***************************************************************************)
EXTENDS Rdb

CONSTANT Upper   \* std::toupper on the arguments it changes

toUpper(s) == IF s \in DOMAIN Upper THEN Upper[s] ELSE s

-----------------------------------------------------------------------------
(* Replies, named for the functions of Protocol.cpp that encode them. *)

SimpleString(s) == [type |-> "simple", text |-> s]
Error           == [type |-> "error"]
Integer(n)      == [type |-> "integer", number |-> n]
Keys(K)         == [type |-> "array", keys |-> K]

\* encodeBulkString, or encodeNullBulkString for what was not found.
Bulk(v) == [type |-> "bulk", value |-> v]

Reply(db, r) == [data |-> db, reply |-> r]

-----------------------------------------------------------------------------
(* The handlers. *)

handlePing(db, args) == Reply(db, SimpleString("PONG"))

\* Arguments after the value are not looked at.
handleSet(db, args) ==
    IF Len(args) < 3 THEN Reply(db, Error)
    ELSE Reply(set(db, args[2], args[3]), SimpleString("OK"))

handleGet(db, args) ==
    IF Len(args) # 2 THEN Reply(db, Error)
    ELSE Reply(db, Bulk(get(db, args[2])))

handleHSet_Overwrites(db, args) ==
    IF Len(args) < 4 \/ Len(args) % 2 # 0
    THEN Reply(db, Error)
    ELSE Reply(hset(db, args[2], args[3], args[4]),
               IF WrongType(db, args[2]) THEN Error ELSE Integer(1))

\* Of several field-value pairs only the first is stored; the reply is
\* always 1, also for a field that existed.
handleHSet(db, args) ==
    IF Len(args) < 4 \/ Len(args) % 2 # 0 \/ WrongType(db, args[2])
    THEN Reply(db, Error)
    ELSE Reply(hset(db, args[2], args[3], args[4]), Integer(1))

handleHGet(db, args) ==
    IF Len(args) # 3 THEN Reply(db, Error)
    ELSE Reply(db, Bulk(hget(db, args[2], args[3])))

handleDel_CountsNames(db, args) ==
    IF Len(args) < 2 THEN Reply(db, Error)
    ELSE Reply(del(db, Tail(args)), Integer(exists(db, Tail(args))))

handleDel(db, args) ==
    IF Len(args) < 2 THEN Reply(db, Error)
    ELSE Reply(del(db, Tail(args)), Integer(deleted(db, Tail(args))))

handleExists(db, args) ==
    IF Len(args) < 2 THEN Reply(db, Error)
    ELSE Reply(db, Integer(exists(db, Tail(args))))

handleKeys(db, args) ==
    IF Len(args) # 2 THEN Reply(db, Error)
    ELSE Reply(db, Keys(getAllKeys(db, args[2])))

\* saveToFile succeeds unless a string is too long for writeLen.
handleSave(db, args) ==
    Reply(db, IF Len(args) = 1 /\ Savable(db) THEN SimpleString("OK") ELSE Error)

execute(db, args) ==
    IF args = <<>> THEN Reply(db, Error)
    ELSE LET cmd == toUpper(args[1])
         IN CASE cmd = "PING"   -> handlePing(db, args)
              [] cmd = "SET"    -> handleSet(db, args)
              [] cmd = "GET"    -> handleGet(db, args)
              [] cmd = "HSET"   -> handleHSet(db, args)
              [] cmd = "HGET"   -> handleHGet(db, args)
              [] cmd = "DEL"    -> handleDel(db, args)
              [] cmd = "EXISTS" -> handleExists(db, args)
              [] cmd = "KEYS"   -> handleKeys(db, args)
              [] cmd = "SAVE"   -> handleSave(db, args)
              [] OTHER          -> Reply(db, Error)
=============================================================================
