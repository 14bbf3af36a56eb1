------------------------------ MODULE Command -------------------------------
(***************************************************************************)
(* The CommandHandler and its database, given one command after another.   *)
(***************************************************************************)
EXTENDS CommandOps

CONSTANTS
    Request,    \* the argument lists that arrive
    DbKey,      \* the keys they name
    Field,      \* and the fields
    MaxNames    \* keys named by one DEL or EXISTS

(* The arguments a handler looks at are keys, fields and values where it takes
   them to be.  Their number is free. *)
Known(args) ==
    LET cmd == toUpper(args[1])
        n   == Len(args)
    IN /\ cmd \in {"SET", "GET", "HSET", "HGET"} /\ n > 1 => args[2] \in DbKey
       /\ cmd \in {"HSET", "HGET"} /\ n > 2 => args[3] \in Field
       /\ cmd = "SET" /\ n > 2 => args[3] \in Value
       /\ cmd = "HSET" /\ n > 3 => args[4] \in Value
       /\ cmd \in {"DEL", "EXISTS"} =>
             n - 1 <= MaxNames /\ \A i \in 2 .. n : args[i] \in DbKey

ASSUME RequestAssumption ==
    /\ \A args \in Request : args \in Seq(ToSet(args)) /\ (args # <<>> => Known(args))
    /\ Field \subseteq Key /\ MaxNames \in Nat

VARIABLES data, reply

vars == <<data, reply>>

Init == data = Empty /\ reply = SimpleString("PONG")

Execute(args) ==
    /\ data' = execute(data, args).data
    /\ reply' = execute(data, args).reply

Next == \E args \in Request : Execute(args)

Spec == Init /\ [][Next]_vars

-----------------------------------------------------------------------------
(* Keys are among those named; every value has one of the two types; no hash
   is empty, there being no command that removes a field.  *)
TypeOK ==
    /\ DOMAIN data \subseteq DbKey
    /\ \A k \in DOMAIN data :
          \/ Holds(data, k, "STRING") /\ data[k].value \in Value
          \/ Holds(data, k, "HASH") /\ size(data[k].hash) > 0

(* A command that is answered with an error has done nothing: every handler
   checks its arguments, and hset the type, before it stores anything.  *)
ErrorsChangeNothing ==
    [][reply'.type = "error" => UNCHANGED data]_vars

(* What a client can read. *)
ValueOf(k) ==
    IF k \notin DOMAIN data THEN [type |-> "none"]
    ELSE IF data[k].type = "STRING" THEN [type |-> "string", value |-> data[k].value]
    ELSE [type |-> "map", fields |-> [f \in Field |-> get_field(data[k].hash, f)]]

S == INSTANCE Store WITH Name <- DbKey, kv <- [k \in DbKey |-> ValueOf(k)]

(* As long as no hash table rehashes, the commands are those of a map from
   keys to strings and maps, whatever the encodings of the hashes are, across
   their promotion, and whatever list of arguments arrives.  *)
ImplementsStore == S!Spec
=============================================================================
