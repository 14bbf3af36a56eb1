------------------------------- MODULE Store --------------------------------
(***************************************************************************)
(* What the commands promise a client: a map from keys to typed values,    *)
(* without encodings, tables and argument lists.  A value is nothing, a    *)
(* string, or a map from fields to values.                                 *)
(***************************************************************************)
EXTENDS Integers, Sequences, FiniteSets

CONSTANTS Name, Field, Value, NoValue,
          MaxNames   \* of one DEL or EXISTS

VARIABLES
    kv,     \* the value of every key
    reply   \* to the last command

vars == <<kv, reply>>

Nothing   == [type |-> "none"]
String(v) == [type |-> "string", value |-> v]
Map(m)    == [type |-> "map", fields |-> m]
EmptyMap  == Map([f \in Field |-> NoValue])

Existing == {k \in Name : kv[k] # Nothing}

Names == UNION {[1 .. n -> Name] : n \in 1 .. MaxNames}

Simple(s)  == [type |-> "simple", text |-> s]
Integer(n) == [type |-> "integer", number |-> n]
Bulk(v)    == [type |-> "bulk", value |-> v]
Keys(K)    == [type |-> "array", keys |-> K]
Error      == [type |-> "error"]

Init == kv = [k \in Name |-> Nothing] /\ reply = Simple("PONG")

Answer(r) == reply' = r /\ UNCHANGED kv

Set(k, v) == kv' = [kv EXCEPT ![k] = String(v)] /\ reply' = Simple("OK")

Get(k) == Answer(Bulk(IF kv[k].type = "string" THEN kv[k].value ELSE NoValue))

\* Creates the map it writes to, and is refused by a string.
HSet(k, f, v) ==
    LET m == IF kv[k] = Nothing THEN EmptyMap ELSE kv[k]
    IN /\ m.type = "map"
       /\ kv' = [kv EXCEPT ![k] = Map([m.fields EXCEPT ![f] = v])]
       /\ reply' = Integer(1)

HGet(k, f) == Answer(Bulk(IF kv[k].type = "map" THEN kv[k].fields[f] ELSE NoValue))

Del(names) ==
    LET gone == {names[i] : i \in DOMAIN names}
    IN /\ kv' = [k \in Name |-> IF k \in gone THEN Nothing ELSE kv[k]]
       /\ reply' = Integer(Cardinality(Existing \cap gone))

Exists(names) == Answer(Integer(Cardinality({i \in DOMAIN names : names[i] \in Existing})))

\* PING and SAVE, a pattern that is not supported, and what is refused.
Other == \E r \in {Simple("PONG"), Simple("OK"), Keys({}), Error} : Answer(r)

Next ==
    \/ \E k \in Name, v \in Value : Set(k, v)
    \/ \E k \in Name : Get(k)
    \/ \E k \in Name, f \in Field : HGet(k, f) \/ \E v \in Value : HSet(k, f, v)
    \/ \E names \in Names : Del(names) \/ Exists(names)
    \/ Answer(Keys(Existing))
    \/ Other

Spec == Init /\ [][Next]_vars
=============================================================================
