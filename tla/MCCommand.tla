----------------------------- MODULE MCCommand ------------------------------
(* Every command, complete, with an argument missing and with one too many,
   over two keys and two fields.  The hash table has the four buckets of the
   code, of which two fields never fill enough to start a rehash.  *)
EXTENDS Command

CONSTANTS a, b, f, g, v, big, set_, unknown

MCKey == {a, b, f, g, v, big}
MCHash == a :> 0 @@ b :> 1 @@ f :> 2 @@ g :> 2 @@ v :> 0 @@ big :> 1
MCLength == [s \in MCKey |-> IF s = big THEN 16384 ELSE 1]
MCUpper == set_ :> "SET"

MCRequest ==
    {<<>>, <<"PING">>, <<"SAVE">>, <<"SAVE", a>>, <<"KEYS", "*">>, <<"KEYS", a>>,
     <<"KEYS">>, <<unknown, a>>, <<set_, a>>, <<"SET", a, v, big>>, <<"DEL">>,
     <<"EXISTS">>, <<"GET">>, <<"HGET", a>>, <<"HSET", a, f>>, <<"HSET", a, f, v, g>>,
     <<"HSET", a, f, v, g, v>>}
    \cup {<<set_, k, x>> : k \in DbKey, x \in Value}
    \cup {<<"GET", k>> : k \in DbKey}
    \cup {<<"HSET", k, h, x>> : k \in DbKey, h \in Field, x \in Value}
    \cup {<<"HGET", k, h>> : k \in DbKey, h \in Field}
    \cup {<<c>> \o names : c \in {"DEL", "EXISTS"}, names \in S!Names}
=============================================================================
