--------------------------- MODULE MCPersistence ----------------------------
EXTENDS Persistence

CONSTANTS a, b, f, g, v, w, big, empty

MCKey == {a, b, f, g, v, w, big, empty}
MCHash == a :> 0 @@ b :> 0 @@ f :> 0 @@ g :> 1 @@ v :> 0 @@ w :> 0 @@ big :> 0 @@ empty :> 0

\* Strings of one byte, but for one that is too long to be saved.
MCLength == [s \in MCKey |-> IF s = big THEN 16384 ELSE IF s = empty THEN 0 ELSE 1]
=============================================================================
