---------------------------- MODULE MCHashObject ----------------------------
(* Four or five fields and a table that starts with two buckets, so that
   promoting a full ziplist drives the new table into a rehash, with five
   through the whole of it.  *)
EXTENDS HashObject, TLC

CONSTANTS k1, k2, k3, k4, k5

MCKey == {k1, k2, k3, k4, k5}
MCFour == {k1, k2, k3, k5}
MCHash ==
    [k \in Key |-> (k1 :> 0 @@ k2 :> 1 @@ k3 :> 2 @@ k4 :> 5 @@ k5 :> 3)[k]]
=============================================================================
