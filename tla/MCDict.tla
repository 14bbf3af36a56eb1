------------------------------- MODULE MCDict -------------------------------
(* Four fields over a table that starts with two buckets, so that a rehash
   to four and to eight buckets, shared chains, and a shrink all happen.  *)
EXTENDS Dict, TLC

CONSTANTS k1, k2, k3, k4

MCKey == {k1, k2, k3, k4}

\* k1 and k3 share a bucket of the first table and part in the second;
\* k2 and k4 share theirs until the table has eight buckets.
MCHash == k1 :> 0 @@ k2 :> 1 @@ k3 :> 2 @@ k4 :> 5

=============================================================================
