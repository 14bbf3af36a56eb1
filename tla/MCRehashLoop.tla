---------------------------- MODULE MCRehashLoop ----------------------------
(* Tables of sixteen buckets with at most two of them occupied, so that runs
   of empty buckets reach both limits a call can meet: none with one round
   left, ten with two.  *)
EXTENDS RehashLoop

CONSTANT v

MCSize == 16
MCKey  == 0 .. MCSize-1
MCHash == [k \in MCKey |-> k]

MainTable(occupied) ==
    [size |-> MCSize,
     bucket |-> [i \in MCKey |-> IF i \in occupied THEN {[key |-> i, value |-> v]} ELSE {}]]

\* The count may exceed the nodes left: an earlier rehash destroyed some.
MCStarts ==
    {[ht0 |-> MainTable({i, j}), ht1 |-> Table(2 * MCSize), used |-> u, rehashidx |-> r] :
        i \in MCKey, j \in MCKey, u \in {2, 3}, r \in {0, 1, 5, 12, 16}}
    \cup
    {[ht0 |-> MainTable({}), ht1 |-> Table(2 * MCSize), used |-> u, rehashidx |-> r] :
        u \in {0, 1}, r \in {0, 1, 5, 16}}
    \cup
    {[ht0 |-> MainTable({0}), ht1 |-> Table(0), used |-> 1, rehashidx |-> -1]}
=============================================================================
