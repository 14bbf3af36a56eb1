----------------------------- MODULE RehashLoop -----------------------------
(***************************************************************************)
(* The loops of Dict::rehash_step, one condition and one bucket at a time. *)
(* DictOps states what the call does in one formula, rehash_step; here the *)
(* code is walked through and compared with it where it returns.           *)
(***************************************************************************)
EXTENDS DictOps

CONSTANTS
    Starts,  \* the dicts the call may be made on
    Args     \* the values of its parameter n

ASSUME CallAssumption ==
    /\ Args \subseteq Nat
    /\ \A s \in Starts :
          /\ s.ht0.size \in Nat /\ s.ht1.size \in Nat /\ s.used \in Nat
          /\ s.rehashidx \in {-1} \cup (0 .. s.ht0.size)

ASSUME RecordAssumption ==
    \A s \in Starts :
       /\ s = Record(s.ht0, s.ht1, s.used, s.rehashidx)
       /\ \A h \in {s.ht0, s.ht1} :
             /\ h = [size |-> h.size, bucket |-> h.bucket]
             /\ h.bucket = [i \in 0 .. h.size-1 |-> h.bucket[i]]

VARIABLES
    start, arg,    \* the object and the argument of the call
    d, n,          \* the object and the parameter as the loop changes them
    empty_visits,
    pc             \* "rounds", "visit" or "returned"

vars == <<start, arg, d, n, empty_visits, pc>>

Init ==
    /\ start \in Starts
    /\ arg \in Args
    /\ d = start
    /\ n = arg
    /\ empty_visits = 0
    /\ pc = "rounds"

(* while (n-- && used_ > 0), after the early return of a table at rest. *)
NextRound ==
    /\ pc = "rounds"
    /\ n' = n - 1
    /\ pc' = IF is_rehashing(d) /\ n # 0 /\ d.used > 0 THEN "visit" ELSE "returned"
    /\ UNCHANGED <<start, arg, d, empty_visits>>

SkipBucket_OneEarlier ==
    /\ pc = "visit"
    /\ d.rehashidx < d.ht0.size
    /\ d.ht0.bucket[d.rehashidx] = {}
    /\ d' = [d EXCEPT !.rehashidx = @ + 1]
    /\ empty_visits' = empty_visits + 1
    /\ pc' = IF empty_visits' >= 10 * n THEN "returned" ELSE "visit"
    /\ UNCHANGED <<start, arg, n>>

SkipBucket_StaysThere ==
    /\ pc = "visit"
    /\ d.rehashidx < d.ht0.size
    /\ d.ht0.bucket[d.rehashidx] = {}
    /\ UNCHANGED vars

(* The inner loop passes one empty bucket, n counting the rounds left. *)
SkipBucket ==
    /\ pc = "visit"
    /\ d.rehashidx < d.ht0.size
    /\ d.ht0.bucket[d.rehashidx] = {}
    /\ d' = [d EXCEPT !.rehashidx = @ + 1]
    /\ empty_visits' = empty_visits + 1
    /\ pc' = IF empty_visits' > 10 * n THEN "returned" ELSE "visit"
    /\ UNCHANGED <<start, arg, n>>

(* The chain at rehashidx_ is relinked into ht_[1]. *)
MoveBucket ==
    /\ pc = "visit"
    /\ d.rehashidx < d.ht0.size
    /\ LET chain == d.ht0.bucket[d.rehashidx]
           old == [i \in 0 .. d.ht0.size-1 |->
                     IF i = d.rehashidx THEN {} ELSE d.ht0.bucket[i]]
           new == [i \in 0 .. d.ht1.size-1 |->
                     d.ht1.bucket[i] \cup {e \in chain : Slot(d.ht1, e.key) = i}]
       IN /\ chain # {}
          /\ d' = Record([size |-> d.ht0.size, bucket |-> old],
                         [size |-> d.ht1.size, bucket |-> new], d.used, d.rehashidx + 1)
    /\ pc' = "rounds"
    /\ UNCHANGED <<start, arg, n, empty_visits>>

(* The whole table has been passed: ht_[1] becomes the table. *)
Complete ==
    /\ pc = "visit"
    /\ d.rehashidx >= d.ht0.size
    /\ d' = FinishRehash(d)
    /\ pc' = "returned"
    /\ UNCHANGED <<start, arg, n, empty_visits>>

Next == NextRound \/ SkipBucket \/ MoveBucket \/ Complete

(* The loop runs in one thread and nothing suspends it. *)
Spec == Init /\ [][Next]_vars /\ WF_vars(Next)

-----------------------------------------------------------------------------
(* Where the code returns, the object is what the formula says.  *)
ComputesRehashStep == pc = "returned" => d = rehash_step(start, arg)

(* The call returns, whatever the table and the argument.  *)
Returns == <>(pc = "returned")

(* A call on a table that counts an element passes a bucket or completes
   the rehash: the caller's loop in try_rehash_for_ms cannot spin in place. *)
MakesProgress ==
    pc = "returned" /\ is_rehashing(start) /\ start.used > 0 /\ arg > 0 =>
        ~ is_rehashing(d) \/ d.rehashidx > start.rehashidx
=============================================================================
