----------------------------- MODULE LossyMap ------------------------------
(***************************************************************************)
(* What the hash table of Dict.cpp promises, without buckets, indices and  *)
(* counters: a map in two layers.  Reads see the top layer over the base.  *)
(* The top layer holds what was written where a rehash had already passed; *)
(* it is discarded when that rehash ends, and the base shows through.      *)
(* While no rehash is open the top layer is empty, so writes and removals  *)
(* are those of an ordinary map.                                           *)
(***************************************************************************)
CONSTANTS Key, Value, NoValue

VARIABLES
    base,   \* what survives the end of the rehash
    top,    \* what is discarded then
    open    \* a rehash is under way

vars == <<base, top, open>>

Nothing == [k \in Key |-> NoValue]

(* What a read of key k returns. *)
Visible(k) == IF top[k] # NoValue THEN top[k] ELSE base[k]

TypeOK ==
    /\ base \in [Key -> Value \cup {NoValue}]
    /\ top  \in [Key -> Value \cup {NoValue}]
    /\ open \in BOOLEAN

Init ==
    /\ base = Nothing
    /\ top = Nothing
    /\ open = FALSE

\* A rehash ends: the top layer is gone.
Finish ==
    /\ open
    /\ top' = Nothing
    /\ open' = FALSE
    /\ UNCHANGED base

(***************************************************************************)
(* The base changes at k.  A rehash that was open may have ended first,    *)
(* taking the top layer with it; if it did not, nothing of the top layer   *)
(* may hide k.  A new rehash may open afterwards.                          *)
(***************************************************************************)
ChangeBase(k, x) ==
    /\ base' = [base EXCEPT ![k] = x]
    /\ \/ top[k] = NoValue /\ UNCHANGED top /\ (open => open')
       \/ open /\ top' = Nothing
    /\ open' \in BOOLEAN

ChangeTop(k, x) ==
    /\ open
    /\ top' = [top EXCEPT ![k] = x]
    /\ UNCHANGED <<base, open>>

\* A write reaches the base, or a place the open rehash has already passed.
Write(k, v) == ChangeBase(k, v) \/ ChangeTop(k, v)

\* A removal takes away the visible copy only.
Remove(k) == ChangeBase(k, NoValue) \/ (top[k] # NoValue /\ ChangeTop(k, NoValue))

Next ==
    \/ Finish
    \/ \E k \in Key :
          \/ \E v \in Value : Write(k, v)
          \/ Remove(k)

Spec == Init /\ [][Next]_vars
=============================================================================
