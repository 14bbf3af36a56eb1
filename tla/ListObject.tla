----------------------------- MODULE ListObject -----------------------------
(***************************************************************************)
(* ListObject.cpp: a vector of strings, the ziplist, that becomes a deque  *)
(* for good when it gets too long or is given a large string.  Both hold   *)
(* the same elements in the same order, in the field items.                *)
(*                                                                         *)
(* The file is not built and would not compile as it is.  Read here as     *)
(* meant are push_front of a vector, the type InsertPosition, and not at   *)
(* all the second normalize_index, which nothing calls.  Its remove and    *)
(* insert have a prefix here, the names are also those of SetObject.       *)
(***************************************************************************)
EXTENDS Integers, Sequences, FiniteSets, SequencesExt

CONSTANTS
    Item,                \* the strings
    LargeItem,           \* those over ZIPLIST_MAX_ENTRY_SIZE
    Index,               \* the numbers callers pass
    ZIPLIST_MAX_ENTRIES, \* 512
    MaxLength            \* bound on the length of a list

ASSUME ListObjectAssumption == ZIPLIST_MAX_ENTRIES \in Nat /\ Index \subseteq Int

VARIABLE theList

NewList == [encoding |-> "ZIPLIST", items |-> <<>>]

promote_to_linkedlist(o) == [o EXCEPT !.encoding = "LINKEDLIST"]

\* Before an element is pushed.
MakeRoom(o, x) ==
    IF Len(o.items) + 1 > ZIPLIST_MAX_ENTRIES \/ x \in LargeItem
    THEN promote_to_linkedlist(o) ELSE o

push_front(o, x) == [MakeRoom(o, x) EXCEPT !.items = <<x>> \o @]
push_back(o, x)  == [MakeRoom(o, x) EXCEPT !.items = Append(@, x)]

pop_front(o) == IF o.items = <<>> THEN o ELSE [o EXCEPT !.items = Tail(@)]
pop_back(o)  == IF o.items = <<>> THEN o ELSE [o EXCEPT !.items = Front(@)]

-----------------------------------------------------------------------------
(* remove: the list is walked from one end until count elements are gone. *)

Walk_OneMore(w, x, value) ==
    IF x = value /\ w.removed <= w.count
    THEN [w EXCEPT !.removed = @ + 1] ELSE [w EXCEPT !.kept = Append(@, x)]

\* One element of the walk: erased or kept.
Walk(w, x, value) ==
    IF x = value /\ w.removed < w.count
    THEN [w EXCEPT !.removed = @ + 1] ELSE [w EXCEPT !.kept = Append(@, x)]

Erase(items, value, count) ==
    FoldLeft(LAMBDA w, x : Walk(w, x, value),
             [kept |-> <<>>, removed |-> 0, count |-> count], items).kept

\* For 0 the walk is not bounded: by no less than the number of elements.
list_remove(o, count, value) ==
    [o EXCEPT !.items =
        IF count > 0 THEN Erase(@, value, count)
        ELSE IF count < 0 THEN Reverse(Erase(Reverse(@), value, -count))
        ELSE Erase(@, value, Len(@))]

-----------------------------------------------------------------------------
(* get and trim, with positions from 0. *)

\* -1 for nullopt.
normalize_index(index, sz) ==
    LET idx == IF index < 0 THEN index + sz ELSE index
    IN IF 0 <= idx /\ idx < sz THEN idx ELSE -1

\* The element, if there is one.
get(o, index) ==
    LET idx == normalize_index(index, Len(o.items))
    IN IF idx = -1 THEN <<>> ELSE <<o.items[idx + 1]>>

norm(j, sz) ==
    LET idx == IF j < 0 THEN j + sz ELSE j
    IN IF idx < 0 THEN -1 ELSE IF idx >= sz THEN sz ELSE idx

NoRange == <<>>

\* What the list has of start .. stop.
normalize_range(start, stop, sz) ==
    LET l == IF norm(start, sz) = -1 THEN 0 ELSE norm(start, sz)
        r == IF norm(stop, sz) >= sz THEN sz - 1 ELSE norm(stop, sz)
    IN IF l > r \/ l >= sz THEN NoRange ELSE <<l, r>>

trim(o, start, stop) ==
    IF o.items = <<>> THEN o
    ELSE [o EXCEPT !.items =
             IF normalize_range(start, stop, Len(@)) = NoRange THEN <<>>
             ELSE LET range == normalize_range(start, stop, Len(@))
                  IN SubSeq(@, range[1] + 1, range[2] + 1)]

-----------------------------------------------------------------------------
(* insert. *)

list_insert_Unchecked(o, pivot, value, pos) ==
    LET i == SelectInSeq(o.items, LAMBDA x : x = pivot)
        longer == InsertAt(o.items, IF pos = "BEFORE" THEN i ELSE i + 1, value)
        p == IF value \in LargeItem THEN promote_to_linkedlist(o) ELSE o
    IN IF p.encoding = "LINKEDLIST" \/ i = 0 THEN p ELSE [p EXCEPT !.items = longer]

\* The branch of the deque is empty; a large value promotes also when there
\* is no pivot.
list_insert(o, pivot, value, pos) ==
    LET i == SelectInSeq(o.items, LAMBDA x : x = pivot)
        longer == InsertAt(o.items, IF pos = "BEFORE" THEN i ELSE i + 1, value)
        p == IF value \in LargeItem THEN promote_to_linkedlist(o) ELSE o
    IN IF p.encoding = "LINKEDLIST" \/ i = 0 THEN p
       ELSE IF Len(longer) > ZIPLIST_MAX_ENTRIES
       THEN [promote_to_linkedlist(p) EXCEPT !.items = longer]
       ELSE [p EXCEPT !.items = longer]

-----------------------------------------------------------------------------
ListInit == theList = NewList

Push(x) ==
    /\ Len(theList.items) < MaxLength
    /\ theList' \in {push_front(theList, x), push_back(theList, x)}

Pop == theList' \in {pop_front(theList), pop_back(theList)}

RemoveItem(count, value) == theList' = list_remove(theList, count, value)

Trim(start, stop) == theList' = trim(theList, start, stop)

Insert(pivot, value) ==
    /\ Len(theList.items) < MaxLength
    /\ \E pos \in {"BEFORE", "AFTER"} : theList' = list_insert(theList, pivot, value, pos)

ListNext ==
    \/ Pop
    \/ \E x \in Item : Push(x)
    \/ \E n \in Index, x \in Item : RemoveItem(n, x)
    \/ \E l, r \in Index : Trim(l, r)
    \/ \E p, x \in Item : Insert(p, x)

ListSpec == ListInit /\ [][ListNext]_theList

-----------------------------------------------------------------------------
(* A ziplist stays within both limits, however the list got where it is.  *)
ListTypeOK ==
    /\ theList.encoding \in {"ZIPLIST", "LINKEDLIST"}
    /\ theList.encoding = "ZIPLIST" =>
          /\ Len(theList.items) <= ZIPLIST_MAX_ENTRIES
          /\ ToSet(theList.items) \cap LargeItem = {}

-----------------------------------------------------------------------------
(* The list commands of Redis, said by the positions that go or stay. *)

\* In their order: the i-th has i - 1 in front of it.
ElementsAt(items, P) ==
    [i \in 1 .. Cardinality(P) |->
        items[CHOOSE p \in P : Cardinality({q \in P : q < p}) = i - 1]]

\* A number counts from 0, or from the end if it is negative.
Position(items, j) == IF j < 0 THEN Len(items) + j + 1 ELSE j + 1

\* The first n elements that are x, for negative n the last, for 0 all.
Removed(items, n, x) ==
    LET is == {i \in DOMAIN items : items[i] = x}
    IN {i \in is : \/ n = 0
                   \/ n > 0 /\ Cardinality({j \in is : j < i}) < n
                   \/ n < 0 /\ Cardinality({j \in is : j > i}) < -n}

Between(items, l, r) ==
    {i \in DOMAIN items : Position(items, l) <= i /\ i <= Position(items, r)}

(* In either encoding remove takes elements from the right end and no more
   than it was asked to, and trim and get understand negative and overlong
   numbers as the positions they stand for.  *)
ListOperations ==
    LET items == theList.items
    IN \A n \in Index :
          /\ \A x \in Item : list_remove(theList, n, x).items =
                                ElementsAt(items, DOMAIN items \ Removed(items, n, x))
          /\ \A m \in Index : trim(theList, n, m).items = ElementsAt(items, Between(items, n, m))
          /\ get(theList, n) = ElementsAt(items, Between(items, n, n))
=============================================================================
