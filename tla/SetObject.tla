----------------------------- MODULE SetObject ------------------------------
(***************************************************************************)
(* A set of strings (SetObject.cpp) that keeps its members in an ascending *)
(* vector of numbers (intset.cpp) as long as all of them are numbers and   *)
(* there are few, and then for good in an unordered_set<string>.           *)
(*                                                                         *)
(* A string is a sequence of bytes.  A number has several spellings: the   *)
(* vector forgets which one was added, the unordered_set does not.         *)
(***************************************************************************)
EXTENDS Integers, Sequences, FiniteSets, SequencesExt, Decimal

CONSTANTS
    Member,              \* strings the operations are called with
    MaxInt,              \* the largest int64_t, 2^63 - 1
    INTSET_MAX_ENTRIES   \* 512

ASSUME SetObjectAssumption == MaxInt \in Nat /\ INTSET_MAX_ENTRIES \in Nat

VARIABLE theSet

int64_t == -MaxInt - 1 .. MaxInt

-----------------------------------------------------------------------------
(* Numbers and their spellings. *)

NoInt == MaxInt + 1

\* strtoll, for a string of digits behind at most one sign.
tryParseInt(s) ==
    LET digits == IF s # <<>> /\ s[1] \in {"+", "-"} THEN Tail(s) ELSE s
        value  == IF s[1] = "-" THEN -Number(digits) ELSE Number(digits)
    IN IF digits # <<>> /\ ToSet(digits) \subseteq ToSet(Digits) /\ value \in int64_t
       THEN value ELSE NoInt

to_string(n) == IF n < 0 THEN <<"-">> \o Printed[-n] ELSE Printed[n]

-----------------------------------------------------------------------------
(* intset: a sequence, positions from 1. *)

\* lower_bound: the first element that is not smaller.
binary_search(data, n) ==
    CHOOSE i \in 1 .. Len(data) + 1 :
        /\ i = Len(data) + 1 \/ data[i] >= n
        /\ \A j \in 1 .. i - 1 : data[j] < n

Has(data, n) ==
    binary_search(data, n) <= Len(data) /\ data[binary_search(data, n)] = n

insert_Behind(data, n) ==
    LET i == binary_search(data, n)
    IN IF Has(data, n) THEN data
       ELSE InsertAt(data, IF i <= Len(data) THEN i + 1 ELSE i, n)

insert(data, n) ==
    IF Has(data, n) THEN data ELSE InsertAt(data, binary_search(data, n), n)

erase(data, n) ==
    IF Has(data, n) THEN RemoveAt(data, binary_search(data, n)) ELSE data

-----------------------------------------------------------------------------
(* SetObject. *)

NewSet == [encoding |-> "INTSET", intset |-> <<>>, strset |-> {}]

should_use_intset(o) == o.encoding = "INTSET" /\ Len(o.intset) < INTSET_MAX_ENTRIES

promote_to_strset_FromSecond(o) ==
    IF o.encoding # "INTSET" THEN o
    ELSE [encoding |-> "STRSET", intset |-> <<>>,
          strset |-> {to_string(n) : n \in ToSet(SubSeq(o.intset, 2, Len(o.intset)))}]

promote_to_strset(o) ==
    IF o.encoding # "INTSET" THEN o
    ELSE [encoding |-> "STRSET", intset |-> <<>>,
          strset |-> {to_string(n) : n \in ToSet(o.intset)}]

members(o) ==
    IF o.encoding # "INTSET" THEN o.strset ELSE {to_string(n) : n \in ToSet(o.intset)}

size(o) == IF o.encoding # "INTSET" THEN Cardinality(o.strset) ELSE Len(o.intset)

\* The result of add.
added_BySpelling(o, m) == m \notin members(o)

added(o, m) ==
    IF tryParseInt(m) # NoInt /\ should_use_intset(o) THEN ~ Has(o.intset, tryParseInt(m))
    ELSE m \notin promote_to_strset(o).strset

add(o, m) ==
    IF tryParseInt(m) # NoInt /\ should_use_intset(o)
    THEN [o EXCEPT !.intset = insert(@, tryParseInt(m))]
    ELSE [promote_to_strset(o) EXCEPT !.strset = @ \cup {m}]

remove_BySpelling(o, m) ==
    IF o.encoding # "INTSET" THEN [o EXCEPT !.strset = @ \ {m}]
    ELSE IF m \notin members(o) THEN o
    ELSE [o EXCEPT !.intset = erase(@, tryParseInt(m))]

remove(o, m) ==
    IF o.encoding # "INTSET" THEN [o EXCEPT !.strset = @ \ {m}]
    ELSE IF tryParseInt(m) = NoInt THEN o
    ELSE [o EXCEPT !.intset = erase(@, tryParseInt(m))]

contains(o, m) ==
    IF o.encoding # "INTSET" THEN m \in o.strset
    ELSE tryParseInt(m) # NoInt /\ Has(o.intset, tryParseInt(m))

-----------------------------------------------------------------------------
Init == theSet = NewSet

AddMember(m) == theSet' = add(theSet, m)

RemoveMember(m) == theSet' = remove(theSet, m)

Next == \E m \in Member : AddMember(m) \/ RemoveMember(m)

Spec == Init /\ [][Next]_theSet

-----------------------------------------------------------------------------
Ascending(data) == \A i, j \in DOMAIN data : i < j => data[i] < data[j]

(* The numbers are within their width, ascend strictly and never outgrow the
   limit; only the storage the encoding selects is in use.  Every search
   relies on the order.  *)
SetTypeOK ==
    LET data == theSet.intset
    IN /\ theSet = [encoding |-> theSet.encoding, intset |-> data, strset |-> theSet.strset]
       /\ \/ theSet.encoding = "INTSET" /\ theSet.strset = {} /\ Len(data) <= INTSET_MAX_ENTRIES
          \/ theSet.encoding = "STRSET" /\ data = <<>>
       /\ data \in Seq(int64_t) /\ Ascending(data)

(* What was added is contained and what was removed is not, under whatever
   spelling, and also when the addition turned the numbers into strings.  *)
SetReadYourWrite ==
    \A m \in Member : contains(add(theSet, m), m) /\ ~ contains(remove(theSet, m), m)

(* size() is the number of members() and no two of these are alike; add
   returns true exactly when it makes one more of them.  *)
SizeCounts ==
    /\ size(theSet) = Cardinality(members(theSet))
    /\ \A m \in Member :
          size(add(theSet, m)) = size(theSet) + (IF added(theSet, m) THEN 1 ELSE 0)

\* A string that means the same to both encodings.
Plain(m) == tryParseInt(m) = NoInt \/ to_string(tryParseInt(m)) = m

\* A number printed is read back.
RoundTrips == \A n \in int64_t : tryParseInt(to_string(n)) = n

Alike(m, n) == m = n \/ (tryParseInt(m) = tryParseInt(n) /\ tryParseInt(m) # NoInt)

(* A string that is no number, or a number as to_string spells it, enters
   the set only by an addition and leaves it only by a removal of that
   string, or of another spelling of it.  No change of encoding loses it.  *)
MembersStay ==
    [][\A m \in Member :
          /\ Plain(m) /\ ~ contains(theSet, m) /\ contains(theSet', m) =>
                \E n \in Member : Alike(m, n) /\ AddMember(n)
          /\ Plain(m) /\ contains(theSet, m) /\ ~ contains(theSet', m) =>
                \E n \in Member : Alike(m, n) /\ RemoveMember(n)]_theSet
=============================================================================
