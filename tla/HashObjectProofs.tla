-------------------------- MODULE HashObjectProofs --------------------------
(***************************************************************************)
(* The invariants of module HashObject, for every number of fields and     *)
(* every hash function.                                                    *)
(*                                                                         *)
(* First the ziplist: a vector of pairs with distinct fields, within its   *)
(* limits.  Then the table a promotion builds: it is what inserting the    *)
(* pairs one by one into a new Dict gives, so what DictProofs shows of one *)
(* insertion holds of it, by an induction over the pairs.                  *)
(*                                                                         *)
(* The last part is about objects with few fields, which the commands of   *)
(* module Command write to: their table never rehashes and loses nothing.  *)
(***************************************************************************)
EXTENDS HashObject, SequenceTheorems, FiniteSetTheorems, TLAPS

\* What the loop of promote_to_hashtable does with one pair.
Insert(p, d, e) == HT!set_field(d, e.key, e.value)

INSTANCE VectorLemmas WITH Combine <- Insert

\* The lemmas about a Dict, of the one inside the object.
P == INSTANCE DictProofs WITH dict <- obj.dict

Fields(zl) == \A i, j \in 1 .. Len(zl) : zl[i].key = zl[j].key => i = j

IsZiplist(zl) == zl \in Seq(D!Entry) /\ Fields(zl)

IsHash(o) ==
    /\ o = [encoding |-> o.encoding, ziplist |-> o.ziplist, dict |-> o.dict]
    /\ o.encoding \in {"ZIPLIST", "HASHTABLE"}
    /\ o.encoding = "ZIPLIST" => IsZiplist(o.ziplist) /\ should_use_ziplist(o.ziplist)

-----------------------------------------------------------------------------
(* Searching. *)

LEMMA Find ==
    ASSUME NEW zl \in Seq(D!Entry), NEW f
    PROVE  LET i == find_in_ziplist(zl, f)
           IN \/ i = 0 /\ \A j \in 1 .. Len(zl) : zl[j].key # f
              \/ i \in 1 .. Len(zl) /\ zl[i].key = f
<1> DEFINE I == {i \in 1 .. Len(zl) : zl[i].key = f}
<1>1. I \in SUBSET Nat
  OBVIOUS
<1>2. find_in_ziplist(zl, f) = IF I # {} THEN Min(I) ELSE 0
  BY DEF find_in_ziplist, SelectInSeq
<1>3. ASSUME I # {} PROVE Min(I) \in I
  <2>1. \E x \in I : \A y \in I : x <= y
    BY <1>1, <1>3, Least
  <2> HIDE DEF I
  <2> QED BY <2>1 DEF Min
<1> QED BY <1>2, <1>3

(* No field twice: where it is, is where it is found.  *)
LEMMA FindIt ==
    ASSUME NEW zl, IsZiplist(zl), NEW j \in 1 .. Len(zl)
    PROVE  find_in_ziplist(zl, zl[j].key) = j
<1>1. zl \in Seq(D!Entry) /\ Fields(zl)
  BY DEF IsZiplist
<1> DEFINE i == find_in_ziplist(zl, zl[j].key)
<1>2. i \in 1 .. Len(zl) /\ zl[i].key = zl[j].key
  BY <1>1, Find
<1> QED BY <1>1, <1>2 DEF Fields

\* What a ziplist says of a field.
ValueOf(zl, f) ==
    LET i == find_in_ziplist(zl, f) IN IF i # 0 THEN zl[i].value ELSE NoValue

LEMMA ValueThere ==
    ASSUME NEW zl, IsZiplist(zl), NEW f
    PROVE  /\ \A j \in 1 .. Len(zl) : zl[j].key = f => ValueOf(zl, f) = zl[j].value
           /\ (\A j \in 1 .. Len(zl) : zl[j].key # f) => ValueOf(zl, f) = NoValue
<1>1. \A j \in 1 .. Len(zl) : zl[j].key = f => find_in_ziplist(zl, f) = j
  BY FindIt
<1>2. (\A j \in 1 .. Len(zl) : zl[j].key # f) => find_in_ziplist(zl, f) = 0
  BY Find DEF IsZiplist
<1>3. \A j \in 1 .. Len(zl) : j # 0
  OBVIOUS
<1> QED BY <1>1, <1>2, <1>3 DEF ValueOf

-----------------------------------------------------------------------------
(* The three ways a ziplist changes. *)

\* The ziplist with the value of its i-th pair replaced.
Changed(zl, i, v) == [zl EXCEPT ![i].value = v]

LEMMA Update ==
    ASSUME NEW zl, IsZiplist(zl), NEW i \in 1 .. Len(zl), NEW v \in Value
    PROVE  LET new == Changed(zl, i, v)
           IN /\ IsZiplist(new)
              /\ Len(new) = Len(zl)
              /\ \A j \in 1 .. Len(zl) : new[j] = IF j = i THEN Pair(zl[i].key, v) ELSE zl[j]
              /\ \A g : ValueOf(new, g) = IF g = zl[i].key THEN v ELSE ValueOf(zl, g)
<1> DEFINE new == Changed(zl, i, v)
<1>1. zl \in Seq(D!Entry) /\ Fields(zl)
  BY DEF IsZiplist
<1>2. \A j \in 1 .. Len(zl) : zl[j] \in D!Entry
  BY <1>1, ElementOfSeq
<1>3. [zl[i] EXCEPT !.value = v] = Pair(zl[i].key, v) /\ Pair(zl[i].key, v) \in D!Entry
  BY <1>2 DEF D!Entry, Pair
<1>4. new \in Seq(D!Entry) /\ Len(new) = Len(zl)
  BY <1>1, <1>3, ExceptSeq DEF Changed
<1>5. \A j \in 1 .. Len(zl) : new[j] = IF j = i THEN Pair(zl[i].key, v) ELSE zl[j]
  BY <1>1, <1>3 DEF Changed
<1> HIDE DEF new
<1>6. \A j \in 1 .. Len(zl) : new[j].key = zl[j].key
  BY <1>5 DEF Pair
<1>7. IsZiplist(new)
  BY <1>1, <1>4, <1>6 DEF IsZiplist, Fields
<1>8. ASSUME NEW g
      PROVE  ValueOf(new, g) = IF g = zl[i].key THEN v ELSE ValueOf(zl, g)
  <2>1. CASE g = zl[i].key
    BY <2>1, <1>4, <1>5, <1>7, ValueThere DEF Pair
  <2>2. CASE g # zl[i].key /\ \E j \in 1 .. Len(zl) : zl[j].key = g
    <3>1. PICK j \in 1 .. Len(zl) : zl[j].key = g
      BY <2>2
    <3>2. j # i /\ new[j] = zl[j]
      BY <1>5, <2>2, <3>1
    <3>3. ValueOf(new, g) = new[j].value
      BY <1>4, <1>7, <3>1, <3>2, ValueThere
    <3> QED BY <2>2, <3>1, <3>2, <3>3, ValueThere
  <2>3. CASE g # zl[i].key /\ \A j \in 1 .. Len(zl) : zl[j].key # g
    BY <2>3, <1>4, <1>6, <1>7, ValueThere
  <2> QED BY <2>1, <2>2, <2>3
<1> QED BY <1>4, <1>5, <1>7, <1>8 DEF new

LEMMA Longer ==
    ASSUME NEW zl, IsZiplist(zl), NEW f \in Key, NEW v \in Value,
           \A j \in 1 .. Len(zl) : zl[j].key # f
    PROVE  LET new == Append(zl, Pair(f, v))
           IN IsZiplist(new) /\ \A g : ValueOf(new, g) = IF g = f THEN v ELSE ValueOf(zl, g)
<1> DEFINE new == Append(zl, Pair(f, v))
<1>1. zl \in Seq(D!Entry) /\ Fields(zl) /\ Pair(f, v) \in D!Entry
  BY DEF IsZiplist, D!Entry, Pair
<1>2. /\ new \in Seq(D!Entry) /\ Len(new) = Len(zl) + 1
      /\ \A j \in 1 .. Len(zl) : new[j] = zl[j]
      /\ new[Len(zl) + 1] = Pair(f, v)
  BY <1>1, AppendProperties
<1> HIDE DEF new
<1>3. new[Len(zl) + 1].key = f /\ new[Len(zl) + 1].value = v
  BY <1>2 DEF Pair
<1>4. Len(zl) \in Nat /\ 1 .. Len(new) = (1 .. Len(zl)) \cup {Len(zl) + 1}
  BY <1>1, <1>2
<1>5. IsZiplist(new)
  BY <1>1, <1>2, <1>3, <1>4 DEF IsZiplist, Fields
<1>6. ASSUME NEW g
      PROVE  ValueOf(new, g) = IF g = f THEN v ELSE ValueOf(zl, g)
  <2>1. CASE g = f
    BY <2>1, <1>3, <1>4, <1>5, ValueThere
  <2>2. CASE g # f /\ \E j \in 1 .. Len(zl) : zl[j].key = g
    <3>1. PICK j \in 1 .. Len(zl) : zl[j].key = g
      BY <2>2
    <3>2. j \in 1 .. Len(new) /\ new[j] = zl[j]
      BY <1>2, <1>4
    <3>3. ValueOf(new, g) = new[j].value
      BY <1>5, <3>1, <3>2, ValueThere
    <3> QED BY <2>2, <3>1, <3>2, <3>3, ValueThere
  <2>3. CASE g # f /\ \A j \in 1 .. Len(zl) : zl[j].key # g
    <3>1. \A j \in 1 .. Len(new) : new[j].key # g
      BY <1>2, <1>3, <1>4, <2>3
    <3> QED BY <1>5, <2>3, <3>1, ValueThere
  <2> QED BY <2>1, <2>2, <2>3
<1> QED BY <1>5, <1>6 DEF new

LEMMA Shorter ==
    ASSUME NEW zl, IsZiplist(zl), NEW i \in 1 .. Len(zl)
    PROVE  LET new == RemoveAt(zl, i)
           IN /\ IsZiplist(new)
              /\ Len(new) = Len(zl) - 1
              /\ \A j \in 1 .. Len(new) : \E k \in 1 .. Len(zl) : new[j] = zl[k]
              /\ \A g : ValueOf(new, g) = IF g = zl[i].key THEN NoValue ELSE ValueOf(zl, g)
<1> DEFINE new == RemoveAt(zl, i)
           Old(j) == IF j < i THEN j ELSE j + 1
<1>1. zl \in Seq(D!Entry) /\ Fields(zl) /\ Len(zl) \in Nat
  BY DEF IsZiplist
<1>2. /\ new \in Seq(D!Entry) /\ Len(new) = Len(zl) - 1
      /\ \A j \in 1 .. i - 1 : new[j] = zl[j]
      /\ \A j \in i .. Len(zl) - 1 : new[j] = zl[j + 1]
  BY <1>1, Erased
<1> HIDE DEF new
<1>3. \A j \in 1 .. Len(new) : Old(j) \in 1 .. Len(zl) /\ Old(j) # i /\ new[j] = zl[Old(j)]
  BY <1>1, <1>2
<1>4. \A j, k \in 1 .. Len(new) : Old(j) = Old(k) => j = k
  BY <1>1, <1>2
<1>5. \A k \in 1 .. Len(zl) : k # i => \E j \in 1 .. Len(new) : Old(j) = k
  <2> TAKE k \in 1 .. Len(zl)
  <2> HAVE k # i
  <2>1. CASE k < i
    <3>1. k \in 1 .. Len(new) /\ Old(k) = k
      BY <1>1, <1>2, <2>1
    <3> QED BY <3>1
  <2>2. CASE k > i
    <3>1. k - 1 \in 1 .. Len(new) /\ Old(k - 1) = k
      BY <1>1, <1>2, <2>2
    <3> QED BY <3>1
  <2> QED BY <2>1, <2>2
<1> HIDE DEF Old
<1>6. IsZiplist(new)
  <2>1. ASSUME NEW j \in 1 .. Len(new), NEW k \in 1 .. Len(new), new[j].key = new[k].key
        PROVE  j = k
    <3>1. Old(j) = Old(k)
      BY <1>1, <1>3, <2>1 DEF Fields
    <3> QED BY <1>4, <3>1
  <2> QED BY <1>2, <2>1 DEF IsZiplist, Fields
<1>7. ASSUME NEW g
      PROVE  ValueOf(new, g) = IF g = zl[i].key THEN NoValue ELSE ValueOf(zl, g)
  <2>1. CASE g = zl[i].key
    <3>1. \A j \in 1 .. Len(new) : new[j].key # g
      BY <1>1, <1>3, <2>1 DEF Fields
    <3> QED BY <1>6, <2>1, <3>1, ValueThere
  <2>2. CASE g # zl[i].key /\ \E k \in 1 .. Len(zl) : zl[k].key = g
    <3>1. PICK k \in 1 .. Len(zl) : zl[k].key = g
      BY <2>2
    <3>2. PICK j \in 1 .. Len(new) : Old(j) = k
      BY <1>5, <2>2, <3>1
    <3>3. new[j] = zl[k]
      BY <1>3, <3>2
    <3>4. ValueOf(new, g) = new[j].value
      BY <1>6, <3>1, <3>3, ValueThere
    <3> QED BY <2>2, <3>1, <3>3, <3>4, ValueThere
  <2>3. CASE g # zl[i].key /\ \A k \in 1 .. Len(zl) : zl[k].key # g
    <3>1. \A j \in 1 .. Len(new) : new[j].key # g
      BY <1>3, <2>3
    <3> QED BY <1>6, <2>3, <3>1, ValueThere
  <2> QED BY <2>1, <2>2, <2>3
<1> QED BY <1>2, <1>3, <1>6, <1>7 DEF new

-----------------------------------------------------------------------------
(* The operations of the object. *)

LEMMA Promoted ==
    ASSUME NEW o
    PROVE  IsHash(promote_to_hashtable(o)) /\ promote_to_hashtable(o).encoding = "HASHTABLE"
BY DEF promote_to_hashtable, IsHash

LEMMA TableKept ==
    ASSUME NEW o, IsHash(o), o.encoding = "HASHTABLE", NEW d
    PROVE  IsHash([o EXCEPT !.dict = d]) /\ [o EXCEPT !.dict = d].encoding = "HASHTABLE"
<1> DEFINE p == [o EXCEPT !.dict = d]
<1>1. p = [encoding |-> "HASHTABLE", ziplist |-> o.ziplist, dict |-> d]
  BY DEF IsHash
<1> QED BY <1>1 DEF IsHash

(* The object with another ziplist.  *)
LEMMA ZiplistReplaced ==
    ASSUME NEW o, IsHash(o), o.encoding = "ZIPLIST", NEW zl
    PROVE  LET p == [o EXCEPT !.ziplist = zl]
           IN /\ p = [encoding |-> "ZIPLIST", ziplist |-> zl, dict |-> o.dict]
              /\ \A f : get_field(p, f) = ValueOf(zl, f)
<1>1. [o EXCEPT !.ziplist = zl] = [encoding |-> "ZIPLIST", ziplist |-> zl, dict |-> o.dict]
  BY DEF IsHash
<1> QED BY <1>1 DEF get_field, ValueOf

LEMMA StoreSound ==
    ASSUME NEW o, IsHash(o), o.encoding = "ZIPLIST",
           NEW f \in Key, NEW v \in Value, {f, v} \cap Large = {}
    PROVE  LET p == StoreInZiplist(o, f, v)
           IN /\ IsHash(p)
              /\ p.encoding = "ZIPLIST" =>
                    \A g \in Key : get_field(p, g) = IF g = f THEN v ELSE get_field(o, g)
<1> DEFINE zl == o.ziplist
           i  == find_in_ziplist(zl, f)
<1>1. IsZiplist(zl) /\ should_use_ziplist(zl) /\ zl \in Seq(D!Entry)
  BY DEF IsHash, IsZiplist
<1>2. \A g : get_field(o, g) = ValueOf(zl, g)
  BY DEF get_field, ValueOf
<1>3. CASE i # 0
  <2> DEFINE new == Changed(zl, i, v)
             p   == [o EXCEPT !.ziplist = new]
  <2>1. i \in 1 .. Len(zl) /\ zl[i].key = f
    BY <1>1, <1>3, Find
  <2>2. /\ IsZiplist(new) /\ Len(new) = Len(zl)
        /\ \A j \in 1 .. Len(zl) : new[j] = IF j = i THEN Pair(zl[i].key, v) ELSE zl[j]
        /\ \A g : ValueOf(new, g) = IF g = zl[i].key THEN v ELSE ValueOf(zl, g)
    <3> HIDE DEF zl, i
    <3> QED BY <1>1, <2>1, Update
  <2>3. p = [encoding |-> "ZIPLIST", ziplist |-> new, dict |-> o.dict]
        /\ \A g : get_field(p, g) = ValueOf(new, g)
    BY ZiplistReplaced
  <2>4. StoreInZiplist(o, f, v) = p
    BY <1>3 DEF StoreInZiplist, Changed
  <2> HIDE DEF new, p
  <2>5. should_use_ziplist(new)
    <3>1. DOMAIN zl = 1 .. Len(zl) /\ DOMAIN new = 1 .. Len(new)
      BY <1>1, <2>2, LenProperties DEF IsZiplist
    <3>2. \A j \in 1 .. Len(new) : {new[j].key, new[j].value} \cap Large = {}
      <4> TAKE j \in 1 .. Len(new)
      <4>1. CASE j = i
        BY <2>1, <2>2, <4>1 DEF Pair
      <4>2. CASE j # i
        BY <1>1, <2>2, <3>1, <4>2 DEF should_use_ziplist
      <4> QED BY <4>1, <4>2
    <3> QED BY <1>1, <2>2, <3>1, <3>2 DEF should_use_ziplist
  <2> QED BY <1>2, <2>1, <2>2, <2>3, <2>4, <2>5 DEF IsHash
<1>4. CASE i = 0
  <2> DEFINE new == Append(zl, Pair(f, v))
             p   == [o EXCEPT !.ziplist = new]
  <2>1. \A j \in 1 .. Len(zl) : zl[j].key # f
    BY <1>1, <1>4, Find
  <2>2. IsZiplist(new) /\ \A g : ValueOf(new, g) = IF g = f THEN v ELSE ValueOf(zl, g)
    BY <1>1, <2>1, Longer
  <2>3. p = [encoding |-> "ZIPLIST", ziplist |-> new, dict |-> o.dict]
        /\ \A g : get_field(p, g) = ValueOf(new, g)
    BY ZiplistReplaced
  <2>4. StoreInZiplist(o, f, v) = IF should_use_ziplist(p.ziplist) THEN p ELSE promote_to_hashtable(p)
    BY <1>4 DEF StoreInZiplist
  <2> HIDE DEF new, p
  <2>5. CASE should_use_ziplist(new)
    BY <1>2, <2>2, <2>3, <2>4, <2>5 DEF IsHash
  <2>6. CASE ~ should_use_ziplist(new)
    BY <2>3, <2>4, <2>6, Promoted
  <2> QED BY <2>5, <2>6
<1> QED BY <1>3, <1>4

LEMMA SetSound ==
    ASSUME NEW o, IsHash(o), NEW f \in Key, NEW v \in Value
    PROVE  LET p == set_field(o, f, v)
           IN /\ IsHash(p)
              /\ o.encoding = "ZIPLIST" /\ p.encoding = "ZIPLIST" =>
                    \A g \in Key : get_field(p, g) = IF g = f THEN v ELSE get_field(o, g)
<1>1. CASE o.encoding = "ZIPLIST" /\ {f, v} \cap Large = {}
  <2>1. set_field(o, f, v) = StoreInZiplist(o, f, v)
    BY <1>1 DEF set_field
  <2> QED BY <1>1, <2>1, StoreSound
<1>2. CASE o.encoding = "ZIPLIST" /\ {f, v} \cap Large # {}
  <2> DEFINE t == promote_to_hashtable(o)
  <2>1. IsHash(t) /\ t.encoding = "HASHTABLE"
    BY Promoted
  <2>2. set_field(o, f, v) = [t EXCEPT !.dict = HT!set_field(t.dict, f, v)]
    BY <1>2, <2>1 DEF set_field
  <2> HIDE DEF t
  <2> QED BY <2>1, <2>2, TableKept
<1>3. CASE o.encoding = "HASHTABLE"
  <2>1. set_field(o, f, v) = [o EXCEPT !.dict = HT!set_field(o.dict, f, v)]
    BY <1>3 DEF set_field
  <2> QED BY <1>3, <2>1, TableKept
<1> QED BY <1>1, <1>2, <1>3 DEF IsHash

LEMMA DelSound ==
    ASSUME NEW o, IsHash(o), NEW f \in Key
    PROVE  LET p == del_field(o, f)
           IN /\ IsHash(p)
              /\ o.encoding = "ZIPLIST" =>
                    \A g \in Key : get_field(p, g) = IF g = f THEN NoValue ELSE get_field(o, g)
<1>1. CASE o.encoding = "HASHTABLE"
  <2>1. del_field(o, f) = [o EXCEPT !.dict = HT!del_field(o.dict, f)]
    BY <1>1 DEF del_field
  <2> QED BY <1>1, <2>1, TableKept
<1>2. CASE o.encoding = "ZIPLIST"
  <2> DEFINE zl == o.ziplist
             i  == find_in_ziplist(zl, f)
  <2>1. IsZiplist(zl) /\ should_use_ziplist(zl) /\ zl \in Seq(D!Entry)
    BY <1>2 DEF IsHash, IsZiplist
  <2>2. \A g : get_field(o, g) = ValueOf(zl, g)
    BY <1>2 DEF get_field, ValueOf
  <2>3. CASE i = 0
    <3>1. del_field(o, f) = o
      BY <1>2, <2>3 DEF del_field
    <3>2. ValueOf(zl, f) = NoValue
      BY <2>3 DEF ValueOf
    <3> QED BY <2>2, <3>1, <3>2
  <2>4. CASE i # 0
    <3> DEFINE new == RemoveAt(zl, i)
               p   == [o EXCEPT !.ziplist = new]
    <3>1. i \in 1 .. Len(zl) /\ zl[i].key = f
      BY <2>1, <2>4, Find
    <3>2. /\ IsZiplist(new) /\ Len(new) = Len(zl) - 1
          /\ \A j \in 1 .. Len(new) : \E k \in 1 .. Len(zl) : new[j] = zl[k]
          /\ \A g : ValueOf(new, g) = IF g = zl[i].key THEN NoValue ELSE ValueOf(zl, g)
      BY <2>1, <3>1, Shorter, ZenonT(30)
    <3>3. p = [encoding |-> "ZIPLIST", ziplist |-> new, dict |-> o.dict]
          /\ \A g : get_field(p, g) = ValueOf(new, g)
      BY <1>2, ZiplistReplaced
    <3>4. del_field(o, f) = p
      BY <1>2, <2>4 DEF del_field
    <3> HIDE DEF new, p
    <3>5. should_use_ziplist(new)
      <4>1. DOMAIN zl = 1 .. Len(zl) /\ DOMAIN new = 1 .. Len(new) /\ Len(zl) \in Nat
        BY <2>1, <3>2, LenProperties DEF IsZiplist
      <4>2. Len(new) < ZIPLIST_MAX_ENTRIES
        BY <2>1, <3>2, <4>1, HashObjectAssumption DEF should_use_ziplist
      <4> QED BY <2>1, <3>2, <4>1, <4>2 DEF should_use_ziplist
    <3> QED BY <2>2, <3>1, <3>2, <3>3, <3>4, <3>5 DEF IsHash
  <2> QED BY <2>3, <2>4
<1> QED BY <1>1, <1>2 DEF IsHash

-----------------------------------------------------------------------------
(* The Dict of DictProofs is the Dict of the object. *)

\* What is assumed here is what module DictProofs assumes.
LEMMA Assumed == P!DictAssumption /\ P!BoundAssumption
BY HashObjectAssumption, HashCallAssumption
   DEF HT!DictAssumption, P!DictAssumption, D!BoundAssumption, P!BoundAssumption

\* HT and D declare the operators of P again: they are the same.
LEMMA StepSame ==
    ASSUME NEW d, NEW n
    PROVE  /\ HT!rehash_step(d, n) = P!rehash_step(d, n)
           /\ D!rehash_step(d, n) = P!rehash_step(d, n)
<1>0. \A S : HT!Cardinality(S) = P!Cardinality(S) /\ D!Cardinality(S) = P!Cardinality(S)
  BY DEF HT!Cardinality, P!Cardinality, D!Cardinality
<1>1. \A j : HT!Occupied(d, j) = P!Occupied(d, j) /\ D!Occupied(d, j) = P!Occupied(d, j)
  BY DEF HT!Occupied, P!Occupied, D!Occupied
<1>2. ASSUME NEW j
      PROVE  /\ HT!LeavesLoopAt(d, n, j) <=> P!LeavesLoopAt(d, n, j)
             /\ D!LeavesLoopAt(d, n, j) <=> P!LeavesLoopAt(d, n, j)
  BY <1>1, <1>0 DEF HT!LeavesLoopAt, P!LeavesLoopAt, D!LeavesLoopAt
<1>3. HT!LoopExit(d, n) = P!LoopExit(d, n) /\ D!LoopExit(d, n) = P!LoopExit(d, n)
  BY <1>2 DEF HT!LoopExit, P!LoopExit, D!LoopExit
<1>4. ASSUME NEW j
      PROVE  HT!PassBuckets(d, j) = P!PassBuckets(d, j) /\ D!PassBuckets(d, j) = P!PassBuckets(d, j)
  BY DEF HT!PassBuckets, P!PassBuckets, D!PassBuckets, HT!Slot, P!Slot, D!Slot,
         HT!Record, P!Record, D!Record
<1>5. ASSUME NEW e
      PROVE  HT!FinishRehash(e) = P!FinishRehash(e) /\ D!FinishRehash(e) = P!FinishRehash(e)
  BY DEF HT!FinishRehash, P!FinishRehash, D!FinishRehash, HT!Record, P!Record, D!Record,
         HT!Table, P!Table, D!Table
<1> QED BY <1>3, <1>4, <1>5 DEF HT!rehash_step, P!rehash_step, D!rehash_step,
           HT!is_rehashing, P!is_rehashing, D!is_rehashing

LEMMA OpsSame ==
    /\ HT!NewDict = P!NewDict /\ D!NewDict = P!NewDict /\ D!Entry = P!Entry
    /\ \A d, k, v : HT!set_field(d, k, v) = P!set_field(d, k, v)
    /\ \A d, k : HT!del_field(d, k) = P!del_field(d, k)
    /\ \A d, k : HT!get_field(d, k) = P!get_field(d, k)
    /\ \A h : HT!Nodes(h) = P!Nodes(h)
    /\ \A d : D!is_rehashing(d) <=> P!is_rehashing(d)
<1>1. \A h, k : HT!Slot(h, k) = P!Slot(h, k)
  BY DEF HT!Slot, P!Slot
<1>2. \A h, k : HT!Found(h, k) = P!Found(h, k)
  BY <1>1 DEF HT!Found, P!Found
<1>3. ASSUME NEW d, NEW k, NEW v
      PROVE  HT!StoreInMain(d, k, v) = P!StoreInMain(d, k, v)
  BY DEF HT!StoreInMain, P!StoreInMain, HT!Found, P!Found, HT!WithMain, P!WithMain,
         HT!WithBucket, P!WithBucket, HT!Slot, P!Slot, HT!expand_if_needed, P!expand_if_needed,
         HT!is_rehashing, P!is_rehashing, HT!StartRehash, P!StartRehash,
         HT!Record, P!Record, HT!Table, P!Table
<1>4. ASSUME NEW d, NEW k
      PROVE  HT!EraseFirst(d, k) = P!EraseFirst(d, k)
  BY DEF HT!EraseFirst, P!EraseFirst, HT!Found, P!Found, HT!WithMain, P!WithMain,
         HT!WithNew, P!WithNew, HT!Unlink, P!Unlink, HT!LargerOf, P!LargerOf,
         HT!WithBucket, P!WithBucket, HT!Slot, P!Slot, HT!shrink_if_needed, P!shrink_if_needed,
         HT!is_rehashing, P!is_rehashing, HT!StartRehash, P!StartRehash,
         HT!Record, P!Record, HT!Table, P!Table
<1>5. ASSUME NEW d, NEW k
      PROVE  HT!get_field(d, k) = P!get_field(d, k)
  BY DEF HT!get_field, P!get_field, HT!Found, P!Found, HT!Slot, P!Slot,
         HT!ValueIn, P!ValueIn, HT!is_rehashing, P!is_rehashing
<1>6. /\ HT!NewDict = P!NewDict /\ D!NewDict = P!NewDict /\ D!Entry = P!Entry
      /\ \A h : HT!Nodes(h) = P!Nodes(h)
      /\ \A d : D!is_rehashing(d) <=> P!is_rehashing(d)
  BY DEF HT!NewDict, P!NewDict, D!NewDict, HT!Record, P!Record, D!Record, HT!Table, P!Table, D!Table,
         D!Entry, P!Entry, HT!Nodes, P!Nodes, D!is_rehashing, P!is_rehashing
<1>7. ASSUME NEW d, NEW k, NEW v
      PROVE  HT!set_field(d, k, v) = P!set_field(d, k, v) /\ HT!del_field(d, k) = P!del_field(d, k)
  BY <1>3, <1>4, StepSame DEF HT!set_field, P!set_field, HT!del_field, P!del_field
<1> QED BY <1>5, <1>6, <1>7


LEMMA CardinalitySame ==
    \A S : /\ P!Cardinality(S) = Cardinality(S)
           /\ P!IsFiniteSet(S) <=> IsFiniteSet(S)
BY DEF Cardinality, P!Cardinality, P!IsFiniteSet, IsFiniteSet
-----------------------------------------------------------------------------
(* What the loop of promote_to_hashtable computes. *)

\* The table before and after each of the pairs is inserted.
Inserts(zl, run) ==
    /\ run[0] = HT!NewDict
    /\ \A m \in 1 .. Len(zl) : run[m] = HT!set_field(run[m - 1], zl[m].key, zl[m].value)

Folded(zl) == FoldLeft(LAMBDA d, e : HT!set_field(d, e.key, e.value), HT!NewDict, zl)

LEMMA FoldInserts ==
    ASSUME NEW zl \in Seq(D!Entry)
    PROVE  \E run : Inserts(zl, run) /\ Folded(zl) = run[Len(zl)]
<1>1. PICK run : IsRun(0, HT!NewDict, zl, run) /\ Fold(0, HT!NewDict, zl) = run[Len(zl)]
  BY FoldRuns
<1>2. Inserts(zl, run)
  BY <1>1 DEF IsRun, Inserts, Insert
<1>3. Folded(zl) = Fold(0, HT!NewDict, zl)
  BY DEF Fold, Folded, FoldLeft, MapThenFoldSet, Insert
<1> QED BY <1>1, <1>2, <1>3

\* The pairs of a table.
All(d) == P!Nodes(d.ht0) \cup P!Nodes(d.ht1)

LEMMA NoNodes == \A n \in Nat : P!Nodes(P!Table(n)) = {}
BY DEF P!Nodes, P!Table

(* No operation on a table stores a pair but the one written.  *)
LEMMA PassedStored ==
    ASSUME NEW d, P!Sound(d), P!is_rehashing(d), NEW j \in d.rehashidx .. d.ht0.size
    PROVE  All(P!PassBuckets(d, j)) \subseteq All(d)
<1> DEFINE p == P!PassBuckets(d, j)
           moved == UNION {d.ht0.bucket[i] : i \in d.rehashidx .. j-1}
<1>1. /\ d.ht0.size \in Nat /\ d.rehashidx \in 0 .. d.ht0.size
  BY DEF P!Sound, P!IsDict, P!IsTable, P!is_rehashing
<1>2. moved \subseteq P!Nodes(d.ht0)
  BY <1>1 DEF P!Nodes
<1>3. /\ p.ht0.size = d.ht0.size /\ p.ht1.size = d.ht1.size
      /\ \A i \in 0 .. d.ht0.size-1 : p.ht0.bucket[i] \subseteq d.ht0.bucket[i]
      /\ \A i \in 0 .. d.ht1.size-1 : p.ht1.bucket[i] \subseteq d.ht1.bucket[i] \cup moved
  BY DEF P!PassBuckets, P!Record
<1> HIDE DEF p, moved
<1>4. P!Nodes(p.ht0) \subseteq P!Nodes(d.ht0)
  BY <1>3 DEF P!Nodes
<1>5. P!Nodes(p.ht1) \subseteq P!Nodes(d.ht1) \cup moved
  BY <1>3 DEF P!Nodes
<1> QED BY <1>2, <1>4, <1>5 DEF All, p

LEMMA RehashStored ==
    ASSUME NEW d, P!Sound(d), NEW n \in Nat
    PROVE  All(P!rehash_step(d, n)) \subseteq All(d)
<1>1. CASE ~ P!is_rehashing(d) \/ d.used = 0
  BY <1>1 DEF P!rehash_step
<1>2. CASE P!is_rehashing(d) /\ d.used # 0
  <2>1. d.ht0.size \in d.rehashidx .. d.ht0.size
    BY <1>2 DEF P!Sound, P!IsDict, P!IsTable, P!is_rehashing
  <2>2. \A e : All(P!FinishRehash(e)) \subseteq All(e)
    BY NoNodes DEF All, P!FinishRehash, P!Record
  <2>3. \A j \in P!LoopExit(d, n) : All(P!PassBuckets(d, j)) \subseteq All(d)
    BY <1>2, PassedStored DEF P!LoopExit
  <2>4. All(P!PassBuckets(d, d.ht0.size)) \subseteq All(d)
    BY <1>2, <2>1, PassedStored
  <2>5. CASE P!LoopExit(d, n) = {}
    BY <1>2, <2>2, <2>4, <2>5 DEF P!rehash_step
  <2>6. CASE P!LoopExit(d, n) # {}
    BY <1>2, <2>3, <2>6 DEF P!rehash_step
  <2> QED BY <2>5, <2>6
<1> QED BY <1>1, <1>2

LEMMA StoreStored ==
    ASSUME NEW d, P!Sound(d), NEW f \in Key, NEW v \in Value
    PROVE  All(P!StoreInMain(d, f, v)) \subseteq All(d) \cup {Pair(f, v)}
<1> DEFINE new == [key |-> f, value |-> v]
           old == P!Found(d.ht0, f)
           b == d.ht0.bucket[P!Slot(d.ht0, f)]
           g == P!WithBucket(d.ht0, f, (b \ old) \cup {new})
<1>1. P!IsTable(d.ht0) /\ d.ht0.size > 0 /\ P!AtHome(d.ht0) /\ P!Unique(d.ht0) /\ d.ht0.size \in Nat
  BY DEF P!Sound, P!IsDict, P!IsTable
<1>2. P!Nodes(g) = (P!Nodes(d.ht0) \ old) \cup {new}
  BY <1>1, Assumed, P!ReplaceSound
<1>3. ASSUME NEW u PROVE All(P!WithMain(d, g, u)) \subseteq All(d) \cup {new}
  BY <1>2 DEF All, P!WithMain, P!Record
<1>4. ASSUME NEW w, w.ht0.size \in Nat
      PROVE  All(P!expand_if_needed(w)) \subseteq All(w)
  BY <1>4, NoNodes DEF All, P!expand_if_needed, P!StartRehash, P!Record
<1>5. \A u : P!WithMain(d, g, u).ht0.size = d.ht0.size
  BY DEF P!WithMain, P!WithBucket, P!Record
<1>6. old = {} => g = P!WithBucket(d.ht0, f, b \cup {new})
  OBVIOUS
<1>7. \/ P!StoreInMain(d, f, v) = P!WithMain(d, g, d.used)
      \/ P!StoreInMain(d, f, v) = P!expand_if_needed(P!WithMain(d, g, d.used + 1))
  BY <1>6 DEF P!StoreInMain
<1> HIDE DEF g
<1> QED BY <1>1, <1>3, <1>4, <1>5, <1>7 DEF Pair

LEMMA EraseStored ==
    ASSUME NEW d, P!Sound(d), NEW f \in Key
    PROVE  All(P!EraseFirst(d, f)) \subseteq All(d)
<1>1. /\ P!IsTable(d.ht0) /\ d.ht0.size > 0 /\ P!AtHome(d.ht0) /\ P!Unique(d.ht0)
      /\ P!IsTable(d.ht1) /\ P!AtHome(d.ht1) /\ P!Unique(d.ht1)
      /\ P!is_rehashing(d) => d.ht1.size > 0
      /\ d.ht0.size \in Nat
  BY DEF P!Sound, P!IsDict, P!IsTable
<1>2. /\ P!Nodes(P!Unlink(d.ht0, f)) \subseteq P!Nodes(d.ht0)
      /\ P!Unlink(d.ht0, f).size = d.ht0.size
  BY <1>1, Assumed, P!UnlinkSound
<1>3. P!is_rehashing(d) => P!Nodes(P!Unlink(d.ht1, f)) \subseteq P!Nodes(d.ht1)
  BY <1>1, Assumed, P!UnlinkSound
<1>4. ASSUME NEW w, w.ht0.size \in Nat
      PROVE  All(P!shrink_if_needed(w)) \subseteq All(w)
  <2>1. P!LargerOf(INIT_HT_SIZE, w.ht0.size \div 2) \in Nat
    BY <1>4, Assumed DEF P!LargerOf, P!DictAssumption
  <2> QED BY <2>1, NoNodes DEF All, P!shrink_if_needed, P!StartRehash, P!Record
<1>5. ASSUME NEW u
      PROVE  /\ All(P!WithMain(d, P!Unlink(d.ht0, f), u)) \subseteq All(d)
             /\ P!WithMain(d, P!Unlink(d.ht0, f), u).ht0.size \in Nat
             /\ P!is_rehashing(d) => All(P!WithNew(d, P!Unlink(d.ht1, f), u)) \subseteq All(d)
             /\ P!WithNew(d, P!Unlink(d.ht1, f), u).ht0.size \in Nat
  BY <1>1, <1>2, <1>3 DEF All, P!WithMain, P!WithNew, P!Record
<1>6. \/ P!EraseFirst(d, f) = d
      \/ P!EraseFirst(d, f) = P!shrink_if_needed(P!WithMain(d, P!Unlink(d.ht0, f), d.used - 1))
      \/ /\ P!is_rehashing(d)
         /\ P!EraseFirst(d, f) = P!shrink_if_needed(P!WithNew(d, P!Unlink(d.ht1, f), d.used - 1))
  BY DEF P!EraseFirst
<1> QED BY <1>4, <1>5, <1>6

(* One insertion, with the rehash step and the growth it may bring.  *)
LEMMA OneInsert ==
    ASSUME NEW d, P!Sound(d), P!Counted(d), NEW f \in Key, NEW v \in Value
    PROVE  LET e == HT!set_field(d, f, v)
           IN /\ P!Sound(e) /\ P!Counted(e) /\ HT!get_field(e, f) = v
              /\ All(e) \subseteq All(d) \cup {Pair(f, v)}
<1> DEFINE s == P!rehash_step(d, 1)
<1>1. P!Sound(s) /\ P!Counted(s) /\ All(s) \subseteq All(d)
  BY Assumed, P!RehashStepSound, P!RehashStepCounted, RehashStored
<1> HIDE DEF s
<1>2. /\ P!Sound(P!StoreInMain(s, f, v)) /\ P!Counted(P!StoreInMain(s, f, v))
      /\ P!get_field(P!StoreInMain(s, f, v), f) = v
      /\ All(P!StoreInMain(s, f, v)) \subseteq All(d) \cup {Pair(f, v)}
  BY <1>1, Assumed, P!StoreInMainSound, P!StoreInMainCounted, P!ReadAfterStore, StoreStored
<1>3. HT!set_field(d, f, v) = P!StoreInMain(s, f, v)
  BY OpsSame DEF P!set_field, s
<1> QED BY <1>2, <1>3, OpsSame

LEMMA EmptyDict == P!Sound(HT!NewDict) /\ P!Counted(HT!NewDict) /\ All(HT!NewDict) = {}
<1>1. P!Sound(P!NewDict)
  BY Assumed, P!NewDictSound
<1>3. /\ P!Nodes(P!NewDict.ht0) = {} /\ P!Nodes(P!NewDict.ht1) = {}
      /\ P!NewDict.used = 0
  BY NoNodes, Assumed DEF P!NewDict, P!Record, P!DictAssumption
<1>4. IsFiniteSet({}) /\ Cardinality({}) = 0
  BY FS_EmptySet
<1>5. P!Counted(P!NewDict)
  BY <1>3, <1>4, CardinalitySame DEF P!Counted, P!get_all_length
<1> QED BY <1>1, <1>3, <1>5, OpsSame DEF All

(* The table a promotion builds is in order, and the pair inserted last is
   the one that is read.  *)
LEMMA FoldSound ==
    ASSUME NEW zl \in Seq(D!Entry)
    PROVE  /\ P!Sound(Folded(zl)) /\ P!Counted(Folded(zl))
           /\ All(Folded(zl)) \subseteq {zl[j] : j \in 1 .. Len(zl)}
           /\ Len(zl) # 0 =>
                 HT!get_field(Folded(zl), zl[Len(zl)].key) = zl[Len(zl)].value
<1> DEFINE n == Len(zl)
<1>1. PICK run : Inserts(zl, run) /\ Folded(zl) = run[n]
  BY FoldInserts
<1>2. n \in Nat
  OBVIOUS
<1>3. \A m \in 1 .. n : /\ zl[m].key \in Key /\ zl[m].value \in Value
                          /\ zl[m] = Pair(zl[m].key, zl[m].value)
  <2>1. \A m \in 1 .. n : zl[m] \in D!Entry
    BY ElementOfSeq
  <2> QED BY <2>1 DEF D!Entry, Pair
<1> HIDE DEF n
<1> DEFINE Good(m) == /\ P!Sound(run[m]) /\ P!Counted(run[m])
                      /\ All(run[m]) \subseteq {zl[j] : j \in 1 .. m}
<1>4. Good(0)
  BY <1>1, EmptyDict DEF Inserts
<1>5. ASSUME NEW m \in 1 .. n, Good(m - 1)
      PROVE  Good(m) /\ HT!get_field(run[m], zl[m].key) = zl[m].value
  <2>1. run[m] = HT!set_field(run[m - 1], zl[m].key, zl[m].value)
    BY <1>1 DEF Inserts, n
  <2>2. /\ P!Sound(run[m]) /\ P!Counted(run[m])
        /\ HT!get_field(run[m], zl[m].key) = zl[m].value
        /\ All(run[m]) \subseteq All(run[m - 1]) \cup {zl[m]}
    BY <1>3, <1>5, <2>1, OneInsert
  <2>3. 1 .. m = (1 .. m - 1) \cup {m}
    BY <1>2
  <2> QED BY <1>5, <2>2, <2>3
<1> HIDE DEF Good
<1>6. \A m \in 0 .. n : Good(m)
  <2> DEFINE G == {m \in 0 .. n : Good(m)}
  <2>1. 0 \in G
    BY <1>2, <1>4
  <2>2. ASSUME NEW m \in 1 .. n, m - 1 \in G PROVE m \in G
    BY <1>2, <1>5, <2>2
  <2> HIDE DEF G
  <2>3. 0 .. n \subseteq G
    BY <1>2, <2>1, <2>2, UpTo
  <2> QED BY <2>3 DEF G
<1>7. Good(n)
  BY <1>2, <1>6
<1>8. n # 0 => HT!get_field(run[n], zl[n].key) = zl[n].value
  <2> HAVE n # 0
  <2>1. n \in 1 .. n /\ n - 1 \in 0 .. n
    BY <1>2
  <2> QED BY <1>5, <1>6, <2>1
<1> QED BY <1>1, <1>7, <1>8 DEF Good, n

-----------------------------------------------------------------------------
(* The table of an object. *)

IsTabled(o) ==
    /\ o.encoding = "ZIPLIST" => o.dict = HT!NewDict
    /\ o.encoding = "HASHTABLE" => o.ziplist = <<>>
    /\ P!Sound(o.dict) /\ P!Counted(o.dict)

IsObject(o) == IsHash(o) /\ IsTabled(o)

LEMMA NewKeeps == IsObject(NewObject)
<1>1. <<>> \in Seq(D!Entry) /\ Len(<<>>) = 0 /\ DOMAIN <<>> = {}
  OBVIOUS
<1>2. IsZiplist(<<>>) /\ should_use_ziplist(<<>>)
  BY <1>1, HashObjectAssumption DEF IsZiplist, Fields, should_use_ziplist
<1> QED BY <1>2, EmptyDict DEF IsObject, IsHash, IsTabled, NewObject

\* The pairs of an object, in either encoding.
LEMMA StoredIn ==
    ASSUME NEW o
    PROVE  /\ o.encoding = "ZIPLIST" => Stored(o) = ToSet(o.ziplist)
           /\ o.encoding = "HASHTABLE" => Stored(o) = All(o.dict)
BY OpsSame DEF Stored, All

LEMMA PromotionKeeps ==
    ASSUME NEW o, o.ziplist \in Seq(D!Entry)
    PROVE  LET p == promote_to_hashtable(o)
           IN /\ IsObject(p) /\ p.encoding = "HASHTABLE" /\ p.dict = Folded(o.ziplist)
              /\ Stored(p) \subseteq ToSet(o.ziplist)
<1> DEFINE p == promote_to_hashtable(o)
<1>1. p = [encoding |-> "HASHTABLE", ziplist |-> <<>>, dict |-> Folded(o.ziplist)]
  BY DEF promote_to_hashtable, Folded
<1>2. IsHash(p)
  BY Promoted
<1>3. /\ P!Sound(Folded(o.ziplist)) /\ P!Counted(Folded(o.ziplist))
      /\ All(Folded(o.ziplist)) \subseteq ToSet(o.ziplist)
  BY FoldSound DEF ToSet
<1> HIDE DEF p
<1> QED BY <1>1, <1>2, <1>3, StoredIn DEF IsObject, IsTabled, p

LEMMA TableReplaced ==
    ASSUME NEW o, IsObject(o), o.encoding = "HASHTABLE",
           NEW d, P!Sound(d), P!Counted(d)
    PROVE  LET p == [o EXCEPT !.dict = d]
           IN /\ IsObject(p) /\ p.encoding = "HASHTABLE" /\ p.dict = d
              /\ Stored(p) = All(d)
<1>1. [o EXCEPT !.dict = d] = [encoding |-> "HASHTABLE", ziplist |-> o.ziplist, dict |-> d]
  BY DEF IsHash, IsObject
<1>2. IsHash([o EXCEPT !.dict = d])
  BY TableKept DEF IsObject
<1>3. o.ziplist = <<>>
  BY DEF IsObject, IsTabled
<1> QED BY <1>1, <1>2, <1>3, StoredIn DEF IsObject, IsTabled

(* The pairs of a ziplist that was changed.  *)
LEMMA EntriesWritten ==
    ASSUME NEW zl, IsZiplist(zl), NEW f \in Key, NEW v \in Value
    PROVE  LET i == find_in_ziplist(zl, f)
           IN /\ i # 0 => ToSet(Changed(zl, i, v)) \subseteq ToSet(zl) \cup {Pair(f, v)}
              /\ ToSet(Append(zl, Pair(f, v))) = ToSet(zl) \cup {Pair(f, v)}
<1> DEFINE i == find_in_ziplist(zl, f)
<1>1. zl \in Seq(D!Entry) /\ Len(zl) \in Nat
  BY DEF IsZiplist
<1>2. \A s \in Seq(D!Entry) : ToSet(s) = {s[j] : j \in 1 .. Len(s)}
  BY LenProperties DEF ToSet
<1>3. ASSUME i # 0
      PROVE  ToSet(Changed(zl, i, v)) \subseteq ToSet(zl) \cup {Pair(f, v)}
  <2>1. i \in 1 .. Len(zl) /\ zl[i].key = f
    BY <1>1, <1>3, Find
  <2> HIDE DEF i
  <2> DEFINE new == Changed(zl, i, v)
  <2>2. /\ new \in Seq(D!Entry) /\ Len(new) = Len(zl)
        /\ \A j \in 1 .. Len(zl) : new[j] = IF j = i THEN Pair(f, v) ELSE zl[j]
    BY <2>1, Update DEF IsZiplist
  <2> HIDE DEF new
  <2>3. ToSet(new) \subseteq ToSet(zl) \cup {Pair(f, v)}
    BY <1>1, <1>2, <2>2
  <2> QED BY <2>3 DEF new
<1>4. ToSet(Append(zl, Pair(f, v))) = ToSet(zl) \cup {Pair(f, v)}
  <2> DEFINE new == Append(zl, Pair(f, v))
  <2>1. /\ new \in Seq(D!Entry) /\ Len(new) = Len(zl) + 1
        /\ \A j \in 1 .. Len(zl) : new[j] = zl[j]
        /\ new[Len(zl) + 1] = Pair(f, v)
    BY <1>1, AppendProperties DEF D!Entry, Pair
  <2>2. 1 .. Len(zl) + 1 = (1 .. Len(zl)) \cup {Len(zl) + 1}
    BY <1>1
  <2> HIDE DEF new
  <2>3. ToSet(new) = ToSet(zl) \cup {Pair(f, v)}
    BY <1>1, <1>2, <2>1, <2>2
  <2> QED BY <2>3 DEF new
<1> QED BY <1>3, <1>4

LEMMA EntriesErased ==
    ASSUME NEW zl, IsZiplist(zl), NEW i \in 1 .. Len(zl)
    PROVE  ToSet(RemoveAt(zl, i)) \subseteq ToSet(zl)
<1> DEFINE new == RemoveAt(zl, i)
<1>1. \A s \in Seq(D!Entry) : ToSet(s) = {s[j] : j \in 1 .. Len(s)}
  BY LenProperties DEF ToSet
<1>2. /\ zl \in Seq(D!Entry) /\ new \in Seq(D!Entry)
      /\ \A j \in 1 .. Len(new) : \E k \in 1 .. Len(zl) : new[j] = zl[k]
  BY Shorter DEF IsZiplist
<1> HIDE DEF new
<1>3. ToSet(new) \subseteq ToSet(zl)
  BY <1>1, <1>2
<1> QED BY <1>3 DEF new

LEMMA StoreKeeps ==
    ASSUME NEW o, IsObject(o), o.encoding = "ZIPLIST",
           NEW f \in Key, NEW v \in Value, {f, v} \cap Large = {}
    PROVE  LET p == StoreInZiplist(o, f, v)
           IN /\ IsObject(p) /\ get_field(p, f) = v
              /\ Stored(p) \subseteq Stored(o) \cup {Pair(f, v)}
<1> DEFINE zl == o.ziplist
           i  == find_in_ziplist(zl, f)
           p  == StoreInZiplist(o, f, v)
<1>1. /\ IsHash(o) /\ IsTabled(o) /\ zl \in Seq(D!Entry) /\ IsZiplist(zl)
      /\ Stored(o) = ToSet(zl)
  BY StoredIn DEF IsObject, IsHash, IsZiplist
<1>2. IsHash(p) /\ (p.encoding = "ZIPLIST" => get_field(p, f) = v)
  BY <1>1, StoreSound
<1> DEFINE Right == /\ IsObject(p) /\ get_field(p, f) = v
                    /\ Stored(p) \subseteq Stored(o) \cup {Pair(f, v)}
<1>3. ASSUME NEW new, p = [o EXCEPT !.ziplist = new],
             ToSet(new) \subseteq ToSet(zl) \cup {Pair(f, v)}
      PROVE  Right
  <2>1. p = [encoding |-> "ZIPLIST", ziplist |-> new, dict |-> o.dict]
    BY <1>1, <1>3, ZiplistReplaced
  <2>2. p.encoding = "ZIPLIST" /\ p.dict = o.dict /\ p.ziplist = new
    BY <2>1
  <2> HIDE DEF p
  <2>3. Stored(p) = ToSet(new)
    BY <2>2, StoredIn
  <2> QED BY <1>1, <1>2, <1>3, <2>2, <2>3 DEF IsObject, IsTabled
<1> DEFINE longer == Append(zl, Pair(f, v))
           q == [o EXCEPT !.ziplist = longer]
<1>4. ASSUME p = promote_to_hashtable(q) PROVE Right
  <2>1. /\ longer \in Seq(D!Entry) /\ Len(longer) = Len(zl) + 1 /\ Len(zl) \in Nat
        /\ longer[Len(zl) + 1] = Pair(f, v)
    BY <1>1, AppendProperties DEF D!Entry, Pair
  <2>2. q.ziplist = longer
    BY <1>1, ZiplistReplaced
  <2> HIDE DEF longer, q
  <2>3. IsObject(p) /\ p.encoding = "HASHTABLE" /\ p.dict = Folded(longer)
        /\ Stored(p) \subseteq ToSet(longer)
    BY <1>4, <2>1, <2>2, PromotionKeeps
  <2>4. HT!get_field(Folded(longer), longer[Len(longer)].key) = longer[Len(longer)].value
    BY <2>1, FoldSound
  <2>5. longer[Len(longer)].key = f /\ longer[Len(longer)].value = v
    BY <2>1 DEF Pair
  <2>6. get_field(p, f) = HT!get_field(p.dict, f)
    BY <2>3 DEF get_field
  <2> HIDE DEF p
  <2>7. ToSet(longer) = ToSet(zl) \cup {Pair(f, v)}
    BY <1>1, EntriesWritten DEF longer
  <2>8. Right
    BY <1>1, <2>3, <2>4, <2>5, <2>6, <2>7
  <2> QED BY <2>8 DEF p
<1>5. \/ i # 0 /\ p = [o EXCEPT !.ziplist = Changed(zl, i, v)]
      \/ p = q
      \/ p = promote_to_hashtable(q)
  BY DEF StoreInZiplist, Changed
<1>6. /\ i # 0 => ToSet(Changed(zl, i, v)) \subseteq ToSet(zl) \cup {Pair(f, v)}
      /\ ToSet(longer) = ToSet(zl) \cup {Pair(f, v)}
  BY <1>1, EntriesWritten
<1> HIDE DEF p, i, longer, Right
<1>7. Right
  <2>1. CASE i # 0 /\ p = [o EXCEPT !.ziplist = Changed(zl, i, v)]
    BY <1>3, <1>6, <2>1
  <2>2. CASE p = q
    BY <1>3, <1>6, <2>2
  <2>3. CASE p = promote_to_hashtable(q)
    BY <1>4, <2>3 DEF Right
  <2> QED BY <1>5, <2>1, <2>2, <2>3
<1> QED BY <1>7 DEF Right, p

LEMMA SetKeeps ==
    ASSUME NEW o, IsObject(o), NEW f \in Key, NEW v \in Value
    PROVE  LET p == set_field(o, f, v)
           IN /\ IsObject(p) /\ get_field(p, f) = v
              /\ Stored(p) \subseteq Stored(o) \cup {Pair(f, v)}
<1> DEFINE p == set_field(o, f, v)
           Right == /\ IsObject(p) /\ get_field(p, f) = v
                    /\ Stored(p) \subseteq Stored(o) \cup {Pair(f, v)}
<1>1. ASSUME NEW t, IsObject(t), t.encoding = "HASHTABLE",
             p = [t EXCEPT !.dict = HT!set_field(t.dict, f, v)],
             Stored(t) \subseteq Stored(o)
      PROVE  Right
  <2> DEFINE d == HT!set_field(t.dict, f, v)
  <2>1. /\ P!Sound(d) /\ P!Counted(d) /\ HT!get_field(d, f) = v
        /\ All(d) \subseteq All(t.dict) \cup {Pair(f, v)}
    BY <1>1, OneInsert DEF IsObject, IsTabled
  <2>2. /\ p = [t EXCEPT !.dict = d]
        /\ IsObject(t) /\ t.encoding = "HASHTABLE" /\ Stored(t) = All(t.dict)
    BY <1>1, StoredIn
  <2> HIDE DEF d, p
  <2>3. /\ IsObject(p) /\ p.encoding = "HASHTABLE" /\ p.dict = d
        /\ Stored(p) = All(d)
    BY <2>1, <2>2, TableReplaced
  <2>4. get_field(p, f) = v
    BY <2>1, <2>3 DEF get_field
  <2> QED BY <1>1, <2>1, <2>2, <2>3, <2>4
<1>2. ASSUME o.encoding = "ZIPLIST" /\ {f, v} \cap Large = {} PROVE Right
  <2>1. p = StoreInZiplist(o, f, v)
    BY <1>2 DEF set_field
  <2> HIDE DEF p
  <2> QED BY <1>2, <2>1, StoreKeeps
<1>3. ASSUME o.encoding = "ZIPLIST" /\ {f, v} \cap Large # {} PROVE Right
  <2> DEFINE t == promote_to_hashtable(o)
  <2>1. IsObject(t) /\ t.encoding = "HASHTABLE" /\ Stored(t) \subseteq Stored(o)
    BY <1>3, PromotionKeeps, StoredIn DEF IsObject, IsHash, IsZiplist
  <2>2. p = [t EXCEPT !.dict = HT!set_field(t.dict, f, v)]
    BY <1>3, <2>1 DEF set_field
  <2> HIDE DEF t, p, Right
  <2> QED BY <1>1, <2>1, <2>2
<1>4. ASSUME o.encoding = "HASHTABLE" PROVE Right
  <2>1. p = [o EXCEPT !.dict = HT!set_field(o.dict, f, v)]
    BY <1>4 DEF set_field
  <2> HIDE DEF p, Right
  <2> QED BY <1>1, <1>4, <2>1
<1>5. o.encoding \in {"ZIPLIST", "HASHTABLE"}
  BY DEF IsObject, IsHash
<1> QED BY <1>2, <1>3, <1>4, <1>5

LEMMA DelKeeps ==
    ASSUME NEW o, IsObject(o), NEW f \in Key
    PROVE  IsObject(del_field(o, f)) /\ Stored(del_field(o, f)) \subseteq Stored(o)
<1>1. CASE o.encoding = "HASHTABLE"
  <2> DEFINE s == P!rehash_step(o.dict, 1)
  <2>1. P!Sound(s) /\ P!Counted(s) /\ All(s) \subseteq All(o.dict)
    BY Assumed, P!RehashStepSound, P!RehashStepCounted, RehashStored DEF IsObject, IsTabled
  <2> HIDE DEF s
  <2>2. /\ P!Sound(P!EraseFirst(s, f)) /\ P!Counted(P!EraseFirst(s, f))
        /\ All(P!EraseFirst(s, f)) \subseteq All(s)
    BY <2>1, Assumed, P!EraseFirstSound, EraseStored
  <2>3. HT!del_field(o.dict, f) = P!EraseFirst(s, f)
    BY OpsSame DEF P!del_field, s
  <2>4. del_field(o, f) = [o EXCEPT !.dict = HT!del_field(o.dict, f)]
    BY <1>1 DEF del_field
  <2> QED BY <1>1, <2>1, <2>2, <2>3, <2>4, TableReplaced, StoredIn
<1>2. CASE o.encoding = "ZIPLIST"
  <2>1. IsHash(del_field(o, f))
    BY DelSound DEF IsObject
  <2>2. \/ del_field(o, f) = o
        \/ \E new : /\ del_field(o, f) = [o EXCEPT !.ziplist = new]
                     /\ ToSet(new) \subseteq ToSet(o.ziplist)
    <3> DEFINE i == find_in_ziplist(o.ziplist, f)
    <3>1. IsZiplist(o.ziplist) /\ o.ziplist \in Seq(D!Entry)
      BY <1>2 DEF IsObject, IsHash, IsZiplist
    <3>2. i # 0 => ToSet(RemoveAt(o.ziplist, i)) \subseteq ToSet(o.ziplist)
      BY <3>1, Find, EntriesErased
    <3> HIDE DEF i
    <3>3. del_field(o, f) = IF i # 0 THEN [o EXCEPT !.ziplist = RemoveAt(@, i)] ELSE o
      BY <1>2 DEF del_field, i
    <3> QED BY <3>2, <3>3
  <2>3. \A new : [o EXCEPT !.ziplist = new] =
                    [encoding |-> "ZIPLIST", ziplist |-> new, dict |-> o.dict]
    BY <1>2 DEF IsObject, IsHash
  <2> QED BY <1>2, <2>1, <2>2, <2>3, StoredIn DEF IsObject, IsTabled
<1> QED BY <1>1, <1>2 DEF IsObject, IsHash

-----------------------------------------------------------------------------
(* The size. *)

\* The keys of a finite set of pairs.
LEMMA KeysOf ==
    ASSUME NEW S, IsFiniteSet(S)
    PROVE  LET K == {e.key : e \in S}
           IN IsFiniteSet(K) /\ Cardinality(K) <= Cardinality(S)
<1> DEFINE K == {e.key : e \in S}
           key == [e \in S |-> e.key]
<1>1. key \in Surjection(S, K)
  BY DEF Surjection
<1> QED BY <1>1, FS_Surjection

LEMMA ReadableInNodes ==
    ASSUME NEW d, P!Sound(d), NEW f \in Key, HT!get_field(d, f) # NoValue
    PROVE  \E e \in P!Nodes(d.ht0) \cup P!Nodes(d.ht1) : e.key = f
<1>1. /\ P!Slot(d.ht0, f) \in 0 .. d.ht0.size-1
      /\ P!is_rehashing(d) => P!Slot(d.ht1, f) \in 0 .. d.ht1.size-1
  BY Assumed, P!SlotInRange, SMTT(30) DEF P!Sound, P!IsDict, P!IsTable
<1>2. P!get_field(d, f) # NoValue
  BY OpsSame
<1>3. \/ P!Found(d.ht0, f) # {}
      \/ P!is_rehashing(d) /\ P!Found(d.ht1, f) # {}
  BY <1>2 DEF P!get_field, P!ValueIn
<1> QED BY <1>1, <1>3 DEF P!Found, P!Nodes

(* The fields that can be read are keys of the pairs stored, which the count
   covers.  *)
LEMMA SizeOfObject ==
    ASSUME NEW o, IsObject(o)
    PROVE  LET F == {f \in Key : get_field(o, f) # NoValue}
           IN IsFiniteSet(F) /\ size(o) \in Nat /\ size(o) >= Cardinality(F)
<1> DEFINE F == {f \in Key : get_field(o, f) # NoValue}
<1>1. CASE o.encoding = "ZIPLIST"
  <2> DEFINE n == Len(o.ziplist)
             S == {o.ziplist[j] : j \in 1 .. n}
             at == [j \in 1 .. n |-> o.ziplist[j]]
  <2>1. n \in Nat /\ o.ziplist \in Seq(D!Entry)
    BY <1>1 DEF IsObject, IsHash, IsZiplist
  <2>2. IsFiniteSet(S) /\ Cardinality(S) <= n
    <3>1. at \in Surjection(1 .. n, S)
      BY DEF Surjection
    <3>2. IsFiniteSet(1 .. n) /\ Cardinality(1 .. n) = n
      BY <2>1, FS_Interval, SMTT(30)
    <3> QED BY <3>1, <3>2, FS_Surjection
  <2>3. F \subseteq {e.key : e \in S}
    <3> SUFFICES ASSUME NEW f \in Key, get_field(o, f) # NoValue
                 PROVE  \E e \in S : e.key = f
      OBVIOUS
    <3>1. find_in_ziplist(o.ziplist, f) # 0
      BY <1>1 DEF get_field
    <3> QED BY <2>1, <3>1, Find
  <2> HIDE DEF S, F, n
  <2>4. Cardinality(F) <= n
    <3>1. /\ IsFiniteSet({e.key : e \in S})
          /\ Cardinality({e.key : e \in S}) <= Cardinality(S)
      BY <2>2, KeysOf
    <3>2. IsFiniteSet(F) /\ Cardinality(F) <= Cardinality({e.key : e \in S})
      BY <2>3, <3>1, FS_Subset
    <3>3. /\ Cardinality(F) \in Nat /\ Cardinality(S) \in Nat
          /\ Cardinality({e.key : e \in S}) \in Nat
      BY <2>2, <3>1, <3>2, FS_CardinalityType
    <3> QED BY <2>1, <2>2, <3>1, <3>2, <3>3
  <2>5. size(o) = n
    BY <1>1 DEF size, n
  <2>6. IsFiniteSet(F) /\ Cardinality(F) \in Nat
    <3>1. IsFiniteSet(F)
      BY <2>2, <2>3, KeysOf, FS_Subset
    <3> QED BY <3>1, FS_CardinalityType
  <2> QED BY <2>1, <2>4, <2>5, <2>6 DEF F
<1>2. CASE o.encoding = "HASHTABLE"
  <2> DEFINE d == o.dict
             A == P!Nodes(d.ht0)
             B == P!Nodes(d.ht1)
             S == A \cup B
  <2>1. P!Sound(d) /\ P!Counted(d)
    BY DEF IsObject, IsTabled
  <2>2. /\ IsFiniteSet(A) /\ IsFiniteSet(B) /\ d.used \in Nat
        /\ d.used >= Cardinality(A) + Cardinality(B)
    BY <2>1, CardinalitySame DEF P!Counted, P!Sound, P!IsDict, P!get_all_length
  <2>3. F \subseteq {e.key : e \in S}
    <3> SUFFICES ASSUME NEW f \in Key, get_field(o, f) # NoValue
                 PROVE  \E e \in S : e.key = f
      OBVIOUS
    <3>1. HT!get_field(d, f) # NoValue
      BY <1>2 DEF get_field
    <3> QED BY <2>1, <3>1, ReadableInNodes
  <2> HIDE DEF A, B, F
  <2>4. /\ IsFiniteSet(S) /\ Cardinality(S) \in Nat
        /\ Cardinality(S) <= Cardinality(A) + Cardinality(B)
        /\ Cardinality(A) \in Nat /\ Cardinality(B) \in Nat
    <3>1. /\ IsFiniteSet(S) /\ IsFiniteSet(A \cap B)
          /\ Cardinality(S) = Cardinality(A) + Cardinality(B) - Cardinality(A \cap B)
      BY <2>2, FS_Union, FS_Subset
    <3>2. /\ Cardinality(A \cap B) \in Nat /\ Cardinality(S) \in Nat
          /\ Cardinality(A) \in Nat /\ Cardinality(B) \in Nat
      BY <2>2, <3>1, FS_CardinalityType
    <3> QED BY <3>1, <3>2
  <2> HIDE DEF S
  <2>5. /\ IsFiniteSet({e.key : e \in S})
        /\ Cardinality({e.key : e \in S}) <= Cardinality(S)
    BY <2>4, KeysOf
  <2>6. IsFiniteSet(F) /\ Cardinality(F) <= Cardinality({e.key : e \in S})
    BY <2>3, <2>5, FS_Subset
  <2>7. Cardinality(F) \in Nat /\ Cardinality({e.key : e \in S}) \in Nat
    BY <2>5, <2>6, FS_CardinalityType
  <2>8. size(o) = d.used
    BY <1>2 DEF size
  <2> HIDE DEF d
  <2>9. d.used >= Cardinality(F) /\ d.used \in Nat
    BY <2>2, <2>4, <2>5, <2>6, <2>7
  <2> QED BY <2>6, <2>8, <2>9 DEF F
<1> QED BY <1>1, <1>2 DEF IsObject, IsHash

-----------------------------------------------------------------------------
(* Few fields: the table never has to grow, and loses nothing. *)

\* The fields of F that a table not in rehash holds.
Held(d, F) == {f \in F : P!Found(d.ht0, f) # {}}

(* A table that has never had to grow.  It counts exactly the fields it
   holds.  *)
IsFlatDict(d, F) ==
    /\ P!Sound(d) /\ P!Counted(d)
    /\ ~ P!is_rehashing(d)
    /\ d.ht0.size = INIT_HT_SIZE
    /\ d.used = Cardinality(Held(d, F))

IsFew(F) == F \subseteq Key /\ IsFiniteSet(F) /\ Cardinality(F) < INIT_HT_SIZE

LEMMA FlatInsert ==
    ASSUME NEW F, IsFew(F), NEW d, IsFlatDict(d, F), NEW f \in F, NEW v \in Value
    PROVE  LET e == HT!set_field(d, f, v)
           IN /\ IsFlatDict(e, F)
              /\ \A g \in F : HT!get_field(e, g) = IF g = f THEN v ELSE HT!get_field(d, g)
<1> DEFINE new == [key |-> f, value |-> v]
           old == P!Found(d.ht0, f)
           b   == d.ht0.bucket[P!Slot(d.ht0, f)]
           h   == P!WithBucket(d.ht0, f, (b \ old) \cup {new})
           e   == HT!set_field(d, f, v)
<1>1. /\ P!IsTable(d.ht0) /\ d.ht0.size > 0 /\ P!AtHome(d.ht0) /\ P!Unique(d.ht0)
      /\ d.ht0.size \in Nat /\ d.used \in Nat /\ F \subseteq Key
      /\ d = P!Record(d.ht0, d.ht1, d.used, -1)
  BY DEF IsFlatDict, IsFew, P!Sound, P!IsDict, P!IsTable, P!is_rehashing
<1>2. /\ P!IsTable(h) /\ h.size = d.ht0.size
      /\ P!Found(h, f) = {new}
  BY <1>1, Assumed, P!ReplaceSound
<1>3. ASSUME NEW g \in F, g # f
      PROVE  P!Found(h, g) = P!Found(d.ht0, g)
  <2>1. P!Slot(h, g) = P!Slot(d.ht0, g) /\ P!Slot(d.ht0, g) \in 0 .. d.ht0.size-1
    BY <1>1, <1>2, Assumed, P!SlotOfSize, P!SlotInRange
  <2>2. h.bucket = [d.ht0.bucket EXCEPT ![P!Slot(d.ht0, f)] = (b \ old) \cup {new}]
    BY DEF P!WithBucket
  <2>3. d.ht0.bucket \in [0 .. d.ht0.size-1 -> SUBSET P!Entry]
    BY <1>1 DEF P!IsTable
  <2> HIDE DEF h
  <2>4. h.bucket[P!Slot(d.ht0, g)] = IF P!Slot(d.ht0, g) = P!Slot(d.ht0, f)
                                    THEN (b \ old) \cup {new}
                                    ELSE d.ht0.bucket[P!Slot(d.ht0, g)]
    BY <2>1, <2>2, <2>3
  <2> QED BY <1>3, <2>1, <2>4 DEF P!Found
<1>4. {x \in F : P!Found(h, x) # {}} = Held(d, F) \cup {f}
  BY <1>2, <1>3 DEF Held
<1> DEFINE u == IF old = {} THEN d.used + 1 ELSE d.used
<1>5. u = Cardinality(Held(d, F) \cup {f}) /\ u \in Nat /\ u < d.ht0.size
  <2>1. IsFiniteSet(Held(d, F)) /\ IsFiniteSet(Held(d, F) \cup {f})
    BY FS_Subset, FS_AddElement DEF Held, IsFew
  <2>2. Cardinality(Held(d, F) \cup {f}) =
           IF f \in Held(d, F) THEN Cardinality(Held(d, F)) ELSE Cardinality(Held(d, F)) + 1
    BY <2>1, FS_AddElement
  <2>3. f \in Held(d, F) <=> old # {}
    BY DEF Held
  <2>4. Held(d, F) \cup {f} \subseteq F
    BY DEF Held
  <2>5. Cardinality(Held(d, F) \cup {f}) <= Cardinality(F) /\ Cardinality(F) \in Nat
    BY <2>4, FS_Subset, FS_CardinalityType DEF IsFew
  <2>6. u = Cardinality(Held(d, F) \cup {f})
    BY <2>2, <2>3 DEF IsFlatDict
  <2>7. u \in Nat
    BY <1>1
  <2>8. Cardinality(F) < d.ht0.size
    BY DEF IsFew, IsFlatDict
  <2> QED BY <1>1, <2>5, <2>6, <2>7, <2>8
<1>6. e = P!WithMain(d, h, u)
  <2>1. e = P!StoreInMain(d, f, v)
    BY OpsSame DEF P!set_field, P!rehash_step, IsFlatDict
  <2>2. old = {} => h = P!WithBucket(d.ht0, f, b \cup {new})
    OBVIOUS
  <2>3. /\ P!WithMain(d, h, u).used = u /\ P!WithMain(d, h, u).ht0.size = d.ht0.size
        /\ P!WithMain(d, h, u).rehashidx = -1
    BY <1>1, <1>2 DEF P!WithMain, P!Record
  <2>4. P!expand_if_needed(P!WithMain(d, h, u)) = P!WithMain(d, h, u)
    BY <1>1, <1>5, <2>3 DEF P!expand_if_needed
  <2>5. CASE old = {}
    BY <2>1, <2>2, <2>4, <2>5 DEF P!StoreInMain
  <2>6. CASE old # {}
    BY <2>1, <2>6 DEF P!StoreInMain
  <2> QED BY <2>5, <2>6
<1>7. e.ht0 = h /\ e.used = u /\ e.rehashidx = -1
  BY <1>1, <1>6 DEF P!WithMain, P!Record
<1>8. P!Sound(e) /\ P!Counted(e)
  BY OneInsert DEF IsFlatDict, IsFew
<1> HIDE DEF e, h, u
<1>9. IsFlatDict(e, F)
  BY <1>2, <1>4, <1>5, <1>7, <1>8 DEF IsFlatDict, P!is_rehashing, Held
<1>10. ASSUME NEW g \in F
       PROVE  HT!get_field(e, g) = IF g = f THEN v ELSE HT!get_field(d, g)
  <2>1. \A x : /\ P!get_field(e, x) = P!ValueIn(P!Found(h, x))
               /\ P!get_field(d, x) = P!ValueIn(P!Found(d.ht0, x))
    BY <1>1, <1>7 DEF P!get_field, P!ValueIn, P!is_rehashing, IsFlatDict
  <2>2. P!ValueIn({new}) = v
    <3>1. (CHOOSE x \in {new} : TRUE) = new
      OBVIOUS
    <3> QED BY <3>1 DEF P!ValueIn
  <2> QED BY <1>2, <1>3, <2>1, <2>2, OpsSame
<1> QED BY <1>9, <1>10 DEF e

LEMMA FlatEmpty ==
    ASSUME NEW F, IsFew(F)
    PROVE  /\ IsFlatDict(HT!NewDict, F)
           /\ \A f \in F : HT!get_field(HT!NewDict, f) = NoValue
<1>1. /\ P!NewDict.ht0 = P!Table(INIT_HT_SIZE) /\ P!NewDict.used = 0
      /\ P!NewDict.rehashidx = -1
  BY DEF P!NewDict, P!Record
<1>2. INIT_HT_SIZE \in Nat /\ INIT_HT_SIZE > 0
  BY Assumed DEF P!DictAssumption
<1>3. \A f \in F : P!Found(P!NewDict.ht0, f) = {}
  <2> TAKE f \in F
  <2>1. P!Slot(P!Table(INIT_HT_SIZE), f) \in 0 .. INIT_HT_SIZE - 1
    BY <1>2, Assumed, P!SlotInRange, P!EmptyTable DEF IsFew
  <2> QED BY <1>1, <1>2, <2>1, P!EmptyTable, Assumed DEF P!Found
<1>4. Held(P!NewDict, F) = {}
  BY <1>3 DEF Held
<1>5. Cardinality({}) = 0
  BY FS_EmptySet
<1>6. IsFlatDict(P!NewDict, F)
  BY <1>1, <1>2, <1>4, <1>5, EmptyDict, OpsSame, P!EmptyTable, Assumed
     DEF IsFlatDict, P!is_rehashing
<1>7. \A f \in F : P!get_field(P!NewDict, f) = NoValue
  BY <1>1, <1>3 DEF P!get_field, P!is_rehashing
<1> QED BY <1>6, <1>7, OpsSame

(* A promotion of few fields loses none of them.  *)
LEMMA FoldFlat ==
    ASSUME NEW F, IsFew(F), NEW zl, IsZiplist(zl), \A e \in ToSet(zl) : e.key \in F
    PROVE  /\ IsFlatDict(Folded(zl), F)
           /\ \A g \in F : HT!get_field(Folded(zl), g) = ValueOf(zl, g)
<1> DEFINE n == Len(zl)
<1>1. zl \in Seq(D!Entry) /\ n \in Nat
  BY DEF IsZiplist
<1>2. PICK run : Inserts(zl, run) /\ Folded(zl) = run[n]
  BY <1>1, FoldInserts
<1>3. \A m \in 1 .. n : zl[m].key \in F /\ zl[m].value \in Value
  <2>1. \A m \in 1 .. n : zl[m] \in D!Entry /\ zl[m] \in ToSet(zl)
    BY <1>1, ElementOfSeq, LenProperties DEF ToSet
  <2> QED BY <2>1 DEF D!Entry
<1>4. \A i, j \in 1 .. n : zl[i].key = zl[j].key => i = j
  BY DEF IsZiplist, Fields
<1> HIDE DEF n
<1> DEFINE Shows(m, g) ==
              /\ \A j \in 1 .. m : zl[j].key = g => HT!get_field(run[m], g) = zl[j].value
              /\ (\A j \in 1 .. m : zl[j].key # g) => HT!get_field(run[m], g) = NoValue
           G == {m \in 0 .. n : IsFlatDict(run[m], F) /\ \A g \in F : Shows(m, g)}
<1>5. 0 \in G
  <2>1. run[0] = HT!NewDict
    BY <1>2 DEF Inserts
  <2>2. 0 \in 0 .. n /\ 1 .. 0 = {}
    BY <1>1
  <2> QED BY <2>1, <2>2, FlatEmpty
<1>6. ASSUME NEW m \in 1 .. n, m - 1 \in G PROVE m \in G
  <2>1. /\ m \in 0 .. n /\ m - 1 \in 0 .. n
        /\ 1 .. m = (1 .. m - 1) \cup {m} /\ 1 .. m \subseteq 1 .. n /\ m \notin 1 .. m - 1
    BY <1>1
  <2>2. IsFlatDict(run[m - 1], F) /\ \A g \in F : Shows(m - 1, g)
    BY <1>6
  <2>3. run[m] = HT!set_field(run[m - 1], zl[m].key, zl[m].value)
    BY <1>2 DEF Inserts, n
  <2>4. /\ IsFlatDict(run[m], F)
        /\ \A g \in F : HT!get_field(run[m], g) =
              IF g = zl[m].key THEN zl[m].value ELSE HT!get_field(run[m - 1], g)
    BY <1>3, <2>2, <2>3, FlatInsert
  <2>5. ASSUME NEW g \in F PROVE Shows(m, g)
    <3>1. CASE g = zl[m].key
      BY <1>4, <2>1, <2>4, <3>1
    <3>2. CASE g # zl[m].key
      BY <2>1, <2>2, <2>4, <3>2
    <3> QED BY <3>1, <3>2
  <2> QED BY <2>1, <2>4, <2>5
<1> HIDE DEF Shows, G
<1>7. 0 .. n \subseteq G
  BY <1>1, <1>5, <1>6, UpTo
<1>8. IsFlatDict(run[n], F) /\ \A g \in F : Shows(n, g)
  <2>1. n \in G
    BY <1>1, <1>7
  <2> QED BY <2>1 DEF G
<1>9. ASSUME NEW g \in F PROVE HT!get_field(run[n], g) = ValueOf(zl, g)
  BY <1>8, ValueThere DEF Shows, n
<1> QED BY <1>2, <1>8, <1>9

(* An object with few fields, all of them of F.  *)
IsFlat(o, F) ==
    /\ IsObject(o)
    /\ IsFlatDict(o.dict, F)
    /\ \A e \in ToSet(o.ziplist) : e.key \in F

LEMMA FlatNew ==
    ASSUME NEW F, IsFew(F)
    PROVE  IsFlat(NewObject, F) /\ \A f \in F : get_field(NewObject, f) = NoValue
<1>1. ToSet(<<>>) = {}
  BY DEF ToSet
<1>2. IsZiplist(<<>>)
  BY NewKeeps DEF IsObject, IsHash, NewObject
<1>3. IsFlat(NewObject, F)
  BY <1>1, NewKeeps, FlatEmpty DEF IsFlat, NewObject
<1>4. \A f \in F : ValueOf(<<>>, f) = NoValue
  BY <1>2, ValueThere
<1>5. \A f : get_field(NewObject, f) = ValueOf(<<>>, f)
  BY DEF get_field, ValueOf, NewObject
<1> QED BY <1>3, <1>4, <1>5

(* While the fields are few, a write changes its own field and no other, in
   both encodings and across the promotion.  *)
LEMMA FlatSet ==
    ASSUME NEW F, IsFew(F), NEW o, IsFlat(o, F), NEW f \in F, NEW v \in Value
    PROVE  LET p == set_field(o, f, v)
           IN /\ IsFlat(p, F)
              /\ \A g \in F : get_field(p, g) = IF g = f THEN v ELSE get_field(o, g)
<1> DEFINE p == set_field(o, f, v)
           zl == o.ziplist
           Right == /\ IsFlatDict(p.dict, F)
                    /\ \A g \in F : get_field(p, g) = IF g = f THEN v ELSE get_field(o, g)
<1>1. f \in Key /\ F \subseteq Key /\ IsObject(o) /\ IsHash(o) /\ IsTabled(o)
  BY DEF IsFew, IsFlat, IsObject
<1>2. IsObject(p) /\ Stored(p) \subseteq Stored(o) \cup {Pair(f, v)}
  BY <1>1, SetKeeps
<1>3. ASSUME o.encoding = "HASHTABLE" PROVE Right
  <2>1. p = [o EXCEPT !.dict = HT!set_field(o.dict, f, v)]
    BY <1>3 DEF set_field
  <2>2. p.dict = HT!set_field(o.dict, f, v) /\ p.encoding = "HASHTABLE"
    BY <1>1, <1>3, <2>1 DEF IsHash
  <2> HIDE DEF p
  <2>3. \A g : get_field(p, g) = HT!get_field(p.dict, g) /\ get_field(o, g) = HT!get_field(o.dict, g)
    BY <1>3, <2>2 DEF get_field
  <2> QED BY <2>2, <2>3, FlatInsert DEF IsFlat
<1>4. ASSUME p.encoding = "ZIPLIST" PROVE Right
  <2>1. o.encoding = "ZIPLIST"
    <3>1. o.encoding = "HASHTABLE" => p = [o EXCEPT !.dict = HT!set_field(o.dict, f, v)]
      BY DEF set_field
    <3>2. o.encoding = "HASHTABLE" => p.encoding = "HASHTABLE"
      BY <1>1, <3>1 DEF IsHash
    <3> QED BY <1>1, <1>4, <3>2 DEF IsHash
  <2>2. \A g \in Key : get_field(p, g) = IF g = f THEN v ELSE get_field(o, g)
    BY <1>1, <1>4, <2>1, SetSound
  <2> HIDE DEF p
  <2>3. IsFlatDict(p.dict, F)
    BY <1>2, <1>4, FlatEmpty DEF IsObject, IsTabled
  <2> QED BY <1>1, <2>2, <2>3
<1>5. ASSUME o.encoding = "ZIPLIST", p.encoding = "HASHTABLE" PROVE Right
  <2>1. IsZiplist(zl) /\ zl \in Seq(D!Entry) /\ \A e \in ToSet(zl) : e.key \in F
    BY <1>1, <1>5 DEF IsHash, IsZiplist, IsFlat
  <2>2. \A g : get_field(o, g) = ValueOf(zl, g)
    BY <1>5 DEF get_field, ValueOf
  <2>3. CASE {f, v} \cap Large # {}
    <3> DEFINE t == promote_to_hashtable(o)
    <3>1. t.encoding = "HASHTABLE" /\ t.dict = Folded(zl) /\ IsObject(t)
      BY <2>1, PromotionKeeps
    <3>2. p = [t EXCEPT !.dict = HT!set_field(t.dict, f, v)]
      BY <1>5, <2>3, <3>1 DEF set_field
    <3>3. t = [encoding |-> t.encoding, ziplist |-> t.ziplist, dict |-> t.dict]
      BY <3>1 DEF IsObject, IsHash
    <3> HIDE DEF t, p
    <3>4. p.dict = HT!set_field(Folded(zl), f, v)
      BY <3>1, <3>2, <3>3
    <3>5. \A g : get_field(p, g) = HT!get_field(p.dict, g)
      BY <1>5 DEF get_field
    <3>6. /\ IsFlatDict(Folded(zl), F)
          /\ \A g \in F : HT!get_field(Folded(zl), g) = ValueOf(zl, g)
      BY <2>1, FoldFlat
    <3> QED BY <2>2, <3>4, <3>5, <3>6, FlatInsert
  <2>4. CASE {f, v} \cap Large = {}
    <3> DEFINE longer == Append(zl, Pair(f, v))
               i == find_in_ziplist(zl, f)
               q == [o EXCEPT !.ziplist = longer]
    <3>1. p = StoreInZiplist(o, f, v)
      BY <1>5, <2>4 DEF set_field
    <3>2. \A new : [o EXCEPT !.ziplist = new].encoding = "ZIPLIST"
      BY <1>1, <1>5, ZiplistReplaced
    <3>3. i = 0 /\ p = promote_to_hashtable(q)
      <4>1. \/ i # 0 /\ p = [o EXCEPT !.ziplist = Changed(zl, i, v)]
            \/ i = 0 /\ p = q
            \/ i = 0 /\ p = promote_to_hashtable(q)
        BY <3>1 DEF StoreInZiplist, Changed
      <4> HIDE DEF p, i
      <4> QED BY <1>5, <3>2, <4>1
    <3>4. \A j \in 1 .. Len(zl) : zl[j].key # f
      BY <2>1, <3>3, Find
    <3>5. IsZiplist(longer) /\ \A g : ValueOf(longer, g) = IF g = f THEN v ELSE ValueOf(zl, g)
      BY <1>1, <2>1, <3>4, Longer
    <3>6. ToSet(longer) = ToSet(zl) \cup {Pair(f, v)}
      BY <1>1, <2>1, EntriesWritten
    <3>7. \A e \in ToSet(longer) : e.key \in F
      BY <2>1, <3>6 DEF Pair
    <3>8. q.ziplist = longer
      BY <1>1, <1>5, ZiplistReplaced
    <3> HIDE DEF longer, q
    <3>9. p.dict = Folded(longer)
      BY <3>3, <3>5, <3>8, PromotionKeeps DEF IsZiplist
    <3> HIDE DEF p
    <3>10. \A g : get_field(p, g) = HT!get_field(p.dict, g)
      BY <1>5 DEF get_field
    <3> QED BY <2>2, <3>5, <3>7, <3>9, <3>10, FoldFlat
  <2> QED BY <2>3, <2>4
<1>6. \A e \in ToSet(p.ziplist) : e.key \in F
  <2> HIDE DEF p
  <2>1. CASE p.encoding = "HASHTABLE"
    <3>1. ToSet(<<>>) = {}
      BY DEF ToSet
    <3> QED BY <1>2, <2>1, <3>1 DEF IsObject, IsTabled
  <2>2. CASE p.encoding = "ZIPLIST" /\ o.encoding = "ZIPLIST"
    <3>1. ToSet(p.ziplist) \subseteq ToSet(zl) \cup {Pair(f, v)}
      BY <1>2, <2>2, StoredIn
    <3> QED BY <3>1 DEF IsFlat, Pair
  <2>3. CASE p.encoding = "ZIPLIST" /\ o.encoding = "HASHTABLE"
    <3>1. p = [o EXCEPT !.dict = HT!set_field(o.dict, f, v)]
      BY <2>3 DEF set_field, p
    <3>2. p.encoding = "HASHTABLE"
      BY <1>1, <2>3, <3>1 DEF IsHash
    <3> QED BY <2>3, <3>2
  <2> QED BY <1>1, <1>2, <2>1, <2>2, <2>3 DEF IsObject, IsHash
<1> HIDE DEF p, Right
<1>7. Right
  BY <1>1, <1>2, <1>3, <1>4, <1>5 DEF IsObject, IsHash
<1> QED BY <1>2, <1>6, <1>7 DEF Right, IsFlat, p

-----------------------------------------------------------------------------
(* The invariant: the storage not in use is empty, the one in use in order. *)

LEMMA Invariance == Spec => []IsObject(obj)
<1>1. Init => IsObject(obj)
  BY NewKeeps DEF Init
<1>2. IsObject(obj) /\ [Next]_obj => IsObject(obj')
  <2> SUFFICES ASSUME IsObject(obj), [Next]_obj
               PROVE  IsObject(obj')
    OBVIOUS
  <2>1. CASE \E f \in Key, v \in Value : SetField(f, v)
    BY <2>1, SetKeeps DEF SetField
  <2>2. CASE \E f \in Key : DelField(f)
    BY <2>2, DelKeeps DEF DelField
  <2>3. CASE TryRehash
    <3>1. Batch \in Nat
      BY HashCallAssumption DEF D!BoundAssumption
    <3>2. P!Sound(P!rehash_step(obj.dict, Batch)) /\ P!Counted(P!rehash_step(obj.dict, Batch))
      BY <3>1, Assumed, P!RehashStepSound, P!RehashStepCounted DEF IsObject, IsTabled
    <3>3. P!Sound(D!rehash_step(obj.dict, Batch)) /\ P!Counted(D!rehash_step(obj.dict, Batch))
      BY <3>2, StepSame
    <3> QED BY <2>3, <3>3, TableReplaced DEF TryRehash
  <2>4. CASE UNCHANGED obj
    BY <2>4
  <2> QED BY <2>1, <2>2, <2>3, <2>4 DEF Next
<1>3. IsObject(obj') => IsObject(obj)'
  BY DEF IsObject, IsHash, IsTabled, IsZiplist, Fields, should_use_ziplist
<1> QED BY <1>1, <1>2, <1>3, PTL DEF Spec

(* Neither limit of a ziplist is ever exceeded: what is checked on an append
   and before an update in place is enough.  *)
THEOREM LimitsKept == Spec => []ZiplistWithinLimits
<1>1. IsObject(obj) => ZiplistWithinLimits
  BY DEF IsObject, IsHash, ZiplistWithinLimits
<1> QED BY <1>1, Invariance, PTL

(* While the object is a ziplist, a write or a removal of one field changes
   what is read of that field and of no other.  *)
THEOREM ExactMap == Spec => []ZiplistIsMap
<1>1. IsObject(obj) => ZiplistIsMap
  BY SetSound, DelSound DEF IsObject, ZiplistIsMap
<1> QED BY <1>1, Invariance, PTL

(* Only the storage that the encoding selects is in use, and the table a
   promotion builds, by insertions that may start and drive a rehash, is one
   the operations of a Dict could have built.  *)
THEOREM ObjectTypeOK == Spec => []TypeOK
<1>1. \A h : /\ D!IsTable(h) <=> P!IsTable(h)
             /\ D!AtHome(h) <=> P!AtHome(h)
             /\ D!Unique(h) <=> P!Unique(h)
  BY OpsSame DEF D!IsTable, P!IsTable, D!AtHome, P!AtHome, D!Unique, P!Unique,
                 D!Slot, P!Slot
<1>2. \A d : D!IsDict(d) <=> P!IsDict(d)
  BY <1>1, OpsSame DEF D!IsDict, P!IsDict, D!Record, P!Record
<1>3. \A d : D!OnlyPassed(d) <=> P!OnlyPassed(d)
  BY OpsSame DEF D!OnlyPassed, P!OnlyPassed, D!Passed, P!Passed, D!Slot, P!Slot
<1>4. P!Sound(obj.dict) => D!TypeOK /\ D!HomeBuckets /\ D!UniqueKeys /\ D!NewTableOnlyPassed
  BY <1>1, <1>2, <1>3
     DEF P!Sound, D!TypeOK, D!HomeBuckets, D!UniqueKeys, D!NewTableOnlyPassed
<1>5. IsObject(obj) => /\ obj.ziplist \in Seq(D!Entry)
                       /\ obj.encoding = "ZIPLIST" => obj.dict = D!NewDict
                       /\ obj.encoding = "HASHTABLE" => obj.ziplist = <<>>
  <2>1. <<>> \in Seq(D!Entry)
    OBVIOUS
  <2> QED BY <2>1, OpsSame DEF IsObject, IsHash, IsTabled, IsZiplist
<1>6. IsObject(obj) => TypeOK
  BY <1>4, <1>5 DEF IsObject, IsHash, IsTabled, TypeOK
<1> QED BY <1>6, Invariance, PTL

(* A write is read back, also the one that turns the ziplist into a table
   and also when those insertions leave a rehash open.  *)
THEOREM WritesAreRead == Spec => []ReadYourWrite
<1>1. IsObject(obj) => ReadYourWrite
  BY SetKeeps DEF ReadYourWrite
<1> QED BY <1>1, Invariance, PTL

(* size() is no smaller than the number of fields that can be read, in both
   encodings and across the promotion.  *)
THEOREM SizeCovers == Spec => []SizeCoversFields
<1>1. IsObject(obj) => SizeCoversFields
  BY SizeOfObject DEF SizeCoversFields
<1> QED BY <1>1, Invariance, PTL

(* No value moves to another field or appears from nowhere: what a step adds
   to the pairs stored is what the call wrote.  *)
THEOREM OnlyWritesAppear == Spec => NothingInvented
<1> DEFINE Kept == \A e \in Stored(obj') \ Stored(obj) : SetField(e.key, e.value)
<1>1. IsObject(obj) /\ [Next]_obj => [Kept]_obj
  <2> SUFFICES ASSUME IsObject(obj), Next PROVE Kept
    OBVIOUS
  <2>1. ASSUME NEW f \in Key, NEW v \in Value, SetField(f, v)
        PROVE  Kept
    <3>1. Stored(obj') \subseteq Stored(obj) \cup {Pair(f, v)}
      BY <2>1, SetKeeps DEF SetField
    <3>2. Pair(f, v).key = f /\ Pair(f, v).value = v
      BY DEF Pair
    <3> QED BY <2>1, <3>1, <3>2
  <2>2. ASSUME NEW f \in Key, DelField(f)
        PROVE  Kept
    BY <2>2, DelKeeps DEF DelField
  <2>3. CASE TryRehash
    <3>1. Batch \in Nat
      BY HashCallAssumption DEF D!BoundAssumption
    <3> DEFINE d == P!rehash_step(obj.dict, Batch)
    <3>2. P!Sound(d) /\ P!Counted(d) /\ All(d) \subseteq All(obj.dict)
      BY <3>1, Assumed, P!RehashStepSound, P!RehashStepCounted, RehashStored
         DEF IsObject, IsTabled
    <3>3. obj' = [obj EXCEPT !.dict = d]
      BY <2>3, StepSame DEF TryRehash
    <3> HIDE DEF d
    <3>4. Stored(obj') = All(d) /\ Stored(obj) = All(obj.dict)
      BY <2>3, <3>2, <3>3, TableReplaced, StoredIn DEF TryRehash
    <3> QED BY <3>2, <3>4
  <2> QED BY <2>1, <2>2, <2>3 DEF Next
<1> QED BY <1>1, Invariance, PTL DEF Spec, NothingInvented
=============================================================================
