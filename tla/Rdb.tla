-------------------------------- MODULE Rdb ---------------------------------
(***************************************************************************)
(* The dump file: RdbEncoder and RdbDecoder of Rdb.cpp.  A file is a       *)
(* sequence of tokens: the magic, one-byte opcodes, numbers and strings.   *)
(* What a string holds does not matter, its length does (module RdbLen).   *)
(*                                                                         *)
(* The reader takes what it finds for what it expects.  A token of another *)
(* kind can still be exactly the byte it reads; where it is not, the       *)
(* reader is out of step with the tokens and its result is Unknown.        *)
(***************************************************************************)
EXTENDS Database

CONSTANTS
    Length,       \* of every string: keys, fields and values
    EmptyString

RL == INSTANCE RdbLen WITH MaxLen <- 0, length <- 0

Magic  == [kind |-> "magic"]
Op(n)  == [kind |-> "op", byte |-> n]
Num(n) == [kind |-> "num", len |-> n]
Str(s) == [kind |-> "str", str |-> s]

RDB_TYPE_STRING == 0
RDB_TYPE_HASH   == 2
RDB_OPCODE_DB   == 254
RDB_OPCODE_EOF  == 255

\* What a reader out of step returns: no database, NoValue is no key.
Unknown == [n \in {NoValue} |-> NoValue]

-----------------------------------------------------------------------------
(* Saving. *)

Header == <<Magic, Op(RDB_OPCODE_DB), Num(0)>>
Footer == <<Op(RDB_OPCODE_EOF), Num(0)>>

get_all_fields_MainOnly(o) ==
    IF o.encoding = "ZIPLIST" THEN o.ziplist ELSE SetToSeq(HT!Nodes(o.dict.ht0))

\* The order of the pairs within a table does not matter, no key occurs twice
\* there; of a key in both tables the copy of ht_[1] comes last.
get_all_fields(o) ==
    IF o.encoding = "ZIPLIST" THEN o.ziplist
    ELSE SetToSeq(HT!Nodes(o.dict.ht0)) \o SetToSeq(HT!Nodes(o.dict.ht1))

\* What std::get throws for an object whose encoding is not that of its storage.
BadAccess == [kind |-> "bad access"]

\* The count comes from size(), the pairs from get_all_fields().
writeKeyValuePair(k, obj) ==
    IF obj.type = "STRING"
    THEN <<Op(RDB_TYPE_STRING), Str(k), Str(obj.value)>>
    ELSE IF obj.hash.encoding = "TORN" THEN <<Op(RDB_TYPE_HASH), Str(k), BadAccess>>
    ELSE <<Op(RDB_TYPE_HASH), Str(k), Num(size(obj.hash))>>
         \o FlattenSeq([i \in DOMAIN get_all_fields(obj.hash) |->
                          LET e == get_all_fields(obj.hash)[i]
                          IN <<Str(e.key), Str(e.value)>>])

\* What writeLen was given for a token that begins with a length.
LengthOf(t) == IF t.kind = "str" THEN Length[t.str] ELSE t.len

Writable(t) ==
    /\ t.kind # "bad access"
    /\ t.kind \in {"num", "str"} => RL!writeLen(LengthOf(t)).ok

Savable(db) ==
    \A k \in DOMAIN db : \A t \in ToSet(writeKeyValuePair(k, db[k])) : Writable(t)

\* What reaches the file before writeLen throws.
BeforeError(tokens) ==
    SubSeq(tokens, 1, SelectInSeq(tokens, LAMBDA t : ~ Writable(t)) - 1)

-----------------------------------------------------------------------------
(* Loading: a decoder reads token after token; "exception", "unknown" and
   "done" are final.  *)

Decoder == [expects |-> "magic", db |-> Empty, key |-> EmptyString,
            field |-> EmptyString, pairs |-> 0, hash |-> NewObject]

Stop(d, why) == [d EXCEPT !.expects = why]

\* The first byte of a token, 64 for that of a two-byte length.
Byte(t) ==
    IF t.kind = "op" THEN t.byte
    ELSE IF LengthOf(t) < 64 THEN LengthOf(t) ELSE 64

\* The token is that byte and nothing else.
OneByte(t) ==
    t.kind = "op" \/ (LengthOf(t) < 64 /\ (t.kind = "str" => LengthOf(t) = 0))

LengthRead(t) ==
    IF t.kind = "op" THEN RL!readLen(<<t.byte>>) ELSE RL!Read(LengthOf(t))

\* What readString makes of a token: a string, or the end of the decoder.
Lost == [ok |-> FALSE, why |-> "unknown"]
Thrown == [ok |-> FALSE, why |-> "exception"]
GotString(s) == [ok |-> TRUE, str |-> s]

readString(t) ==
    IF t.kind = "str" /\ RL!Faithful(LengthOf(t)) THEN GotString(t.str)
    ELSE IF ~ LengthRead(t).ok THEN Thrown
    ELSE IF t.kind # "str" /\ LengthRead(t).len = 0 THEN GotString(EmptyString)
    ELSE Lost

\* data.emplace keeps the first of two objects under one key.
Emplace(d, obj) ==
    [d EXCEPT !.db = IF d.key \in DOMAIN @ THEN @ ELSE Assign(@, d.key, obj),
              !.expects = "type"]

NextPair(d) ==
    IF d.pairs = 0 THEN Emplace(d, HashObject(d.hash)) ELSE Stop(d, "field")

ReadType(d, t) ==
    CASE Byte(t) = RDB_OPCODE_EOF -> Stop(d, "done")
      [] OneByte(t) /\ Byte(t) = RDB_TYPE_STRING -> Stop(d, "string key")
      [] OneByte(t) /\ Byte(t) = RDB_TYPE_HASH -> Stop(d, "hash key")
      [] ~ OneByte(t) /\ Byte(t) \in {2, 64} -> Stop(d, "unknown")
      [] OTHER -> Stop(d, "exception")

ReadCount(d, t) ==
    IF ~ LengthRead(t).ok THEN Stop(d, "exception")
    ELSE IF t.kind = "str" /\ LengthOf(t) # 0 THEN Stop(d, "unknown")
    ELSE NextPair([d EXCEPT !.pairs = LengthRead(t).len, !.hash = NewObject])

ReadString(d, t) ==
    LET r == readString(t)
    IN IF ~ r.ok THEN Stop(d, r.why)
       ELSE CASE d.expects = "string key" -> [d EXCEPT !.key = r.str, !.expects = "string"]
              [] d.expects = "string" -> Emplace(d, StringObject(r.str))
              [] d.expects = "hash key" -> [d EXCEPT !.key = r.str, !.expects = "count"]
              [] d.expects = "field" -> [d EXCEPT !.field = r.str, !.expects = "value"]
              [] OTHER -> NextPair([d EXCEPT !.pairs = @ - 1,
                                             !.hash = set_field(@, d.field, r.str)])

ReadToken(d, t) ==
    CASE d.expects \in {"done", "exception", "unknown"} -> d
      [] d.expects = "magic" -> Stop(d, IF t = Magic THEN "db" ELSE "exception")
      [] d.expects = "db" -> Stop(d, "db number")   \* Header has it
      [] d.expects = "db number" -> Stop(d, "type")
      [] d.expects = "type" -> ReadType(d, t)
      [] d.expects = "count" -> ReadCount(d, t)
      [] OTHER -> ReadString(d, t)

loadFromFile_NoEOF(file) ==
    LET d == FoldLeft(ReadToken, Decoder, file)
    IN IF d.expects = "unknown" THEN Unknown
       ELSE IF d.expects = "exception" THEN Empty ELSE d.db

\* A file that ends too early is an exception too, and any exception means
\* that nothing is loaded.
loadFromFile(file) ==
    LET d == FoldLeft(ReadToken, Decoder, file)
    IN IF d.expects = "unknown" THEN Unknown
       ELSE IF d.expects = "done" THEN d.db ELSE Empty
=============================================================================
