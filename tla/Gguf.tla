--------------------------------- MODULE Gguf ---------------------------------
(* The GGUF reader (src/gguf.h): a file, or the shards of a split model, are   *)
(* mapped and merged into one directory of tensors, each a pointer into the    *)
(* mapping of its shard.  Headers have their real widths in bytes; the blocks  *)
(* of a type are constants, so that a tensor is a few bytes long.              *)
EXTENDS Integers, Sequences, SequencesExt, TLC

CONSTANTS
  DefaultAlign,  \* alignment_ of a shard that sets none: 32
  Block, Size    \* of each type the reader knows: elements, and bytes, of a block

ASSUME GgufAssumption ==
  /\ DefaultAlign \in Nat \ {0} /\ DOMAIN Block = DOMAIN Size
  /\ \A t \in DOMAIN Block : Block[t] \in Nat \ {0} /\ Size[t] \in Nat \ {0}

VARIABLES
  model,   \* the files: shards, and whether the path given ends in -00001-of-NNNNN.gguf
  shard,   \* the shard openOne maps next; 0 when open returned
  opened,  \* what it returned
  gguf     \* the reader: alignment, split.count, KVs, tensors

ggufVars == <<model, shard, opened, gguf>>

\* ggmlRowBytes: 0 for a type the reader does not know.
RowBytes(type, ne0) == IF type \in DOMAIN Block THEN (ne0 \div Block[type]) * Size[type] ELSE 0
Align(pos, a) == ((pos + a - 1) \div a) * a
Total(f(_), s) == FoldLeft(LAMBDA sum, e : sum + f(e), 0, s)

-------------------------------------------------------------------------------
(* What a writer put into a shard: the KVs, the infos, the aligned data.  A KV *)
(* has a key, a type t, a value n (an array's length) and a text (a string's,  *)
(* or the strings of an array); et is the element type of an array.            *)

Elements(t) == FoldLeft(LAMBDA n, d : n * d, 1, Tail(t.ne))
Length(t) == RowBytes(t.type, t.ne[1]) * Elements(t)
NameLen(name) == Len(name[2]) + (IF name[1] = 0 THEN 0 ELSE 6)
Width == <<1, 1, 2, 2, 4, 4, 4, 1, 0, 0, 8, 8, 8>>   \* of scalar type t: Width[t + 1]
Text(s) == 8 + Len(s)
ValueLen(kv) ==
  CASE kv.t = 8 -> Text(kv.text)
    [] kv.t = 9 -> 12 + kv.n * (IF kv.et = 8 THEN Text(kv.text) ELSE Width[kv.et + 1])
    [] OTHER -> Width[kv.t + 1]
HeaderLen(s) ==
  24 + Total(LAMBDA kv : Text(kv.key) + 4 + ValueLen(kv), s.kvs)
     + Total(LAMBDA t : 8 + NameLen(t.name) + 16 + 8 * Len(t.ne), s.tensors)
WrittenAlign(s) ==
  IF \E k \in DOMAIN s.kvs : s.kvs[k].key = "general.alignment"
  THEN s.kvs[CHOOSE k \in DOMAIN s.kvs : s.kvs[k].key = "general.alignment"].n ELSE DefaultAlign
\* The offsets the infos give, one after the other.
Offsets(s) ==
  FoldLeft(LAMBDA offs, t : Append(offs, Last(offs) + Align(Length(t), WrittenAlign(s))),
           <<0>>, s.tensors)
Byte(name, i) == [of |-> name, at |-> i]
Nothing == Byte(<<0, "nothing">>, 0)
\* The bytes of a shard at addresses first .. first + n - 1.
Bytes(s, first, n) ==
  LET data == Align(HeaderLen(s), WrittenAlign(s))
      offs == Offsets(s)
      lens == [j \in DOMAIN s.tensors |-> Length(s.tensors[j])]
      here(a) == {j \in DOMAIN s.tensors : a - data - offs[j] \in 0 .. lens[j] - 1}
      at(a) == IF here(a) = {} THEN Nothing
               ELSE LET j == CHOOSE j \in here(a) : TRUE IN
                    Byte(s.tensors[j].name, a - data - offs[j] + 1) IN
  [i \in 1 .. n |-> at(first + i - 1)]

-------------------------------------------------------------------------------
(* The reader.                                                                *)

\* skipValue and rdStr: how far pos_ moves over a value.
Skip(kv) ==
  LET scalar(t) == CASE t \in {0, 1, 7} -> 1
                     [] t \in {2, 3} -> 2
                     [] t \in {4, 5, 6} -> 4
                     [] t \in {10, 11, 12} -> 8 IN
  IF kv.t = 8 THEN 8 + Len(kv.text)
  ELSE IF kv.t = 9
       THEN 4 + 8 + kv.n * (IF kv.et = 8 THEN 8 + Len(kv.text) ELSE scalar(kv.et))
       ELSE scalar(kv.t)

\* One turn of parse's KV loop; count is read from the first shard only.
ReadKv(g, kv) ==
  LET v == IF kv.t = 9 THEN 0 ELSE kv.n
      p == [g EXCEPT !.pos = @ + 8 + Len(kv.key) + 4 + Skip(kv)] IN
  IF kv.t = 8 THEN [p EXCEPT !.strs = (kv.key :> kv.text) @@ @]
  ELSE [p EXCEPT
         !.ints = IF kv.t \in (0 .. 5) \cup {7, 10, 11} THEN (kv.key :> v) @@ @ ELSE @,
         !.align = IF kv.key = "general.alignment" /\ v # 0 THEN v ELSE @,
         !.count = IF kv.key = "split.count" /\ shard = 1 THEN v ELSE @]

\* alignment_ when parse begins a shard.
ShardAlign == DefaultAlign

\* parse: a later shard's tensor replaces an earlier one of its name.
Parse(s) ==
  LET read == FoldLeft(ReadKv, [gguf EXCEPT !.pos = 24, !.align = ShardAlign], s.kvs)
      pos == read.pos + Total(LAMBDA t : 8 + NameLen(t.name) + 4 + 8 * Len(t.ne) + 12, s.tensors)
      data == Align(pos, read.align)
      offs == Offsets(s)
      pointer(name) ==
        LET j == CHOOSE j \in DOMAIN s.tensors : s.tensors[j].name = name IN
        [type |-> s.tensors[j].type, ne |-> s.tensors[j].ne,
         shard |-> shard, data |-> data + offs[j]] IN
  [read EXCEPT !.tensors = [name \in {t.name : t \in ToSet(s.tensors)} |-> pointer(name)] @@ @]

\* openOne of the next shard, and what open makes of the first one's split.count.
OpenOne ==
  /\ shard > 0
  /\ UNCHANGED model
  /\ IF shard \notin DOMAIN model.shards \/ model.shards[shard].ver < 2
     THEN shard' = 0 /\ opened' = FALSE /\ UNCHANGED gguf
     ELSE /\ gguf' = Parse(model.shards[shard])
          /\ IF shard = 1 /\ gguf'.count > 1 /\ ~model.named
             THEN shard' = 0 /\ opened' = FALSE
             ELSE IF shard < gguf'.count THEN shard' = shard + 1 /\ UNCHANGED opened
                  ELSE shard' = 0 /\ opened' = TRUE

NoGguf == [pos |-> 0, align |-> DefaultAlign, count |-> 0, ints |-> <<>>, strs |-> <<>>,
           tensors |-> <<>>]

-------------------------------------------------------------------------------
(* The directory.                                                             *)

Has(name) == name \in DOMAIN gguf.tensors
Tensor(name) == gguf.tensors[name]
Type(name) == IF Has(name) THEN Tensor(name).type ELSE "none"
KvInt(key, def) == IF key \in DOMAIN gguf.ints THEN gguf.ints[key] ELSE def
KvStr(key, def) == IF key \in DOMAIN gguf.strs THEN gguf.strs[key] ELSE def

\* n bytes from t->data on.
Read(name, n) ==
  Bytes(model.shards[Tensor(name).shard], Tensor(name).data, n)
===============================================================================
