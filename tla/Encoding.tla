------------------------------ MODULE Encoding ------------------------------
(***************************************************************************)
(* What the store's files are made of: numbers of a variable length        *)
(* (util/coding.cc), the records of the descriptor (db/version_edit.cc),   *)
(* write batches (db/write_batch.cc) and file names (db/filename.cc).      *)
(* What was written may be cut short or have a byte replaced before it is  *)
(* read.                                                                   *)
(*                                                                         *)
(* A byte has Bits bits of a number and one that says whether more follow; *)
(* numbers have W32 or W64 bits, in the code 7, 32 and 64.                 *)
(***************************************************************************)
EXTENDS Integers, Sequences, FiniteSets, SequencesExt

CONSTANTS
  Bits, W32, W64,       \* the width of a byte and of numbers
  kNumLevels,
  Numbers, Strings, Files,    \* what edits are made of
  MaxFields,            \* bound: fields of an edit
  UsedEdits,            \* what an object holds that is read into
  Keys, Values,         \* what batches put: sequences of bytes
  MaxOps,               \* bound: operations in a batch
  Radix, MaxNumber, Pad,     \* of file names: 10, 2^64 - 1 and 6
  MaxDigits             \* bound: digits of a name that is read

VARIABLES
  kind,                 \* what is written: "edit", "batch" or "name"
  edit, bytes,          \* an edit and what is written of it
  batches,              \* two batches: [ops, rep]
  name,                 \* a file name: [prefix, digits, suffix]
  harm,                 \* "none", "cut" or "damaged"
  got                   \* what was read, or Unread

encodingVars == <<kind, edit, bytes, batches, name, harm, got>>

Unread == [unread |-> TRUE]

-----------------------------------------------------------------------------
(* util/coding.cc *)

More == 2 ^ Bits

(* Little-endian: PutFixed32 *)
Fixed32(v) == <<v % (2 * More), v \div (2 * More)>>
GetFixed32(b) == b[1] + 2 * More * b[2]

Varint(v) ==
  LET n == CHOOSE m \in 1 .. W64 :
             /\ v < More ^ m
             /\ m > 1 => v >= More ^ (m - 1)
      digit(i) == (v \div More ^ (i - 1)) % More
  IN [i \in 1 .. n |-> IF i < n THEN digit(i) + More ELSE digit(i)]

No == [ok |-> FALSE]
Got(v, rest) == [ok |-> TRUE, v |-> v, rest |-> rest]

\* Mutant: a number may have one byte less than its largest value needs.
Longest_Short(width) == width \div Bits
Longest(width) == (width + Bits - 1) \div Bits
Sum(digits) ==
  FoldRight(LAMBDA d, acc : acc * More + (d % More), digits, 0)
From(in, n) == SubSeq(in, n, Len(in))
VarintOf(in, n, width) ==
  IF n = 0 \/ n > Longest(width) THEN No
  ELSE Got(Sum(SubSeq(in, 1, n)) % 2 ^ width, From(in, n + 1))
GetVarint(in, width) ==
  VarintOf(in, SelectInSeq(in, LAMBDA b : b < More), width)

LengthPrefixed(str) == Varint(Len(str)) \o str
Prefixed(len) ==
  IF ~len.ok \/ len.v > Len(len.rest) THEN No
  ELSE Got(SubSeq(len.rest, 1, len.v), From(len.rest, len.v + 1))
GetLengthPrefixed(in) == Prefixed(GetVarint(in, W32))

-----------------------------------------------------------------------------
(* db/version_edit.cc.  An edit gives every tag the values it has of it.    *)

kComparator == 1
kLogNumber == 2
kNextFileNumber == 3
kLastSequence == 4
kCompactPointer == 5
kDeletedFile == 6
kNewFile == 7
kPrevLogNumber == 9
Tags == <<kComparator, kLogNumber, kPrevLogNumber, kNextFileNumber,
          kLastSequence, kCompactPointer, kDeletedFile, kNewFile>>
Repeated == {kCompactPointer, kDeletedFile, kNewFile}

(* The parts of a field. *)
Shape(tag) ==
  CASE tag = kComparator -> <<"str">>
    [] tag \in {kLogNumber, kPrevLogNumber, kNextFileNumber, kLastSequence}
         -> <<"64">>
    [] tag = kCompactPointer -> <<"level", "str">>
    [] tag = kDeletedFile -> <<"level", "64">>
    [] tag = kNewFile -> <<"level", "64", "64", "str", "str">>

Part(part, v) == IF part = "str" THEN LengthPrefixed(v) ELSE Varint(v)
EncodeField(tag, values) ==
  Varint(tag) \o FlattenSeq([i \in DOMAIN values |->
                               Part(Shape(tag)[i], values[i])])
EncodeTo(e) ==
  FlattenSeq([t \in DOMAIN Tags |->
    FlattenSeq([i \in DOMAIN e[Tags[t]] |->
      EncodeField(Tags[t], e[Tags[t]][i])])])

(* Clear leaves the compaction pointers.                                    *)
Clear(e) == [t \in Range(Tags) |-> IF t = kCompactPointer THEN e[t] ELSE <<>>]
NewEdit == [t \in Range(Tags) |-> <<>>]

Set(e, tag, v) == [e EXCEPT ![tag] = <<<<v>>>>]
SetComparatorName(e, str) == Set(e, kComparator, str)
SetLogNumber(e, n) == Set(e, kLogNumber, n)
SetPrevLogNumber(e, n) == Set(e, kPrevLogNumber, n)
SetNextFile(e, n) == Set(e, kNextFileNumber, n)
SetLastSequence(e, n) == Set(e, kLastSequence, n)
SetCompactPointer(e, level, key) ==
  [e EXCEPT ![kCompactPointer] = Append(@, <<level, key>>)]
AddFile(e, level, f) == [e EXCEPT ![kNewFile] = Append(@, <<level>> \o f)]
DeleteFile(e, level, n) ==
  [e EXCEPT ![kDeletedFile] = IF Contains(@, <<level, n>>) THEN @
                              ELSE Append(@, <<level, n>>)]

\* Mutant: any level will do.
GetLevel_Any(in) == GetVarint(in, W32)
GetLevel(in) ==
  LET v == GetVarint(in, W32)
  IN IF v.ok /\ v.v < kNumLevels THEN v ELSE No
GetPart(part, in) ==
  CASE part = "str" -> GetLengthPrefixed(in)
    [] part = "level" -> GetLevel(in)
    [] part = "64" -> GetVarint(in, W64)
Joined(values, p) == IF p.ok THEN Got(Append(values, p.v), p.rest) ELSE No
GetParts(shape, in) ==
  FoldLeft(LAMBDA acc, part :
             IF acc.ok THEN Joined(acc.v, GetPart(part, acc.rest)) ELSE No,
           Got(<<>>, in), shape)

(* One field more; a file is deleted once, files and pointers are added.    *)
Kept(e, tag, values) ==
  [e EXCEPT ![tag] =
     IF tag \notin Repeated THEN <<values>>
     ELSE IF tag = kDeletedFile /\ Contains(@, values) THEN @
     ELSE Append(@, values)]
Corrupt(st) == [st EXCEPT !.done = TRUE, !.ok = FALSE]
WithField(st, tag, parts) ==
  IF parts.ok
    THEN [st EXCEPT !.e = Kept(@, tag, parts.v), !.in = parts.rest]
  ELSE Corrupt(st)
FieldOf(st, tag) ==
  IF ~tag.ok THEN [st EXCEPT !.done = TRUE, !.ok = st.in = <<>>]
  ELSE IF tag.v \notin Range(Tags) THEN Corrupt(st)
  ELSE WithField(st, tag.v, GetParts(Shape(tag.v), tag.rest))
DecodeField(st) == FieldOf(st, GetVarint(st.in, W32))
(* DecodeFrom: no more fields than bytes, and a last look at what is left.  *)
DecodeFrom(e, src) ==
  FoldLeft(LAMBDA st, b : IF st.done THEN st ELSE DecodeField(st),
           [e |-> Clear(e), in |-> src, done |-> FALSE, ok |-> TRUE],
           Append(src, 0))

-----------------------------------------------------------------------------
(* db/write_batch.cc *)

kTypeDeletion == 0
kTypeValue == 1
kHeader == 4
Header(seq, count) == Fixed32(seq) \o Fixed32(count)
Sequence(rep) == GetFixed32(rep)
Count(rep) == GetFixed32(SubSeq(rep, 3, 4))
Body(rep) == SubSeq(rep, kHeader + 1, Len(rep))
SetCount(rep, n) == Header(Sequence(rep), n) \o Body(rep)

EmptyBatch == [ops |-> <<>>, rep |-> Header(0, 0)]
Op(type, key, value) == [type |-> type, key |-> key, value |-> value]
EncodeOp(op) ==
  <<op.type>> \o LengthPrefixed(op.key)
    \o (IF op.type = kTypeValue THEN LengthPrefixed(op.value) ELSE <<>>)
Added(b, op) ==
  [ops |-> Append(b.ops, op),
   rep |-> SetCount(b.rep, Count(b.rep) + 1) \o EncodeOp(op)]
\* Mutant: the count of the batch appended is not added.
Appended_Uncounted(dst, src) ==
  [ops |-> dst.ops \o src.ops, rep |-> dst.rep \o Body(src.rep)]
Appended(dst, src) ==
  [ops |-> dst.ops \o src.ops,
   rep |-> SetCount(dst.rep, Count(dst.rep) + Count(src.rep))
             \o Body(src.rep)]

PutOf(key, value) ==
  IF value.ok THEN Got(Op(kTypeValue, key, value.v), value.rest) ELSE No
OpOf(tag, key) ==
  CASE tag = kTypeValue /\ key.ok -> PutOf(key.v, GetLengthPrefixed(key.rest))
    [] tag = kTypeDeletion /\ key.ok ->
         Got(Op(kTypeDeletion, key.v, <<>>), key.rest)
    [] OTHER -> No
GetOp(in) == OpOf(Head(in), GetLengthPrefixed(Tail(in)))
(* Iterate: a handler has had every operation before the first bad one.     *)
\* Mutant: the count is not looked at.
CountIsRight_Any(rep, found) == TRUE
CountIsRight(rep, found) == found = Count(rep)
Handled(st, op) ==
  IF op.ok THEN [st EXCEPT !.in = op.rest, !.handled = Append(@, op.v)]
  ELSE [st EXCEPT !.ok = FALSE]
Iterate(rep) ==
  IF Len(rep) < kHeader
    THEN [in |-> <<>>, ok |-> FALSE, handled |-> <<>>]
  ELSE
    LET end == FoldLeft(
          LAMBDA st, b : IF st.in = <<>> \/ ~st.ok THEN st
                         ELSE Handled(st, GetOp(st.in)),
          [in |-> Body(rep), ok |-> TRUE, handled |-> <<>>], Body(rep))
    IN [end EXCEPT !.ok = @ /\ CountIsRight(rep, Len(end.handled))]
(* InsertInto: an operation has the sequence number of its place.           *)
Entries(run, seq) ==
  [ok |-> run.ok,
   entries |-> [i \in DOMAIN run.handled |->
                  [seq |-> seq + i - 1, op |-> run.handled[i]]]]
Inserted(rep) == Entries(Iterate(rep), Sequence(rep))

-----------------------------------------------------------------------------
(* db/filename.cc *)

Number(digits) == FoldLeft(LAMBDA v, d : v * Radix + d, 0, digits)
(* A number in at least Pad digits.                                         *)
Digits(n) ==
  CHOOSE ds \in UNION {[1 .. l -> 0 .. Radix - 1] : l \in Pad .. MaxDigits} :
    Number(ds) = n /\ (Len(ds) > Pad => ds[1] # 0)
FileName(type, n) ==
  CASE type = "manifest" ->
         [prefix |-> "MANIFEST-", digits |-> Digits(n), suffix |-> ""]
    [] type \in {"log", "ldb", "sst", "dbtmp"} ->
         [prefix |-> "", digits |-> Digits(n), suffix |-> type]
    [] type \in {"CURRENT", "LOCK", "LOG", "LOG.old"} ->
         [prefix |-> type, digits |-> <<>>, suffix |-> ""]

\* Mutant: a number that ends beyond the largest one goes through.
Overflows_Beyond(v, d) == v > MaxNumber \div Radix
Overflows(v, d) ==
  \/ v > MaxNumber \div Radix
  \/ v = MaxNumber \div Radix /\ d > MaxNumber % Radix
ConsumeDecimalNumber(digits) ==
  LET run == FoldLeft(
        LAMBDA st, d : IF ~st.ok \/ Overflows(st.v, d) THEN No
                       ELSE Got((st.v * Radix + d) % (MaxNumber + 1), <<>>),
        Got(0, <<>>), digits)
  IN IF digits = <<>> THEN No ELSE run
Parsed(type, n) == [ok |-> TRUE, type |-> type, number |-> n]
TypeOf(f, number) ==
  CASE f.prefix \in {"CURRENT", "LOCK", "LOG", "LOG.old"}
         /\ f.digits = <<>> /\ f.suffix = "" -> Parsed(f.prefix, 0)
    [] f.prefix = "MANIFEST-" /\ number.ok /\ f.suffix = "" ->
         Parsed("manifest", number.v)
    [] f.prefix = "" /\ number.ok
         /\ f.suffix \in {"log", "ldb", "sst", "dbtmp"} ->
         Parsed(f.suffix, number.v)
    [] OTHER -> No
ParseFileName(f) == TypeOf(f, ConsumeDecimalNumber(f.digits))

(* Names a directory may hold, and those of files the code makes.           *)
Names ==
  [prefix : {"", "MANIFEST-", "LOCK"}, suffix : {"", "log", "bak"},
   digits : UNION {[1 .. l -> 0 .. Radix - 1] : l \in 0 .. MaxDigits}]
Numbered == {"manifest", "log", "ldb", "sst", "dbtmp"}
Single == {"CURRENT", "LOCK", "LOG", "LOG.old"}
OurNames ==
  {FileName(t, n) : t \in Numbered, n \in 1 .. MaxNumber}
    \cup {FileName(t, 0) : t \in Single}
IsOurs(f) ==
  \E t \in Numbered \cup Single, n \in {Number(f.digits)} :
    n <= MaxNumber /\ f = FileName(t, n)

-----------------------------------------------------------------------------
Init ==
  /\ kind \in {"edit", "batch", "name"}
  /\ edit = NewEdit /\ bytes = <<>>
  /\ batches = <<EmptyBatch, [EmptyBatch EXCEPT !.rep = Header(5, 0)]>>
  /\ name = [prefix |-> "CURRENT", digits |-> <<>>, suffix |-> ""]
  /\ harm = "none" /\ got = Unread

Writing(k) == kind = k /\ harm = "none" /\ got = Unread
Cuts(s) == {SubSeq(s, 1, n) : n \in 0 .. Len(s) - 1}
Damages(s) ==
  UNION {{[s EXCEPT ![i] = b] : b \in (0 .. 2 * More - 1) \ {s[i]}} :
           i \in DOMAIN s}

Fields(e) == FoldLeft(LAMBDA n, tag : n + Len(e[tag]), 0, Tags)
Changed(e) ==
  UNION {
    {SetComparatorName(e, str) : str \in Strings},
    UNION {{SetLogNumber(e, n), SetPrevLogNumber(e, n), SetNextFile(e, n),
            SetLastSequence(e, n)} : n \in Numbers},
    UNION {{SetCompactPointer(e, l, str) : str \in Strings}
             \cup {DeleteFile(e, l, n) : n \in Numbers}
             \cup {AddFile(e, l, f) : f \in Files} : l \in 0 .. kNumLevels - 1}}
SetField ==
  /\ Writing("edit") /\ Fields(edit) < MaxFields
  /\ edit' \in Changed(edit) /\ bytes' = EncodeTo(edit')
  /\ UNCHANGED <<kind, batches, name, harm, got>>

Put(b, k, v) ==
  /\ Writing("batch") /\ Len(batches[b].ops) < MaxOps
  /\ batches' = [batches EXCEPT ![b] = Added(@, Op(kTypeValue, k, v))]
  /\ UNCHANGED <<kind, edit, bytes, name, harm, got>>
Delete(b, k) ==
  /\ Writing("batch") /\ Len(batches[b].ops) < MaxOps
  /\ batches' = [batches EXCEPT ![b] = Added(@, Op(kTypeDeletion, k, <<>>))]
  /\ UNCHANGED <<kind, edit, bytes, name, harm, got>>
(* Append, as BuildBatchGroup does.                                         *)
AppendBatch ==
  /\ Writing("batch") /\ Len(batches[1].ops) <= MaxOps
  /\ batches' = [batches EXCEPT ![1] = Appended(@, batches[2])]
  /\ UNCHANGED <<kind, edit, bytes, name, harm, got>>

CutShort ==
  /\ \/ Writing("edit") /\ bytes' \in Cuts(bytes) /\ UNCHANGED batches
     \/ /\ Writing("batch")
        /\ \E r \in Cuts(batches[1].rep) :
             batches' = [batches EXCEPT ![1].rep = r]
        /\ UNCHANGED bytes
  /\ harm' = "cut" /\ UNCHANGED <<kind, edit, name, got>>
Damage ==
  /\ Writing("edit") /\ bytes' \in Damages(bytes)
  /\ harm' = "damaged" /\ UNCHANGED <<kind, edit, batches, name, got>>

(* An edit is read into an object that may have been used before.           *)
ReadEdit(used) ==
  /\ kind = "edit" /\ got = Unread
  /\ \E r \in {DecodeFrom(used, bytes)} :
       got' = [ok |-> r.ok,
               edit |-> [r.e EXCEPT ![kCompactPointer] =
                 SubSeq(@, Len(used[kCompactPointer]) + 1, Len(@))]]
  /\ UNCHANGED <<kind, edit, bytes, batches, name, harm>>
ReadBatch ==
  /\ kind = "batch" /\ got = Unread
  /\ got' = Inserted(batches[1].rep)
  /\ UNCHANGED <<kind, edit, bytes, batches, name, harm>>
ReadName(f) ==
  /\ name' = f /\ got' = ParseFileName(f)
  /\ UNCHANGED <<kind, edit, bytes, batches, harm>>

Next ==
  \/ SetField
  \/ \E b \in 1 .. 2, k \in Keys :
       Delete(b, k) \/ \E v \in Values : Put(b, k, v)
  \/ AppendBatch
  \/ CutShort
  \/ Damage
  \/ \E used \in UsedEdits : ReadEdit(used)
  \/ ReadBatch
  \/ Writing("name") /\ \E f \in Names \cup OurNames : ReadName(f)

-----------------------------------------------------------------------------
(* What was written is read back; of what was cut or damaged, either an     *)
(* error is reported or what was read is what the bytes left say: it would  *)
(* be written as them, and every level exists.                              *)
Read(k) == kind = k /\ got # Unread
EditsReadBack ==
  Read("edit") =>
    /\ harm = "none" => got = [ok |-> TRUE, edit |-> edit]
    /\ harm = "cut" /\ got.ok => EncodeTo(got.edit) = bytes
    /\ got.ok => \A t \in Repeated : \A i \in DOMAIN got.edit[t] :
                   got.edit[t][i][1] < kNumLevels

(* A batch is applied as it was made, each operation under the number of    *)
(* its place, and one cut short anywhere is noticed, after no more than the *)
(* operations before the cut.                                               *)
BatchesReadBack ==
  Read("batch") =>
    /\ got.ok <=> harm = "none"
    /\ got.ok => Len(got.entries) = Len(batches[1].ops)
    /\ \A i \in DOMAIN got.entries :
         /\ got.entries[i].op = batches[1].ops[i]
         /\ got.entries[i].seq = Sequence(batches[1].rep) + i - 1

(* The name of a file is read as its type and number; no name is read as a  *)
(* smaller number than the one it spells out.                               *)
NamesReadBack ==
  Read("name") =>
    /\ got.ok /\ name.digits # <<>> => got.number = Number(name.digits)
    /\ IsOurs(name) => got.ok
=============================================================================
