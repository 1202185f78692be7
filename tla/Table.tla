------------------------------- MODULE Table --------------------------------
(***************************************************************************)
(* A sorted table (table/*.cc, db/builder.cc): the keys, in order, go to   *)
(* prefix-compressed blocks; an index names each block by a key that is    *)
(* not below it and below the next one; filters tell which blocks cannot   *)
(* hold a key.  An iterator walks the index and the blocks under it.       *)
(*                                                                         *)
(* An internal key is the bytes of a user key and one more cell for its    *)
(* tag (sequence number and type).  A block is its entries and, as indices *)
(* of entries, its restart points; a value is told apart by its key.       *)
(***************************************************************************)
EXTENDS Integers, Sequences, FiniteSets, SequencesExt, FiniteSetsExt

CONSTANTS
  MaxByte,          \* 0xff
  MaxTag,           \* the tag of kMaxSequenceNumber
  FilterBase,       \* kFilterBase
  BloomHash(_),     \* Hash() of util/hash.cc, below 2 ^ HashBits
  HashBits,
  BitsPerKey, MinBits, Probes,  \* of BloomFilterPolicy
  Contents,         \* the sets of keys a table is made of
  Layouts,          \* [interval, size, filter]: block_restart_interval,
                    \* block_size and whether there is a filter policy
  Targets           \* the keys looked for

VARIABLES
  layout, todo,     \* the Options, and the keys still to be added
  keys,             \* all the keys
  builder,          \* TableBuilder::Rep
  table,            \* "none", "building", "failed" or "open"
  broken,           \* offsets of the blocks that cannot be read
  it,               \* a TwoLevelIterator
  asked             \* what it was asked for: [op, key]

tableVars == <<layout, todo, keys, builder, table, broken, it, asked>>

-----------------------------------------------------------------------------
(* Keys. *)

User(k) == Front(k)
Tag(k) == Last(k)
Common(a, b) ==
  Max({n \in 0 .. Min({Len(a), Len(b)}) : SubSeq(a, 1, n) = SubSeq(b, 1, n)})
BytesLess(a, b) ==
  LET i == Common(a, b) + 1
  IN i <= Len(b) /\ (i <= Len(a) => a[i] < b[i])
KeyLess(a, b) ==
  \/ BytesLess(User(a), User(b))
  \/ User(a) = User(b) /\ Tag(a) > Tag(b)

InOrder(S) ==
  [n \in 1 .. Cardinality(S) |->
     CHOOSE k \in S : Cardinality({j \in S : KeyLess(j, k)}) = n - 1]

(* BytewiseComparatorImpl *)
ShortestSeparator(start, limit) ==
  LET i == Common(start, limit) + 1
  IN IF i <= Len(start) /\ i <= Len(limit)
          /\ start[i] < MaxByte /\ start[i] + 1 < limit[i]
       THEN Append(SubSeq(start, 1, i - 1), start[i] + 1)
       ELSE start
ShortSuccessor(key) ==
  LET is == {i \in DOMAIN key : key[i] # MaxByte}
  IN IF is = {} THEN key
     ELSE Append(SubSeq(key, 1, Min(is) - 1), key[Min(is)] + 1)

(* InternalKeyComparator: only a shorter and larger user key is of use.     *)
\* Mutant: the shortened key keeps the tag of the key it came from.
Shortened_Tag(k, short) ==
  IF Len(short) < Len(User(k)) /\ BytesLess(User(k), short)
    THEN Append(short, Tag(k)) ELSE Front(k) \o <<0>>
Shortened(k, short) ==
  IF Len(short) < Len(User(k)) /\ BytesLess(User(k), short)
    THEN Append(short, MaxTag) ELSE k
FindShortestSeparator(k, limit) ==
  Shortened(k, ShortestSeparator(User(k), User(limit)))
FindShortSuccessor(k) == Shortened(k, ShortSuccessor(User(k)))

-----------------------------------------------------------------------------
(* BlockBuilder. *)

EmptyBlock == [ents |-> <<>>, restarts |-> <<1>>, counter |-> 0, last |-> <<>>]

AddToBlock(b, k, v, interval) ==
  LET share == b.counter < interval
      n == IF share THEN Common(b.last, k) ELSE 0
  IN [ents |-> Append(b.ents, [shared |-> n, val |-> v,
                               delta |-> SubSeq(k, n + 1, Len(k))]),
      restarts |-> IF share THEN b.restarts
                   ELSE Append(b.restarts, Len(b.ents) + 1),
      counter |-> (IF share THEN b.counter ELSE 0) + 1,
      last |-> k]

(* CurrentSizeEstimate, in cells. *)
BlockSize(b) ==
  FoldLeft(LAMBDA n, e : n + 1 + Len(e.delta), Len(b.restarts) + 1, b.ents)

(* Block::Iter: at is the current entry, past the last one when invalid;    *)
(* next is where the value ends; ri is the restart point before at.        *)
OnBlock(b, ok) ==
  [ents |-> b.ents, restarts |-> b.restarts, at |-> Len(b.ents) + 1,
   next |-> 1, ri |-> Len(b.restarts) + 1, key |-> <<>>, ok |-> ok]
NoBlock == OnBlock(EmptyBlock, FALSE)  \* NewErrorIterator
Valid(i) == i.at <= Len(i.ents)
Value(i) == i.ents[i.at].val
Off(i) == [i EXCEPT !.at = Len(i.ents) + 1, !.ri = Len(i.restarts) + 1]

(* ParseNextKey, of the entry at i.next. *)
RestartOf(i) ==
  Max({i.ri} \cup {r \in DOMAIN i.restarts : i.restarts[r] < i.next})
Parse(i) ==
  IF i.next > Len(i.ents) THEN Off(i)
  ELSE LET e == i.ents[i.next]
       IN IF e.shared > Len(i.key)
            THEN [Off(i) EXCEPT !.ok = FALSE, !.key = <<>>]
            ELSE [i EXCEPT !.key = SubSeq(@, 1, e.shared) \o e.delta,
                           !.at = i.next, !.next = @ + 1, !.ri = RestartOf(i)]
ToRestart(i, r) ==
  [i EXCEPT !.key = <<>>, !.ri = r, !.next = i.restarts[r]]
(* Parsing from a restart point until an entry is the one wanted. *)
ParseUntil(i, r, Wanted(_)) ==
  FoldLeft(LAMBDA x, e : IF ~Valid(x) \/ Wanted(x) THEN x ELSE Parse(x),
           Parse(ToRestart(i, r)), i.ents)

BlockFirst(i) == Parse(ToRestart(i, 1))
BlockLast(i) == ParseUntil(i, Len(i.restarts), LAMBDA x : x.next > Len(x.ents))
BlockPrev(i) ==
  LET before == {r \in 1 .. i.ri : i.restarts[r] < i.at}
  IN IF before = {} THEN Off(i)
     ELSE ParseUntil(i, Max(before), LAMBDA x : x.next >= i.at)

(* The binary search for the last restart point before the target; a        *)
(* restart point that shares bytes ends it.                                *)
RestartBefore(i, target) ==
  LET Search[lr \in (DOMAIN i.restarts) \X (DOMAIN i.restarts)] ==
        LET mid == (lr[1] + lr[2] + 1) \div 2
            e == i.ents[i.restarts[mid]]
        IN IF lr[1] >= lr[2] THEN lr[1]
           ELSE IF e.shared # 0 THEN 0
           ELSE IF KeyLess(e.delta, target) THEN Search[<<mid, lr[2]>>]
           ELSE Search[<<lr[1], mid - 1>>]
  IN Search[<<1, Len(i.restarts)>>]
BlockSeek(i, target) ==
  LET r == RestartBefore(i, target)
  IN IF r = 0 THEN [Off(i) EXCEPT !.ok = FALSE, !.key = <<>>]
     ELSE ParseUntil(i, r, LAMBDA x : ~KeyLess(x.key, target))

-----------------------------------------------------------------------------
(* Filters: FilterBlockBuilder, BloomFilterPolicy. *)

Words == 2 ^ HashBits
Rotated(h) ==
  LET half == 2 ^ (HashBits \div 2) IN h \div half + (h % half) * half
BitPositions(u, size) ==
  {((BloomHash(u) + j * Rotated(BloomHash(u))) % Words) % size :
     j \in 0 .. Probes - 1}
CreateFilter(ks) ==
  LET wanted == Max({Len(ks) * BitsPerKey, MinBits})
      size == ((wanted + 7) \div 8) * 8
  IN [size |-> size,
      bits |-> UNION {BitPositions(User(k), size) : k \in ToSet(ks)}]
NoFilter == [size |-> 0, bits |-> {}]

GenerateFilter(f) ==
  [made |-> Append(f.made, IF f.keys = <<>> THEN NoFilter
                           ELSE CreateFilter(f.keys)), keys |-> <<>>]
(* StartBlock: a filter for each kFilterBase bytes before the offset.       *)
StartBlock(f, offset) ==
  FoldLeft(LAMBDA g, n : GenerateFilter(g), f,
           [n \in 1 .. offset \div FilterBase - Len(f.made) |-> n])

(* FilterBlockReader::KeyMayMatch *)
KeyMayMatch(filters, offset, k) ==
  LET n == offset \div FilterBase + 1
  IN n <= Len(filters) =>
       /\ filters[n] # NoFilter
       /\ BitPositions(User(k), filters[n].size) \subseteq filters[n].bits

-----------------------------------------------------------------------------
(* TableBuilder. *)

NewBuilder ==
  [data |-> EmptyBlock, index |-> EmptyBlock, pending |-> FALSE, handle |-> 0,
   last |-> <<>>, offset |-> 0, filter |-> [made |-> <<>>, keys |-> <<>>],
   blocks |-> <<>>]

(* The pending index entry, under a key that tells the blocks apart. *)
IndexEntry(b, key) ==
  IF b.pending
    THEN [b EXCEPT !.index = AddToBlock(@, key, b.handle, 1), !.pending = FALSE]
    ELSE b
Flushed(b) ==
  IF b.data.ents = <<>> THEN b
  ELSE LET end == b.offset + BlockSize(b.data) + 1
       IN [b EXCEPT !.blocks = (b.offset :> b.data) @@ @,
                    !.handle = b.offset, !.offset = end, !.pending = TRUE,
                    !.data = EmptyBlock, !.filter = StartBlock(@, end)]
Added(b, k) ==
  [IndexEntry(b, IF b.pending THEN FindShortestSeparator(b.last, k) ELSE <<>>)
     EXCEPT !.filter.keys = Append(@, k), !.last = k,
            !.data = AddToBlock(@, k, k, layout.interval)]
Finished(b) ==
  IndexEntry([Flushed(b) EXCEPT !.filter =
                IF @.keys = <<>> THEN @ ELSE GenerateFilter(@)],
             FindShortSuccessor(b.last))

Init ==
  /\ layout \in Layouts
  /\ keys \in Contents
  /\ todo = InOrder(keys)
  /\ builder = NewBuilder /\ table = "building" /\ broken = {}
  /\ it = [idx |-> NoBlock, data |-> {}, handle |-> 0, ok |-> TRUE]
  /\ asked = [op |-> "none"]

(* BuildTable: its loop over the memtable. *)
Add ==
  /\ table = "building" /\ todo # <<>>
  /\ LET b == Added(builder, Head(todo))
     IN builder' = IF BlockSize(b.data) >= layout.size THEN Flushed(b) ELSE b
  /\ todo' = Tail(todo)
  /\ UNCHANGED <<layout, keys, table, broken, it, asked>>

(* The file cannot be written, synced or opened again: it is deleted.       *)
BuildFails ==
  /\ table = "building"
  /\ table' = "failed" /\ todo' = <<>> /\ builder' = NewBuilder
  /\ UNCHANGED <<layout, keys, broken, it, asked>>

(* ... its end, and Table::Open, which does without filters it cannot read; *)
(* a new iterator is nowhere.                                              *)
Finish ==
  /\ table = "building" /\ todo = <<>> /\ keys # {}
  /\ builder' = Finished(builder)
  /\ table' = "open"
  /\ \E read \in BOOLEAN : layout' = [layout EXCEPT !.filter = @ /\ read]
  /\ it' = [it EXCEPT !.idx = OnBlock(builder'.index, TRUE)]
  /\ UNCHANGED <<todo, keys, broken, asked>>

(* A block cannot be read any more, or one of its entries is damaged.       *)
Break ==
  /\ table = "open" /\ broken = {} /\ asked.op = "none"
  /\ \E h \in DOMAIN builder.blocks :
       \/ broken' = {h} /\ UNCHANGED builder
       \/ \E i \in DOMAIN builder.blocks[h].ents :
            /\ builder' = [builder EXCEPT !.blocks[h].ents[i].shared = 99]
            /\ broken' = {-1}
  /\ UNCHANGED <<layout, todo, keys, table, it, asked>>

-----------------------------------------------------------------------------
(* TwoLevelIterator. *)

BlockReader(h) ==
  IF h \in broken THEN NoBlock ELSE OnBlock(builder.blocks[h], TRUE)

\* Mutant: the error of the block left behind is forgotten.
SetDataIterator_Forgets(t, data) == [t EXCEPT !.data = data]
SetDataIterator(t, data) ==
  [t EXCEPT !.data = data, !.ok = @ /\ \A d \in t.data : d.ok]
InitDataBlock(t) ==
  IF ~Valid(t.idx) THEN SetDataIterator(t, {})
  ELSE IF t.data # {} /\ t.handle = Value(t.idx) THEN t
  ELSE [SetDataIterator(t, {BlockReader(Value(t.idx))})
          EXCEPT !.handle = Value(t.idx)]
OnData(t) == \E d \in t.data : Valid(d)
InData(t, Move(_)) == [t EXCEPT !.data = {Move(d) : d \in @}]

(* SkipEmptyDataBlocks: block after block until one has an entry.           *)
SkipEmpty(t, Turn(_), Enter(_)) ==
  LET Skip(x, n) ==
        IF OnData(x) THEN x
        ELSE IF ~Valid(x.idx) THEN SetDataIterator(x, {})
        ELSE InData(InitDataBlock([x EXCEPT !.idx = Turn(@)]), Enter)
  IN FoldLeft(Skip, t, [n \in 1 .. Len(t.idx.ents) + 2 |-> n])
SkipForward(t) == SkipEmpty(t, Parse, BlockFirst)
SkipBackward(t) == SkipEmpty(t, BlockPrev, BlockLast)

Moved(op, k) ==
  CASE op = "seek" ->
         SkipForward(InData(InitDataBlock([it EXCEPT !.idx = BlockSeek(@, k)]),
                            LAMBDA d : BlockSeek(d, k)))
    [] op = "first" ->
         SkipForward(InData(InitDataBlock([it EXCEPT !.idx = BlockFirst(@)]),
                            BlockFirst))
    [] op = "last" ->
         SkipBackward(InData(InitDataBlock([it EXCEPT !.idx = BlockLast(@)]),
                             BlockLast))
    [] op = "next" -> SkipForward(InData(it, Parse))
    [] op = "prev" -> SkipBackward(InData(it, BlockPrev))

Status(t) == t.idx.ok /\ t.ok /\ \A d \in t.data : d.ok
KeyOf(t) == (CHOOSE d \in t.data : TRUE).key

Move(op, k) ==
  /\ table = "open"
  /\ op \in {"next", "prev"} => OnData(it)
  /\ it' = Moved(op, k)
  /\ asked' = [op |-> op, key |-> IF op \in {"next", "prev"} THEN KeyOf(it)
                                  ELSE k]
  /\ UNCHANGED <<layout, todo, keys, builder, table, broken>>
Seek == \E k \in Targets : Move("seek", k)
Walk == \E op \in {"first", "last", "next", "prev"} : Move(op, <<>>)

Next == Add \/ BuildFails \/ Finish \/ Break \/ Seek \/ Walk

(* Table::InternalGet and SaveValue: the entry found, an error, or nothing. *)
Get(k) ==
  LET i == BlockSeek(OnBlock(builder.index, TRUE), k)
      d == BlockSeek(BlockReader(Value(i)), k)
      skip == \/ ~Valid(i)
              \/ layout.filter
                   /\ ~KeyMayMatch(builder.filter.made, Value(i), k)
  IN IF skip THEN [ok |-> TRUE, found |-> {}]
     ELSE [ok |-> d.ok, found |-> IF Valid(d) /\ User(d.key) = User(k)
                                  THEN {d.key} ELSE {}]

(* Table::ApproximateOffsetOf; the index follows the data blocks. *)
ApproximateOffsetOf(k) ==
  LET i == BlockSeek(OnBlock(builder.index, TRUE), k)
  IN IF Valid(i) THEN Value(i) ELSE builder.offset

-----------------------------------------------------------------------------
(* A table has every key it was built from and no other: a lookup gives     *)
(* the first version of the user key that is not newer than asked for, and *)
(* says "nothing" of no key that is there, unless it says that a block     *)
(* could not be read.                                                      *)
FirstNotBefore(k) ==
  {x \in keys : ~KeyLess(x, k) /\ \A y \in keys : ~KeyLess(y, k) => ~KeyLess(y, x)}
GetIsRight ==
  table = "open" /\ asked.op = "none" =>
    \A k \in Targets :
      LET here == {x \in FirstNotBefore(k) : User(x) = User(k)}
      IN \/ Get(k) = [ok |-> TRUE, found |-> here]
         \/ ~Get(k).ok /\ broken # {} /\ Get(k).found \subseteq here

(* Wherever it comes from and whatever way it goes, an iterator is on the   *)
(* entry it was asked for; entries of blocks it could not read are passed  *)
(* over, and then its status says so.                                      *)
Allowed ==
  CASE asked.op = "next" -> {x \in keys : KeyLess(asked.key, x)}
    [] asked.op = "prev" -> {x \in keys : KeyLess(x, asked.key)}
    [] asked.op = "seek" -> {x \in keys : ~KeyLess(x, asked.key)}
    [] OTHER -> keys
Wanted ==
  {x \in Allowed : \A y \in Allowed :
     IF asked.op \in {"last", "prev"} THEN ~KeyLess(x, y) ELSE ~KeyLess(y, x)}
IteratorIsRight ==
  asked.op # "none" =>
    \/ OnData(it) /\ KeyOf(it) \in Wanted
    \/ ~OnData(it) /\ Wanted = {}
    \/ ~Status(it) /\ (OnData(it) => KeyOf(it) \in Allowed)

(* The approximate offset of a later key is not before that of an earlier   *)
(* one: GetApproximateSizes never subtracts more than it added.            *)
OffsetsGrow ==
  table = "open" /\ asked.op = "none" =>
    \A j, k \in Targets :
      KeyLess(j, k) => ApproximateOffsetOf(j) <= ApproximateOffsetOf(k)
=============================================================================
