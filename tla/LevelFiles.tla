----------------------------- MODULE LevelFiles -----------------------------
(***************************************************************************)
(* How a Version walks its files (db/version_set.cc): the iterator that    *)
(* concatenates the files of a level (LevelFileNumIterator under           *)
(* table/two_level_iterator.cc), which opens a file only when it gets to   *)
(* it, the sampling of reads that wears a file out, and the offset a key   *)
(* is estimated to be at.                                                  *)
(*                                                                         *)
(* An internal key is a number; the user key is key \div PerUser.          *)
(***************************************************************************)
EXTENDS Integers, Sequences, FiniteSets, SequencesExt, FiniteSetsExt

CONSTANTS
  Layouts,       \* versions: a sequence of levels, sequences of files
  Targets,       \* the internal keys that are sought
  PerUser,       \* internal keys of a user key
  AllowedSeeks   \* at first: in the code at least 100

VARIABLES
  files,         \* Version::files_: level 0 first
  broken,        \* the files that cannot be opened
  it,            \* the iterator of level 1: [index, handle, data, at, ok]
  asked,         \* what moved it, from where
  allowed,       \* FileMetaData::allowed_seeks
  to_compact     \* Version::file_to_compact_, at most one

levelVars == <<files, broken, it, asked, allowed, to_compact>>

(* A file: its entries in order, of one byte each. *)
File(num, keys) == [num |-> num, keys |-> keys]
Smallest(f) == f.keys[1]
Largest(f) == f.keys[Len(f.keys)]
User(k) == k \div PerUser
Level == files[2]
All == UNION {Range(files[l]) : l \in DOMAIN files}

(* FindFile: the first file that ends at the key or behind it. *)
FindFile(level, k) ==
  LET ends == {i \in DOMAIN level : Largest(level[i]) >= k}
  IN IF ends = {} THEN Len(level) + 1 ELSE Min(ends)

-----------------------------------------------------------------------------
(* LevelFileNumIterator: an index that is off the end when not valid.       *)
OffEnd == Len(Level) + 1
OnFile(i) == i <= Len(Level)
FirstFile == 1
LastFile == IF Level = <<>> THEN 1 ELSE Len(Level)
FileAfter(i) == i + 1
FileBefore(i) == IF i = 1 THEN OffEnd ELSE i - 1

(* TwoLevelIterator.  handle is the file data was made for, data its keys   *)
(* (none when it could not be opened), at the place in them, 0 off them.    *)
Showing == it.at # 0
Shown == it.data[it.at]
SaveError(i) == [i EXCEPT !.ok = @ /\ i.handle \notin broken]
NoData(i) == [SaveError(i) EXCEPT !.handle = 0, !.data = <<>>, !.at = 0]
\* Mutant: a file that could not be opened is forgotten.
SetData_Forgets(i, f) ==
  [i EXCEPT !.handle = f.num, !.at = 0,
            !.data = IF f.num \in broken THEN <<>> ELSE f.keys]
SetData(i, f) ==
  [SaveError(i) EXCEPT !.handle = f.num, !.at = 0,
     !.data = IF f.num \in broken THEN <<>> ELSE f.keys]
InitData(i) ==
  IF ~OnFile(i.index) THEN NoData(i)
  ELSE IF i.handle = Level[i.index].num THEN i
  ELSE SetData(i, Level[i.index])

AtFirst(i) == [i EXCEPT !.at = IF i.data = <<>> THEN 0 ELSE 1]
AtLast(i) == [i EXCEPT !.at = Len(i.data)]
AtKey(i, k) ==
  LET behind == {j \in DOMAIN i.data : i.data[j] >= k}
  IN [i EXCEPT !.at = IF behind = {} THEN 0 ELSE Min(behind)]
On(i, index) == InitData([i EXCEPT !.index = index])

(* SkipEmptyDataBlocks: on, file by file, until an entry is found.          *)
SkipForward(i) ==
  FoldLeft(LAMBDA s, n : IF s.at # 0 THEN s
                         ELSE IF ~OnFile(s.index) THEN NoData(s)
                         ELSE AtFirst(On(s, FileAfter(s.index))),
           i, Append(Level, 0))
SkipBackward(i) ==
  FoldLeft(LAMBDA s, n : IF s.at # 0 THEN s
                         ELSE IF ~OnFile(s.index) THEN NoData(s)
                         ELSE AtLast(On(s, FileBefore(s.index))),
           i, Append(Level, 0))

Moved(op, k) ==
  CASE op = "first" -> SkipForward(AtFirst(On(it, FirstFile)))
    [] op = "last" -> SkipBackward(AtLast(On(it, LastFile)))
    [] op = "seek" -> SkipForward(AtKey(On(it, FindFile(Level, k)), k))
    [] op = "next" -> SkipForward([it EXCEPT
                        !.at = IF @ = Len(it.data) THEN 0 ELSE @ + 1])
    [] op = "prev" -> SkipBackward([it EXCEPT !.at = @ - 1])
Move(op, k) ==
  /\ op \in {"next", "prev"} => Showing
  /\ it' = Moved(op, k)
  /\ asked' = [op |-> op, k |-> IF op = "seek" \/ ~Showing THEN k ELSE Shown]
  /\ UNCHANGED <<files, broken, allowed, to_compact>>
Seek == \E k \in Targets : Move("seek", k)
Walk == \E op \in {"first", "last", "next", "prev"} : Move(op, 0)

(* AddIterators: a child for each file of level 0 and for each other level  *)
(* that has files; here, the files a child goes through.                   *)
\* Mutant: level 0 is walked like the others.
AddIterators_Levels == SelectSeq(files, LAMBDA level : level # <<>>)
AddIterators ==
  [i \in DOMAIN files[1] |-> <<files[1][i]>>]
    \o SelectSeq(Tail(files), LAMBDA level : level # <<>>)

-----------------------------------------------------------------------------
(* ForEachOverlapping: level 0 from the newest file on, then a file a       *)
(* level.                                                                   *)
Overlapping(k) ==
  LET holds(f) == User(Smallest(f)) <= User(k) /\ User(k) <= User(Largest(f))
      newest == SortSeq(SelectSeq(files[1], holds),
                        LAMBDA f, g : f.num > g.num)
      deeper(l) == LET i == FindFile(files[l], k)
                   IN IF i <= Len(files[l])
                           /\ User(Smallest(files[l][i])) <= User(k)
                        THEN <<files[l][i]>> ELSE <<>>
  IN newest \o FlattenSeq([l \in 1 .. Len(files) - 1 |-> deeper(l + 1)])

(* RecordReadSample, UpdateStats: the first of at least two wears out.      *)
\* Mutant: a file that is read alone wears out, too.
Matches_One(k) == Len(Overlapping(k)) >= 1
Matches(k) == Len(Overlapping(k)) >= 2
RecordReadSample(k) ==
  /\ IF Matches(k)
       THEN LET f == Overlapping(k)[1].num
                worn == allowed[f] - 1 <= 0 /\ to_compact = {}
            IN /\ allowed' = [allowed EXCEPT ![f] = Max({@ - 1, 0})]
               /\ to_compact' = IF worn THEN {f} ELSE to_compact
       ELSE UNCHANGED <<allowed, to_compact>>
  /\ UNCHANGED <<files, broken, it, asked>>

(* ApproximateOffsetOf: whole files, and how far into those it falls in.    *)
Before(f, k) == Cardinality({j \in DOMAIN f.keys : f.keys[j] < k})
OffsetIn(l, k) ==
  FoldLeft(LAMBDA s, f :
      IF s.done THEN s
      ELSE IF Largest(f) <= k THEN [s EXCEPT !.sum = @ + Len(f.keys)]
      ELSE IF Smallest(f) > k THEN [s EXCEPT !.done = l > 1]
      ELSE IF f.num \in broken THEN s
      ELSE [s EXCEPT !.sum = @ + Before(f, k)],
    [sum |-> 0, done |-> FALSE], files[l]).sum
ApproximateOffsetOf(k) ==
  FoldLeft(LAMBDA sum, l : sum + OffsetIn(l, k), 0,
           [l \in DOMAIN files |-> l])
GetApproximateSizes(start, limit) ==
  Max({0, ApproximateOffsetOf(limit) - ApproximateOffsetOf(start)})

-----------------------------------------------------------------------------
Init ==
  /\ files \in Layouts
  /\ broken \in SUBSET {f.num : f \in Range(Level)}
  /\ it = [index |-> OffEnd, handle |-> 0, data |-> <<>>, at |-> 0,
           ok |-> TRUE]
  /\ asked = [op |-> "none", k |-> 0]
  /\ allowed = [n \in {f.num : f \in All} |-> AllowedSeeks]
  /\ to_compact = {}

Next == Seek \/ Walk \/ \E k \in Targets : RecordReadSample(k)

-----------------------------------------------------------------------------
(* The iterator shows the entry that is next, in the direction it was       *)
(* moved, among those of the files that can be opened; and if it passed     *)
(* over a file that cannot be, it says so from then on.                     *)
Openable == UNION {Range(f.keys) : f \in {g \in Range(Level) :
                                            g.num \notin broken}}
Wanted ==
  CASE asked.op = "first" -> Openable
    [] asked.op = "seek" -> {k \in Openable : k >= asked.k}
    [] asked.op = "next" -> {k \in Openable : k > asked.k}
    [] asked.op = "last" -> Openable
    [] asked.op = "prev" -> {k \in Openable : k < asked.k}
    [] OTHER -> {}
Passed(f) ==
  CASE asked.op \in {"seek", "next"} ->
         Smallest(f) > asked.k /\ (Showing => Largest(f) < Shown)
    [] asked.op = "prev" ->
         Largest(f) < asked.k /\ (Showing => Smallest(f) > Shown)
    [] asked.op = "first" -> Showing => Largest(f) < Shown
    [] asked.op = "last" -> Showing => Smallest(f) > Shown
    [] OTHER -> FALSE
ConcatenationIsRight ==
  /\ Showing <=> Wanted # {}
  /\ Showing => Shown = IF asked.op \in {"last", "prev"} THEN Max(Wanted)
                        ELSE Min(Wanted)
  /\ (\E f \in Range(Level) : f.num \in broken /\ Passed(f)) => ~it.ok

(* The children that are merged are each in order, and go together through  *)
(* every entry of the version once.                                        *)
ChildrenAreOrdered ==
  LET keys == [c \in DOMAIN AddIterators |->
                 FlattenSeq([i \in DOMAIN AddIterators[c] |->
                               AddIterators[c][i].keys])]
  IN /\ \A c \in DOMAIN keys : \A i \in 1 .. Len(keys[c]) - 1 :
          keys[c][i] < keys[c][i + 1]
     /\ Len(FlattenSeq(keys)) = MapThenSumSet(LAMBDA f : Len(f.keys), All)
     /\ Range(FlattenSeq(keys)) = UNION {Range(f.keys) : f \in All}

(* A file that is to be compacted because reads wore it out shares a user   *)
(* key with another one, so that merging them saves a read.                 *)
WornOutHasCompany ==
  \A f \in {g \in All : g.num \in to_compact} :
    \E g \in All \ {f} :
      /\ User(Smallest(g)) <= User(Largest(f))
      /\ User(Smallest(f)) <= User(Largest(g))

(* The estimated sizes of two ranges side by side are that of both together *)
(* in one.                                                                 *)
SizesAddUp ==
  asked.op = "none" =>
    \A a, b, c \in Targets :
      a <= b /\ b <= c =>
        GetApproximateSizes(a, b) + GetApproximateSizes(b, c)
          = GetApproximateSizes(a, c)
=============================================================================
