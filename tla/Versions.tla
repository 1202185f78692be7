------------------------------ MODULE Versions ------------------------------
(***************************************************************************)
(* The levels of sorted tables of LevelDB (db/version_set.cc): which file  *)
(* may hold a key, where a memtable's table goes, which files a compaction *)
(* takes and what it writes.  The operators are pure: module LevelDB keeps *)
(* the versions and runs the compactions.                                  *)
(*                                                                         *)
(* An entry is [k |-> user key, s |-> sequence number, del |-> BOOLEAN];   *)
(* the value a put wrote is told apart by its sequence number.  A file is  *)
(* [num |-> file number, ents |-> the entries written to it]; its size is  *)
(* the number of its entries.  A version maps each level to its files.     *)
(***************************************************************************)
EXTENDS Integers, Sequences, FiniteSets, SequencesExt, FiniteSetsExt

CONSTANTS
  NumLevels,           \* config::kNumLevels
  L0Trigger,           \* config::kL0_CompactionTrigger
  MaxMemCompactLevel,  \* config::kMaxMemCompactLevel
  TargetFileSize,      \* Options::max_file_size
  GrandParentFactor,   \* 10: MaxGrandParentOverlapBytes in target files
  ExpandFactor,        \* 25: ExpandedCompactionByteSizeLimit in target files
  LevelBytes           \* MaxBytesForLevel of levels 0 and 1

(* There is a level 0. *)
ASSUME LevelsAssumption == NumLevels \in Nat \ {0}
(* A memtable's table goes to a level there is. *)
ASSUME MemLevelAssumption == MaxMemCompactLevel \in 0 .. NumLevels - 1

Levels == 0 .. NumLevels - 1
kMaxSequenceNumber == 1000000  \* above every sequence number of a model
MaxGrandParentOverlap == GrandParentFactor * TargetFileSize
ExpandedCompactionLimit == ExpandFactor * TargetFileSize

(* Internal keys: by user key, then the newest first. *)
Before(a, b) == a.k < b.k \/ (a.k = b.k /\ a.s > b.s)
Sorted(E) == SetToSortSeq(E, Before)

Smallest(f) == CHOOSE e \in f.ents : \A o \in f.ents : ~Before(o, e)
Largest(f) == CHOOSE e \in f.ents : \A o \in f.ents : ~Before(e, o)
Size(F) == MapThenSumSet(LAMBDA f : Cardinality(f.ents), F)

(* BySmallestKey: the order of the files of a level above 0. *)
InOrder(F) ==
  SetToSortSeq(F, LAMBDA f, g :
    \/ Before(Smallest(f), Smallest(g))
    \/ Smallest(f) = Smallest(g) /\ f.num < g.num)

NewestFirst(F) == SetToSortSeq(F, LAMBDA f, g : f.num > g.num)

EmptyVersion == [l \in Levels |-> {}]
FilesOf(v) == UNION {v[l] : l \in Levels}

(* VersionSet::Builder: the version after an edit. *)
ApplyEdit(v, deleted, added) ==
  [l \in Levels |-> {f \in v[l] : <<l, f.num>> \notin deleted}
                      \cup {a[2] : a \in {x \in added : x[1] = l}}]

(***************************************************************************)
(* Looking up a key.                                                       *)
(***************************************************************************)

(* The first index whose file ends at or after e, by binary search; past   *)
(* the end when there is none.                                             *)
FindFile(fs, e) ==
  LET n == Len(fs) + 1
      Search[lr \in (1 .. n) \X (1 .. n)] ==
        LET mid == (lr[1] + lr[2]) \div 2
        IN IF lr[1] >= lr[2] THEN lr[2]
           ELSE IF Before(Largest(fs[mid]), e) THEN Search[<<mid + 1, lr[2]>>]
           ELSE Search[<<lr[1], mid>>]
  IN Search[<<1, n>>]

Covers(f, k) == Smallest(f).k <= k /\ k <= Largest(f).k

(* The files of a level a lookup of k at snapshot s reads, in order. *)
Candidates(v, l, k, s) ==
  IF l = 0 THEN NewestFirst({f \in v[0] : Covers(f, k)})
  ELSE LET fs == InOrder(v[l])
           i == FindFile(fs, [k |-> k, s |-> s])
       IN IF i <= Len(fs) /\ Smallest(fs[i]).k <= k THEN <<fs[i]>> ELSE <<>>

(* The newest entry for k that snapshot s sees: a singleton, or empty. *)
Newest(E, k, s) ==
  {e \in E : /\ e.k = k /\ e.s <= s
             /\ \A o \in E : o.k = k /\ o.s <= s => o.s <= e.s}

(* Every file Version::Get would read, level by level. *)
ReadOrder(v, k, s) ==
  FlattenSeq([i \in 1 .. NumLevels |-> Candidates(v, i - 1, k, s)])

(* Version::Get: the first file that has the key decides. *)
VersionGet(v, k, s) ==
  LET fs == ReadOrder(v, k, s)
      hits == {i \in DOMAIN fs : Newest(fs[i].ents, k, s) # {}}
  IN IF hits = {} THEN {} ELSE Newest(fs[Min(hits)].ents, k, s)

(* GetStats::seek_file: the first file read in vain before another. *)
SeekFile(v, k, s) ==
  LET fs == ReadOrder(v, k, s)
      missed(f) == Len(fs) > 1 /\ fs[1] = f /\ Newest(f.ents, k, s) = {}
  IN UNION {{[level |-> l, file |-> f] : f \in {x \in v[l] : missed(x)}} :
              l \in Levels}

(***************************************************************************)
(* Choosing levels and inputs.                                             *)
(***************************************************************************)

(* Files of F that meet the user keys lo .. hi. *)
Meeting(F, lo, hi) == {f \in F : Smallest(f).k <= hi /\ lo <= Largest(f).k}

(* SomeFileOverlapsRange: all files of level 0, a binary search elsewhere. *)
OverlapInLevel(v, l, lo, hi) ==
  IF l = 0 THEN Meeting(v[0], lo, hi) # {}
  ELSE LET fs == InOrder(v[l])
           i == FindFile(fs, [k |-> lo, s |-> kMaxSequenceNumber])
       IN i <= Len(fs) /\ Smallest(fs[i]).k <= hi

(* The user keys a set of files spans. *)
Lo(F) == Min({Smallest(f).k : f \in F})
Hi(F) == Max({Largest(f).k : f \in F})
(* GetRange's largest internal key. *)
EndOf(F) == Largest([ents |-> {Largest(f) : f \in F}])

(* GetOverlappingInputs: at level 0 a file that sticks out widens the range *)
(* and the search starts over, up to the least set that nothing widens.    *)
GetOverlappingInputs(v, l, lo, hi) ==
  LET Closed(F) ==
        /\ Meeting(v[0], lo, hi) \subseteq F
        /\ F # {} =>
             Meeting(v[0], Min({lo, Lo(F)}), Max({hi, Hi(F)})) \subseteq F
  IN IF l > 0 THEN Meeting(v[l], lo, hi)
     ELSE {f \in v[0] : \A F \in SUBSET v[0] : Closed(F) => f \in F}

(* Version::PickLevelForMemTableOutput *)
\* Mutant: level 0 is not looked at.
PickLevel_Not0(v, lo, hi) ==
  Max({l \in 0 .. MaxMemCompactLevel :
         \A m \in 1 .. l : ~OverlapInLevel(v, m, lo, hi)})
PickLevelForMemTableOutput(v, lo, hi) ==
  LET Fits(l) == /\ ~OverlapInLevel(v, l, lo, hi)
                 /\ l + 1 < NumLevels =>
                      Size(GetOverlappingInputs(v, l + 1, lo, hi))
                        <= MaxGrandParentOverlap
      Ok == {l \in 1 .. MaxMemCompactLevel : \A m \in 1 .. l : Fits(m)}
  IN IF OverlapInLevel(v, 0, lo, hi) THEN 0 ELSE Max(Ok \cup {0})

(* VersionSet::Finalize: scores as fractions; the first best level wins, in *)
(* a set of one.                                                           *)
Score(v, l) ==
  IF l = 0 THEN <<Cardinality(v[0]), L0Trigger>>
  ELSE <<Size(v[l]), LevelBytes * 10 ^ (l - 1)>>
Beats(x, y) == x[1] * y[2] > y[1] * x[2]
CompactionLevel(v) ==
  {l \in 0 .. NumLevels - 2 :
     \A m \in 0 .. NumLevels - 2 :
       /\ ~Beats(Score(v, m), Score(v, l))
       /\ m < l => Beats(Score(v, l), Score(v, m))}
NeedsSizeCompaction(v) ==
  \E l \in CompactionLevel(v) : Score(v, l)[1] >= Score(v, l)[2]

(* SetupOtherInputs: the files of the next level, then as many more of this *)
(* level as that does not add any to.                                      *)
\* Mutant: only the end of the range counts.
Wide_AtEnd(v, A, l) == GetOverlappingInputs(v, l, Hi(A), Hi(A))
Wide(v, A, l) == GetOverlappingInputs(v, l, Lo(A), Hi(A))
Grows(in0, in1, more0, more1) ==
  /\ in1 # {}
  /\ Cardinality(more0) > Cardinality(in0)
  /\ Size(in1) + Size(more0) < ExpandedCompactionLimit
  /\ Cardinality(more1) = Cardinality(in1)
CompactionOf(v, l, a, b) ==
  [level |-> l, in0 |-> a, in1 |-> b, base |-> v, last |-> EndOf(a),
   end |-> Largest(InOrder(a)[Cardinality(a)]),
   grand |-> IF l + 2 < NumLevels THEN Wide(v, a \cup b, l + 2) ELSE {}]
(* A compaction of the files in0 of level l: a set of one. *)
Compactions(v, l, in0) ==
  UNION {UNION {
    {IF Grows(in0, in1, more0, more1) THEN CompactionOf(v, l, more0, more1)
     ELSE CompactionOf(v, l, in0, in1) : more1 \in {Wide(v, more0, l + 1)}} :
      more0 \in {Wide(v, in0 \cup in1, l)}} : in1 \in {Wide(v, in0, l + 1)}}

(* VersionSet::PickCompaction; after is compact_pointer_, seek is          *)
(* file_to_compact_, each a set of at most one.                            *)
Chosen(F, after) ==
  LET next == {f \in F : \A p \in after : Before(p, Largest(f))}
      among == IF next = {} THEN F ELSE next
  IN {f \in among : f = InOrder(among)[1]}
Picked(v, after, seek) ==
  IF NeedsSizeCompaction(v)
    THEN UNION {{[level |-> l, file |-> f] : f \in Chosen(v[l], after[l])} :
                  l \in CompactionLevel(v)}
    ELSE seek
PickCompaction(v, after, seek) ==
  UNION {Compactions(v, p.level,
           IF p.level > 0 THEN {p.file}
           ELSE GetOverlappingInputs(v, 0, Smallest(p.file).k,
                                     Largest(p.file).k)) :
         p \in Picked(v, after, seek)}

(* VersionSet::CompactRange: above level 0 no more files than fill one     *)
(* output file.                                                            *)
ManualInputs(v, l, lo, hi) ==
  LET F == GetOverlappingInputs(v, l, lo, hi)
      fs == InOrder(F)
      full == {i \in DOMAIN fs :
                 Size({fs[j] : j \in 1 .. i}) >= TargetFileSize}
  IN IF l = 0 \/ full = {} THEN F ELSE {fs[j] : j \in 1 .. Min(full)}

IsTrivialMove(c) ==
  /\ Cardinality(c.in0) = 1 /\ c.in1 = {}
  /\ Size(c.grand) <= MaxGrandParentOverlap

InputDeletions(c) ==
  {<<c.level, f.num>> : f \in c.in0}
    \cup {<<c.level + 1, f.num>> : f \in c.in1}

(***************************************************************************)
(* What a compaction writes.                                               *)
(***************************************************************************)

IsBaseLevelForKey(c, k) ==
  \A l \in c.level + 2 .. NumLevels - 1 : \A f \in c.base[l] : ~Covers(f, k)

(* DoCompactionWork's drop: hidden by a newer entry no snapshot separates  *)
(* it from, or a deletion with nothing underneath.                         *)
\* Mutant: snapshots are not asked.
Drop_Snapshots(c, es, i, smallestSnapshot) ==
  \/ i > 1 /\ es[i - 1].k = es[i].k
  \/ /\ es[i].del /\ es[i].s <= smallestSnapshot
     /\ IsBaseLevelForKey(c, es[i].k)
Drop(c, es, i, smallestSnapshot) ==
  \/ i > 1 /\ es[i - 1].k = es[i].k /\ es[i - 1].s <= smallestSnapshot
  \/ /\ es[i].del /\ es[i].s <= smallestSnapshot
     /\ IsBaseLevelForKey(c, es[i].k)

(* ShouldStopBefore: the grandparents e is past, and the bytes of those    *)
(* passed since the first key or the last stop.                            *)
Advance(c, st, e) ==
  LET passed == {g \in st.grand : Before(Largest(g), e)}
      over == st.over + (IF st.seen THEN Size(passed) ELSE 0)
  IN [st EXCEPT !.grand = @ \ passed, !.seen = TRUE,
                !.over = IF over > MaxGrandParentOverlap THEN 0 ELSE over,
                !.open = @ /\ over <= MaxGrandParentOverlap]

(* An entry goes to the open output, or to a new one; a full one is closed. *)
AddEntry(st, e) ==
  LET outs == IF st.open
                THEN [st.outs EXCEPT ![Len(st.outs)] = @ \cup {e}]
                ELSE Append(st.outs, {e})
  IN [st EXCEPT !.outs = outs,
                !.open = Cardinality(outs[Len(outs)]) < TargetFileSize]

(* DoCompactionWork's loop: the entries of each output. *)
Outputs(c, smallestSnapshot) ==
  LET es == Sorted(UNION {f.ents : f \in c.in0 \cup c.in1})
      Step(st, i) ==
        LET moved == Advance(c, st, es[i])
        IN IF Drop(c, es, i, smallestSnapshot) THEN moved
           ELSE AddEntry(moved, es[i])
      start == [outs |-> <<>>, open |-> FALSE, seen |-> FALSE, over |-> 0,
                grand |-> c.grand]
  IN FoldLeft(Step, start, [i \in DOMAIN es |-> i]).outs
=============================================================================
