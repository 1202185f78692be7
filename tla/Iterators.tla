----------------------------- MODULE Iterators -----------------------------
(***************************************************************************)
(* The iterator a caller of LevelDB gets (db/db_iter.cc) over the merging  *)
(* iterator (table/merger.cc) over the sorted children: the memtable       *)
(* (db/memtable.cc), which goes on taking writes while it is read, and     *)
(* tables.  One action is one turn of a loop of DBIter, so that writes     *)
(* come between any two calls of the merging iterator.                     *)
(*                                                                         *)
(* An internal key is a record [key, seq, type]; its value is named by its *)
(* sequence number.  A type above kTypeValue is a damaged entry.           *)
(***************************************************************************)
EXTENDS Integers, Sequences, FiniteSets, FiniteSetsExt

CONSTANTS
  Keys,        \* user keys, integers
  Sources,     \* the children's contents: sequences of sets of entries
  MaxSeq       \* bound: the last sequence number

VARIABLES
  lists,       \* the children; the first is the memtable
  lastSeq,     \* VersionSet::last_sequence_
  sequence,    \* DBIter::sequence_: what the caller may see
  m,           \* MergingIterator: [cursor, current, forward]
  d,           \* DBIter: [forward, valid, saved, value, ok]
  loop,        \* where DBIter is: [pc, skipping, type]
  want         \* the key the caller must be at (None: no longer valid)

itVars == <<lists, lastSeq, sequence, m, d, loop, want>>

None == [key |-> 0, seq |-> 0, type |-> 0]
kTypeDeletion == 0
kTypeValue == 1
kValueTypeForSeek == kTypeValue

(* InternalKeyComparator::Compare: user keys ascending, tags descending.    *)
Tag(e) == e.seq * 4 + e.type
Before(e, f) == e.key < f.key \/ (e.key = f.key /\ Tag(e) > Tag(f))
ParseInternalKey(e) == e.type <= kTypeValue

FirstOf(S) ==
  IF S = {} THEN None ELSE CHOOSE e \in S : \A f \in S \ {e} : Before(e, f)
LastOf(S) ==
  IF S = {} THEN None ELSE CHOOSE e \in S : \A f \in S \ {e} : Before(f, e)

SeekIn(i, t) == FirstOf({e \in lists[i] : ~Before(e, t)})
NextIn(i, e) == FirstOf({f \in lists[i] : Before(e, f)})
PrevIn(i, e) == LastOf({f \in lists[i] : Before(f, e)})

(* MemTable::Get: the first entry at or behind the look-up key.             *)
MemGet(i, k) ==
  LET e == SeekIn(i, [key |-> k, seq |-> sequence, type |-> kValueTypeForSeek])
  IN IF e # None /\ e.key = k THEN e ELSE None

-----------------------------------------------------------------------------
(* MergingIterator; current is 0 when no child is valid.                    *)

Valid(c) == {i \in DOMAIN c : c[i] # None}
FindSmallest(c) ==
  LET least == {i \in Valid(c) : \A j \in Valid(c) : ~Before(c[j], c[i])}
  IN IF least = {} THEN 0 ELSE Min(least)
FindLargest(c) ==
  LET most == {i \in Valid(c) : \A j \in Valid(c) : ~Before(c[i], c[j])}
  IN IF most = {} THEN 0 ELSE Max(most)

Smallest(c) == [cursor |-> c, current |-> FindSmallest(c), forward |-> TRUE]
Largest(c) == [cursor |-> c, current |-> FindLargest(c), forward |-> FALSE]

MergeFirst == Smallest([i \in DOMAIN lists |-> FirstOf(lists[i])])
MergeLast == Largest([i \in DOMAIN lists |-> LastOf(lists[i])])
MergeSeek(t) == Smallest([i \in DOMAIN lists |-> SeekIn(i, t)])

At == m.cursor[m.current]
(* Turning round: the other children are put on the far side of key().      *)
\* Mutant: the others stay where they are.
Ahead_Stay == m.cursor
Ahead ==
  IF m.forward THEN m.cursor
  ELSE [i \in DOMAIN lists |->
          IF i = m.current THEN At
          ELSE IF SeekIn(i, At) = At THEN NextIn(i, At) ELSE SeekIn(i, At)]
Behind ==
  IF ~m.forward THEN m.cursor
  ELSE [i \in DOMAIN lists |->
          IF i = m.current THEN At
          ELSE IF SeekIn(i, At) # None THEN PrevIn(i, SeekIn(i, At))
          ELSE LastOf(lists[i])]
MergeNext == Smallest([Ahead EXCEPT ![m.current] = NextIn(m.current, At)])
MergePrev == Largest([Behind EXCEPT ![m.current] = PrevIn(m.current, At)])

-----------------------------------------------------------------------------
(* What is in the snapshot: the newest entry of each key, if it is a value. *)

Entries == UNION {lists[i] : i \in DOMAIN lists}
Readable(k) ==
  {e \in Entries : e.key = k /\ e.seq <= sequence /\ ParseInternalKey(e)}
Newest(k) == Max({0} \cup {e.seq : e \in Readable(k)})
Visible == {k \in Keys : \E e \in Readable(k) :
              e.seq = Newest(k) /\ e.type = kTypeValue}

LeastKey(S) == IF S = {} THEN 0 ELSE Min(S)
GreatestKey(S) == IF S = {} THEN 0 ELSE Max(S)

-----------------------------------------------------------------------------
Idle == loop.pc = "idle"
Run(pc, skipping, type) == [pc |-> pc, skipping |-> skipping, type |-> type]
Stop == Run("idle", FALSE, kTypeDeletion)
Unmoved == UNCHANGED <<lists, lastSeq, sequence>>

(* DBIter::key, DBIter::value *)
ShownKey == IF d.forward THEN At.key ELSE d.saved
ShownValue == IF d.forward THEN At.seq ELSE d.value

(* The forward searches: FindNextUserEntry, unless nothing is left.         *)
Forward(pos) ==
  /\ m' = pos
  /\ d' = [d EXCEPT !.forward = TRUE, !.value = 0,
                    !.valid = pos.current # 0 /\ @]
  /\ loop' = IF pos.current = 0 THEN Stop
             ELSE Run("next", FALSE, kTypeDeletion)

SeekToFirst ==
  /\ Idle /\ Forward(MergeFirst) /\ want' = LeastKey(Visible) /\ Unmoved

Seek(k) ==
  /\ Idle
  /\ Forward(MergeSeek([key |-> k, seq |-> sequence,
                        type |-> kValueTypeForSeek]))
  /\ want' = LeastKey({j \in Visible : j >= k})
  /\ Unmoved

SeekToLast ==
  /\ Idle
  /\ m' = MergeLast
  /\ d' = [d EXCEPT !.forward = FALSE, !.value = 0]
  /\ loop' = Run("prev", FALSE, kTypeDeletion)
  /\ want' = GreatestKey(Visible)
  /\ Unmoved

(* Turning to forward: iter_ is just before the entries of the key.         *)
Next_ ==
  /\ Idle /\ d.valid
  /\ IF d.forward
       THEN /\ d' = [d EXCEPT !.saved = At.key]
            /\ loop' = Run("next", TRUE, kTypeDeletion)
            /\ UNCHANGED m
       ELSE /\ m' = IF m.current = 0 THEN MergeFirst ELSE MergeNext
            /\ d' = [d EXCEPT !.forward = TRUE, !.valid = m'.current # 0,
                              !.saved = IF m'.current = 0 THEN 0 ELSE @]
            /\ loop' = IF m'.current = 0 THEN Stop
                       ELSE Run("next", TRUE, kTypeDeletion)
  /\ want' = LeastKey({k \in Visible : k > want})
  /\ Unmoved

(* Turning to reverse: first back to before the entries of the key.         *)
Prev ==
  /\ Idle /\ d.valid
  /\ IF d.forward
       THEN /\ d' = [d EXCEPT !.saved = At.key]
            /\ loop' = Run("back", FALSE, kTypeDeletion)
       ELSE /\ loop' = Run("prev", FALSE, kTypeDeletion)
            /\ UNCHANGED d
  /\ want' = GreatestKey({k \in Visible : k < want})
  /\ Unmoved /\ UNCHANGED m

(* One entry of FindNextUserEntry: is it one to stop at?                    *)
\* Mutant: a deletion hides only itself.
Hides_Not(e) == FALSE
Hides(e) ==
  ParseInternalKey(e) /\ e.seq <= sequence /\ e.type = kTypeDeletion
Yields(e) ==
  /\ ParseInternalKey(e) /\ e.seq <= sequence /\ e.type = kTypeValue
  /\ ~(loop.skipping /\ e.key <= d.saved)

FindNextUserEntry ==
  /\ loop.pc = "next"
  /\ LET e == At
         d1 == [d EXCEPT !.ok = @ /\ ParseInternalKey(e)]
     IN IF Yields(e)
          THEN /\ d' = [d1 EXCEPT !.valid = TRUE, !.saved = 0]
               /\ loop' = Stop
               /\ UNCHANGED m
          ELSE /\ m' = MergeNext
               /\ d' = IF m'.current = 0
                         THEN [d1 EXCEPT !.valid = FALSE, !.saved = 0]
                         ELSE [d1 EXCEPT !.saved = IF Hides(e) THEN e.key
                                                   ELSE @]
               /\ loop' = IF m'.current = 0 THEN Stop
                          ELSE [loop EXCEPT !.skipping = @ \/ Hides(e)]
  /\ Unmoved /\ UNCHANGED want

ScanBack ==
  /\ loop.pc = "back"
  /\ m' = MergePrev
  /\ IF m'.current = 0
       THEN /\ d' = [d EXCEPT !.valid = FALSE, !.saved = 0, !.value = 0]
            /\ loop' = Stop
     ELSE IF m'.cursor[m'.current].key < d.saved
       THEN /\ d' = [d EXCEPT !.forward = FALSE]
            /\ loop' = Run("prev", FALSE, kTypeDeletion)
     ELSE UNCHANGED <<d, loop>>
  /\ Unmoved /\ UNCHANGED want

(* FindPrevUserEntry goes on past the entry it keeps to the key before.     *)
\* Mutant: it stops at the first value, which may not be the newest.
Keeps_First(e) == loop.type # kTypeDeletion
Keeps(e) == loop.type # kTypeDeletion /\ e.key < d.saved
FindPrevUserEntry ==
  /\ loop.pc = "prev"
  /\ LET e == At
         readable == m.current # 0 /\ ParseInternalKey(e) /\ e.seq <= sequence
         over == m.current = 0 \/ (readable /\ Keeps(e))
         damaged == m.current # 0 /\ ~ParseInternalKey(e)
     IN IF over
          THEN /\ d' = IF loop.type = kTypeDeletion
                         THEN [d EXCEPT !.valid = FALSE, !.saved = 0,
                                        !.value = 0, !.forward = TRUE]
                         ELSE [d EXCEPT !.valid = TRUE]
               /\ loop' = Stop
               /\ UNCHANGED m
          ELSE /\ m' = MergePrev
               /\ d' = [d EXCEPT
                    !.ok = @ /\ ~damaged,
                    !.saved = IF ~readable THEN @
                              ELSE IF e.type = kTypeDeletion THEN 0 ELSE e.key,
                    !.value = IF ~readable THEN @
                              ELSE IF e.type = kTypeDeletion THEN 0 ELSE e.seq]
               /\ loop' = IF readable THEN [loop EXCEPT !.type = e.type]
                          ELSE loop
  /\ Unmoved /\ UNCHANGED want

(* MemTable::Add, by a writer, at any time.                                 *)
Add(k, type) ==
  /\ lastSeq < MaxSeq
  /\ lastSeq' = lastSeq + 1
  /\ lists' = [lists EXCEPT ![1] =
                 @ \cup {[key |-> k, seq |-> lastSeq + 1, type |-> type]}]
  /\ UNCHANGED <<sequence, m, d, loop, want>>

Init ==
  /\ lists \in Sources
  /\ lastSeq = Max({e.seq : e \in Entries})
  /\ sequence \in 1 .. lastSeq
  /\ m = Smallest([i \in DOMAIN lists |-> None])
  /\ d = [forward |-> TRUE, valid |-> FALSE, saved |-> 0, value |-> 0,
          ok |-> TRUE]
  /\ loop = Stop
  /\ want = 0

Call ==
  \/ SeekToFirst
  \/ SeekToLast
  \/ Next_
  \/ Prev
  \/ \E k \in Keys : Seek(k)
Turn == FindNextUserEntry \/ ScanBack \/ FindPrevUserEntry
Next == Call \/ Turn \/ \E k \in Keys, type \in {0, 1} : Add(k, type)

-----------------------------------------------------------------------------
(* In whatever order a caller goes forward and back, and whatever is        *)
(* written meanwhile, it is at the key and the value of its snapshot.       *)
ShowsTheSnapshot ==
  Idle => IF want = 0 THEN ~d.valid
          ELSE d.valid /\ ShownKey = want /\ ShownValue = Newest(want)

(* A value shown in place of a damaged newer one comes with an error.       *)
DamageIsReported ==
  Idle /\ d.valid /\ d.ok =>
    ~\E e \in Entries : /\ e.key = ShownKey /\ ~ParseInternalKey(e)
                        /\ e.seq > ShownValue /\ e.seq < sequence

(* The memtable answers with its newest entry of the snapshot.              *)
MemTableIsRight ==
  \A k \in Keys :
    LET own == {e \in lists[1] : e.key = k /\ e.seq <= sequence}
    IN MemGet(1, k).seq = IF own = {} THEN 0 ELSE Max({e.seq : e \in own})
=============================================================================
