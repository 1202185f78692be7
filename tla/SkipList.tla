------------------------------ MODULE SkipList ------------------------------
(***************************************************************************)
(* The skip list of the memtable (db/skiplist.h): one writer inserts under *)
(* a lock of its callers, readers walk the list without any.  The stores   *)
(* of the writer wait in a buffer and reach memory out of order, except    *)
(* that a release store waits for all stores before it                     *)
(* (port/atomic_pointer.h: MemoryBarrier).  An acquire load is the next    *)
(* action of its reader.  Levels are counted from 1.                       *)
(***************************************************************************)
EXTENDS Integers, Sequences, FiniteSets, SequencesExt, FiniteSetsExt

CONSTANTS
  Keys,          \* the keys, positive integers; a node is named by its key
  kMaxHeight,
  Readers

VARIABLES
  mine,          \* what the writer sees: [next, max]
  next,          \* memory: node -> level -> node
  written,       \* the nodes whose key has reached memory
  max,           \* memory: max_height_
  buffer,        \* the stores on their way: [at, node, level, to]
  inserted,      \* the keys Insert was called with
  reader         \* what each reader is doing

listVars == <<mine, next, written, max, buffer, inserted, reader>>

Root == 0
Infinity == Max(Keys) + 1
NULL == Infinity            \* a NULL link sorts after all keys
Garbage == -1               \* memory nothing was written to
Nodes == Keys \cup {Root}
Levels == 1 .. kMaxHeight

(* The height of a list is read by no barrier: any value it had.            *)
GetMaxHeight == 1 .. max

-----------------------------------------------------------------------------
(* The writer. *)

Linked(n, level) == mine.next[n][level]
(* FindGreaterOrEqual for the writer: prev at each level.                   *)
PrevAt(k, level) ==
  Max({Root} \cup {n \in inserted : n < k /\ Linked(n, level) # Garbage})

\* Mutant: a node is linked without a barrier.
Publish_NoBarrier(n, level, to) ==
  [at |-> "next", node |-> n, level |-> level, to |-> to]
(* SetNext: a release store. *)
Publish(n, level, to) ==
  [at |-> "link", node |-> n, level |-> level, to |-> to]
SetNext(n, level, to) ==
  [at |-> "next", node |-> n, level |-> level, to |-> to]

(* The order of the stores: height, key, then level by level from below.    *)
\* Mutant: the levels are linked from above.
LevelsOf_Down(height) == [i \in 1 .. height |-> height + 1 - i]
LevelsOf(height) == [i \in 1 .. height |-> i]
Links(k, height) ==
  FlattenSeq([i \in 1 .. height |->
    LET l == LevelsOf(height)[i]
        prev == PrevAt(k, l)
    IN << SetNext(k, l, Linked(prev, l)), Publish(prev, l, k) >>])
Stores(k, height) ==
  (IF height > mine.max
     THEN <<[at |-> "max", node |-> Root, level |-> height, to |-> 0]>>
     ELSE <<>>)
  \o <<[at |-> "key", node |-> k, level |-> 0, to |-> 0]>>
  \o Links(k, height)

Insert(k, height) ==
  /\ k \notin inserted
  /\ inserted' = inserted \cup {k}
  /\ buffer' = buffer \o Stores(k, height)
  /\ mine' = [next |-> [n \in Nodes |-> [l \in Levels |->
                IF l > height THEN Linked(n, l)
                ELSE IF n = k THEN Linked(PrevAt(k, l), l)
                ELSE IF n = PrevAt(k, l) THEN k ELSE Linked(n, l)]],
              max |-> Max({mine.max, height})]
  /\ UNCHANGED <<next, written, max, reader>>

(* A store reaches memory: stores to one place in their order, a release    *)
(* store after all before it.                                              *)
Place(s) == <<IF s.at = "link" THEN "next" ELSE s.at, s.node, s.level>>
MayArrive(i) ==
  \A j \in 1 .. i - 1 : /\ buffer[i].at # "link"
                        /\ Place(buffer[j]) # Place(buffer[i])
Arrive(i) ==
  /\ MayArrive(i)
  /\ LET s == buffer[i]
     IN /\ written' = IF s.at = "key" THEN written \cup {s.node} ELSE written
        /\ max' = IF s.at = "max" THEN s.level ELSE max
        /\ next' = IF s.at \in {"next", "link"}
                     THEN [next EXCEPT ![s.node][s.level] = s.to] ELSE next
  /\ buffer' = RemoveAt(buffer, i)
  /\ UNCHANGED <<mine, inserted, reader>>

-----------------------------------------------------------------------------
(* The readers: [op, target, x, level, node, known, missed, ok]; node is    *)
(* where the iterator is (NULL: not valid), known the keys whose Insert was *)
(* over when the operation began, missed those it did not find.            *)

Known == IF buffer = <<>> THEN inserted ELSE {}
Begin(r, op, target, x, level) ==
  /\ reader[r].op = "none"
  /\ reader' = [reader EXCEPT ![r] =
       [op |-> op, target |-> target, x |-> x, level |-> level,
        node |-> @.node, known |-> Known, missed |-> {}, ok |-> TRUE]]
  /\ UNCHANGED <<mine, next, written, max, buffer, inserted>>
Valid(r) == reader[r].node # NULL
Done(node, missed, ok) ==
  [op |-> "none", target |-> Infinity, x |-> Root, level |-> 1,
   node |-> node, known |-> {}, missed |-> missed, ok |-> ok]

Seek(r) == \E k \in Keys, h \in GetMaxHeight : Begin(r, "up", k, Root, h)
SeekToFirst(r) == Begin(r, "up", Root, Root, 1)
NextKey(r) == Valid(r) /\ Begin(r, "up", reader[r].node + 1, reader[r].node, 1)
Prev(r) ==
  Valid(r) /\ \E h \in GetMaxHeight : Begin(r, "down", reader[r].node, Root, h)
SeekToLast(r) == \E h \in GetMaxHeight : Begin(r, "down", Infinity, Root, h)

(* One load of FindGreaterOrEqual, FindLessThan, FindLast, or of the next   *)
(* link of Iterator::Next and SeekToFirst.                                 *)
\* Mutant: a node with the very key is passed, too.
KeyIsAfterNode_Equal(k, n) == n # NULL /\ n <= k
KeyIsAfterNode(k, n) == n # NULL /\ n < k
Load(r) ==
  /\ reader[r].op # "none"
  /\ LET rd == reader[r]
         n == next[rd.x][rd.level]
         found == IF rd.op = "up" THEN n ELSE IF rd.x = Root THEN NULL ELSE rd.x
         passed == IF rd.op = "up" THEN {k \in Keys : rd.target <= k /\ k < n}
                   ELSE {k \in Keys : rd.x < k /\ k < rd.target}
     IN reader' = [reader EXCEPT ![r] =
          IF n = Garbage \/ (n # NULL /\ n \notin written)
            THEN Done(NULL, {}, FALSE)
          ELSE IF KeyIsAfterNode(rd.target, n) THEN [rd EXCEPT !.x = n]
          ELSE IF rd.level > 1 THEN [rd EXCEPT !.level = @ - 1]
          ELSE Done(found, rd.known \cap passed, TRUE)]
  /\ UNCHANGED <<mine, next, written, max, buffer, inserted>>

Init ==
  /\ next = [n \in Nodes |-> [l \in Levels |->
               IF n = Root THEN NULL ELSE Garbage]]
  /\ max = 1
  /\ mine = [next |-> next, max |-> max]
  /\ written = {} /\ buffer = <<>> /\ inserted = {}
  /\ reader = [r \in Readers |-> Done(NULL, {}, TRUE)]

Write == \E k \in Keys, height \in Levels : Insert(k, height)
Reach == \E i \in DOMAIN buffer : Arrive(i)
Read ==
  \E r \in Readers :
    \/ Seek(r)
    \/ SeekToFirst(r)
    \/ NextKey(r)
    \/ Prev(r)
    \/ SeekToLast(r)
    \/ Load(r)
Next == Write \/ Reach \/ Read

-----------------------------------------------------------------------------
(* No reader follows a link, or compares a key, nobody has written yet.     *)
NothingUnwritten == \A r \in Readers : reader[r].ok

(* A read that is over has missed no key whose insertion was over when it   *)
(* began, also when its height was stale and others were being linked.     *)
NothingMissed == \A r \in Readers : reader[r].missed = {}

(* In memory every node of a level is in the one below it.                  *)
Chain(level) ==
  LET From[n \in Nodes \cup {NULL, Garbage}] ==
        IF n \in Nodes THEN {n} \cup From[next[n][level]] ELSE {}
  IN From[Root]
LevelsNest == \A l \in 2 .. kMaxHeight : Chain(l) \subseteq Chain(l - 1)
=============================================================================
