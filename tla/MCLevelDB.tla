----------------------------- MODULE MCLevelDB ------------------------------
EXTENDS LevelDB

Put(k) == [k |-> k, del |-> FALSE]
Del(k) == [k |-> k, del |-> TRUE]
Ask(batch, sync) == [batch |-> batch, sync |-> sync]

(* One caller: an unsynced put and a synced batch that deletes it. *)
PutAndBatch == {Ask(<<Put(1)>>, FALSE), Ask(<<Put(2), Del(1)>>, TRUE)}
(* Several callers: synced, unsynced and NULL batches. *)
MixedWrites == {Ask(<<Put(1)>>, FALSE), Ask(<<Put(2)>>, TRUE), Ask(<<>>, FALSE)}
(* A key between the two that a batch writes, and the first of the two. *)
AroundAGap ==
  {Ask(<<Put(1)>>, FALSE), Ask(<<Put(2)>>, FALSE), Ask(<<Put(1), Put(3)>>, FALSE)}
AllRequests == PutAndBatch \cup MixedWrites \cup AroundAGap

ThreeKeys == {Ask(<<Put(k)>>, FALSE) : k \in 1 .. 3}
OneKey == {Ask(<<Put(1)>>, FALSE)}
WholeRange == {[level |-> l, lo |-> 1, hi |-> 2] : l \in 0 .. 2}
LevelOne == {[level |-> 1, lo |-> 1, hi |-> 3]}
LevelTwo == {[level |-> 2, lo |-> 1, hi |-> 3]}
=============================================================================
