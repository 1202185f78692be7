-------------------------------- MODULE Cache --------------------------------
(***************************************************************************)
(* The cache of open tables and of blocks: one shard of util/cache.cc, a   *)
(* hash table of entries with two lists and reference counts, and its use  *)
(* by threads that look a table up, open it when it is missing and insert  *)
(* it (db/table_cache.cc).  The shards share nothing, each has its mutex,  *)
(* and each of its calls is one action.  A freed entry's memory, here its  *)
(* number, is used again for the next entry.                               *)
(***************************************************************************)
EXTENDS Integers, Sequences, FiniteSets, SequencesExt, FiniteSetsExt

CONSTANTS
  Keys, Hash(_),    \* file numbers or block handles, and their hashes
  Threads,
  Capacities, Charges,
  FirstLength,      \* 4: the smallest hash table
  MaxEntries        \* bound: the entries alive at a time

VARIABLES
  capacity,
  cache,     \* [entry, lru, in_use, list, usage], lists oldest first;
             \*   list: bucket -> entries, HandleTable::list_
  thread     \* what each thread does: [pc, key, handle]

cacheVars == <<capacity, cache, thread>>

Free == [key |-> 0, charge |-> 0, refs |-> 0, in_cache |-> FALSE]
NULL == 0
Alive(c) == {e \in DOMAIN c.entry : c.entry[e].refs > 0}
KeyOf(c, e) == c.entry[e].key

-----------------------------------------------------------------------------
(* HandleTable *)

Length(c) == Cardinality(DOMAIN c.list)
Bucket(c, k) == Hash(k) % Length(c)
Elems(c) == MapThenSumSet(LAMBDA b : Len(c.list[b]), DOMAIN c.list)
(* FindPointer: the entry of the key, or NULL behind its chain.             *)
FindPointer(c, k) ==
  LET chain == c.list[Bucket(c, k)]
      at == {i \in DOMAIN chain : KeyOf(c, chain[i]) = k}
  IN IF at = {} THEN NULL ELSE chain[Min(at)]

NewLength(n) ==
  FirstLength * 2 ^ Min({i \in 0 .. MaxEntries : FirstLength * 2 ^ i >= n})
(* Every entry goes to the front of its new chain.                          *)
Resize(c) ==
  LET n == NewLength(Elems(c))
      all == FlattenSeq([i \in 1 .. Length(c) |-> c.list[i - 1]])
      ToFront(list, e) ==
        [list EXCEPT ![Hash(KeyOf(c, e)) % n] = <<e>> \o @]
  IN [c EXCEPT !.list = FoldLeft(ToFront, [b \in 0 .. n - 1 |-> <<>>], all)]

TableInsert(c, e) ==
  LET b == Bucket(c, KeyOf(c, e))
      old == FindPointer(c, KeyOf(c, e))
      new == [c EXCEPT !.list[b] =
                IF old = NULL THEN Append(@, e)
                ELSE [i \in DOMAIN @ |-> IF @[i] = old THEN e ELSE @[i]]]
  IN IF old = NULL /\ Elems(new) > Length(new) THEN Resize(new) ELSE new
TableRemove(c, k) ==
  [c EXCEPT !.list[Bucket(c, k)] =
     SelectSeq(@, LAMBDA e : e # FindPointer(c, k))]

-----------------------------------------------------------------------------
(* LRUCache *)

Without(list, e) == SelectSeq(list, LAMBDA f : f # e)
LRU_Remove(c, e) ==
  [c EXCEPT !.lru = Without(@, e), !.in_use = Without(@, e)]

Ref(c, e) ==
  LET on_lru == c.entry[e].refs = 1 /\ c.entry[e].in_cache
      moved == IF on_lru THEN [LRU_Remove(c, e) EXCEPT
                                 !.in_use = Append(@, e)] ELSE c
  IN [moved EXCEPT !.entry[e].refs = @ + 1]

\* Mutant: an entry nobody uses any more stays on the in-use list.
Unref_Stays(c, e) ==
  LET less == [c EXCEPT !.entry[e].refs = @ - 1]
  IN IF less.entry[e].refs = 0 THEN [less EXCEPT !.entry[e] = Free] ELSE less
Unref(c, e) ==
  LET less == [c EXCEPT !.entry[e].refs = @ - 1]
  IN IF less.entry[e].refs = 0 THEN [less EXCEPT !.entry[e] = Free]
     ELSE IF less.entry[e].in_cache /\ less.entry[e].refs = 1
       THEN [LRU_Remove(less, e) EXCEPT !.lru = Append(@, e)]
     ELSE less

(* The entry is out of the hash table already.                              *)
FinishErase(c, e) ==
  IF e = NULL THEN c
  ELSE Unref([LRU_Remove(c, e) EXCEPT !.entry[e].in_cache = FALSE,
                                      !.usage = @ - c.entry[e].charge], e)
Erase(c, k) == FinishErase(TableRemove(c, k), FindPointer(c, k))

Shrink(c) ==
  FoldLeft(LAMBDA s, e : IF s.usage > capacity THEN Erase(s, KeyOf(s, e))
                         ELSE s,
           c, c.lru)

\* Mutant: the entry that had the key keeps the cache's reference.
Displaced_Kept(c, e) == TableInsert(c, e)
Displaced(c, e) ==
  FinishErase(TableInsert(c, e), FindPointer(c, KeyOf(c, e)))
Insert(c, e, k, charge) ==
  LET new == [c EXCEPT !.entry[e] =
                [key |-> k, charge |-> charge, refs |-> 1,
                 in_cache |-> FALSE]]
      kept == [new EXCEPT !.entry[e].refs = @ + 1,
                          !.entry[e].in_cache = TRUE,
                          !.in_use = Append(@, e),
                          !.usage = @ + charge]
  IN Shrink(IF capacity > 0 THEN Displaced(kept, e) ELSE new)

Pruned(c) == FoldLeft(LAMBDA s, e : Erase(s, KeyOf(s, e)), c, c.lru)

-----------------------------------------------------------------------------
(* TableCache and its threads. *)

Is(t, pc) == thread[t].pc = pc
Now(t, pc, k, handle) ==
  thread' = [thread EXCEPT ![t] = [pc |-> pc, key |-> k, handle |-> handle]]

(* FindTable looks the table up; what is missing is opened unlocked.        *)
Lookup(t, k) ==
  /\ Is(t, "idle")
  /\ \E e \in {FindPointer(cache, k)} :
       IF e # NULL
         THEN cache' = Ref(cache, e) /\ Now(t, "using", k, e)
         ELSE Now(t, "opening", k, NULL) /\ UNCHANGED cache
  /\ UNCHANGED capacity

Opened(t, charge) ==
  /\ Is(t, "opening") /\ Alive(cache) # DOMAIN cache.entry
  /\ LET e == Min(DOMAIN cache.entry \ Alive(cache))
     IN /\ cache' = Insert(cache, e, thread[t].key, charge)
        /\ Now(t, "using", thread[t].key, e)
  /\ UNCHANGED capacity

(* An error is not cached. *)
OpenFails(t) ==
  Is(t, "opening") /\ Now(t, "idle", 0, NULL) /\ UNCHANGED <<capacity, cache>>

(* The reader, or the iterator that holds the handle, is done.              *)
Release(t) ==
  /\ Is(t, "using")
  /\ cache' = Unref(cache, thread[t].handle)
  /\ Now(t, "idle", 0, NULL)
  /\ UNCHANGED capacity

(* A file is removed, and its table with it, also while others read it.     *)
Evict(k) ==
  /\ FindPointer(cache, k) # NULL
  /\ cache' = Erase(cache, k) /\ UNCHANGED <<capacity, thread>>

Prune ==
  cache.lru # <<>> /\ cache' = Pruned(cache) /\ UNCHANGED <<capacity, thread>>

(* ~LRUCache: the caller has released every handle.                         *)
Destroy ==
  /\ \A t \in Threads : Is(t, "idle")
  /\ cache.lru # <<>>
  /\ cache' = [cache EXCEPT !.entry = [e \in DOMAIN @ |->
                              IF e \in ToSet(cache.lru) THEN Free ELSE @[e]],
                            !.lru = <<>>, !.usage = 0,
                            !.list = [b \in 0 .. FirstLength - 1 |-> <<>>]]
  /\ UNCHANGED <<capacity, thread>>

Init ==
  /\ capacity \in Capacities
  /\ cache = [entry |-> [e \in 1 .. MaxEntries |-> Free], lru |-> <<>>,
              in_use |-> <<>>, usage |-> 0,
              list |-> [b \in 0 .. FirstLength - 1 |-> <<>>]]
  /\ thread = [t \in Threads |-> [pc |-> "idle", key |-> 0, handle |-> NULL]]

Next ==
  \/ \E t \in Threads, k \in Keys : Lookup(t, k)
  \/ \E t \in Threads, charge \in Charges : Opened(t, charge)
  \/ \E t \in Threads : OpenFails(t)
  \/ \E t \in Threads : Release(t)
  \/ \E k \in Keys : Evict(k)
  \/ Prune
  \/ Destroy

-----------------------------------------------------------------------------
Holders(e) == {t \in Threads : Is(t, "using") /\ thread[t].handle = e}
Cached == {e \in Alive(cache) : cache.entry[e].in_cache}

(* No thread holds freed memory, or that of another table, whatever is      *)
(* evicted, displaced or pruned; and nothing is freed too late: a count is  *)
(* the handles given out, and one for the cache.                           *)
HandlesAreAlive ==
  /\ \A t \in Threads : Is(t, "using") =>
       KeyOf(cache, thread[t].handle) = thread[t].key
  /\ \A e \in DOMAIN cache.entry :
       cache.entry[e].refs =
         Cardinality(Holders(e)) + (IF e \in Cached THEN 1 ELSE 0)

(* The three ways to an entry agree: it is on exactly the list its count    *)
(* says, in exactly one chain, that of its hash, and charged once.          *)
ListsAgree ==
  /\ ToSet(cache.lru) = {e \in Cached : cache.entry[e].refs = 1}
  /\ ToSet(cache.in_use) = {e \in Cached : cache.entry[e].refs > 1}
  /\ Len(cache.lru) + Len(cache.in_use) = Cardinality(Cached)
  /\ Elems(cache) = Cardinality(Cached)
  /\ \A e \in Cached : FindPointer(cache, KeyOf(cache, e)) = e
  /\ cache.usage = MapThenSumSet(LAMBDA e : cache.entry[e].charge, Cached)

(* An insertion leaves more in the cache than its capacity only when all of *)
(* it is in use.  (A release may: it never evicts.)                        *)
Shrinks ==
  \A e \in DOMAIN cache.entry :
    cache.entry[e] = Free /\ cache'.entry[e] # Free =>
      cache'.usage <= capacity \/ cache'.lru = <<>>
InsertionShrinks == [][Shrinks]_cacheVars
=============================================================================
