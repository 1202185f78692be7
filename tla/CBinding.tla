------------------------------ MODULE CBinding ------------------------------
(***************************************************************************)
(* The C binding (db/c.cc): what each function allocates and frees for one *)
(* client.  A handle is a struct; most own an object of the library or a   *)
(* state of the client's, which is freed with them.  heap counts the       *)
(* blocks of each kind, so that one that is freed twice shows as -1 and    *)
(* one that nobody frees as a block too many.  What the store answers is   *)
(* any status (modules LevelDB, Iterators, Repair).                        *)
(***************************************************************************)
EXTENDS Integers, FiniteSets

CONSTANTS
  Errors,           \* the texts of statuses other than ok and NotFound
  MaxHandles,       \* bound: handles of the client at a time
  MaxValues         \* bound: values and properties it has not freed

VARIABLES
  heap,             \* how many blocks of each kind are allocated
  mine,             \* the kinds the client has a handle of, one of each
  options,          \* what rep points to in its leveldb_options_t
  snapshot,         \* ... in its leveldb_readoptions_t: is it set?
  store,            \* the objects the open store uses, its own included
  values,           \* how many strings the client must leveldb_free
  errptr            \* *errptr: "NULL" or the text of the message

cVars == <<heap, mine, options, snapshot, store, values, errptr>>

-----------------------------------------------------------------------------
(* The structs, and what their destructors free besides: the object in rep  *)
(* or, by the client's own function, state_.  Options are values, and the   *)
(* default Env is never deleted.                                            *)
Owners == {"db", "iterator", "snapshot", "cache", "comparator",
           "filterpolicy", "bloom"}
Structs == Owners \cup {"batch", "options", "readoptions", "writeoptions",
                        "env"}
Handle(k) == <<k, "struct">>
Rep(k) == <<k, "rep">>
Own(k) == <<k, "the store's own">>
Message == <<"message", "chars">>
Value == <<"value", "chars">>
Defaults == {"cache", "info_log"}
Blocks == {Handle(k) : k \in Structs} \cup {Message, Value}
            \cup {Rep(k) : k \in Owners \cup {"env"}}
            \cup {Own(k) : k \in Defaults}
Made(k) == {Handle(k)} \cup {Rep(j) : j \in Owners \cap {k}}
Freed(k) == {Handle(k)} \cup {Rep(j) : j \in Owners \cap {k}}

Plus(h, S) == [b \in Blocks |-> IF b \in S THEN h[b] + 1 ELSE h[b]]
Minus(h, S) == [b \in Blocks |-> IF b \in S THEN h[b] - 1 ELSE h[b]]

Has(k) == k \in mine
Room == Cardinality(mine) < MaxHandles

(* The function that returns a new handle, and the one that destroys it.    *)
New(k) ==
  Room /\ ~Has(k) /\ heap' = Plus(heap, Made(k)) /\ mine' = mine \cup {k}
Destroy(k) ==
  Has(k) /\ heap' = Minus(heap, Freed(k)) /\ mine' = mine \ {k}

(* SaveError: an older message is freed; a call that succeeds leaves it.    *)
SaveError(h, s) ==
  IF s = "ok" THEN heap' = h /\ UNCHANGED errptr
  ELSE /\ errptr' = s
       /\ heap' = Plus(IF errptr = "NULL" THEN h ELSE Minus(h, {Message}),
                       {Message})
Status == {"ok"} \cup Errors

-----------------------------------------------------------------------------
(* The store makes a cache and an info log of its own where the options     *)
(* have none; the latter may fail, and then there is none.                  *)
SanitizeOptions(logged) ==
  {Rep(k) : k \in options}
    \cup {Own(k) : k \in {"cache"} \ options}
    \cup (IF logged THEN {Own("info_log")} ELSE {})
(* ~DBImpl deletes those it made, and a store that does not open is deleted *)
(* before leveldb_open returns.                                             *)
OwnOf(objects) == objects \cap {Own(k) : k \in Defaults}

leveldb_open(s, logged) ==
  /\ Has("options") /\ ~Has("db") /\ Room
  /\ IF s = "ok"
     THEN /\ store' = SanitizeOptions(logged) /\ mine' = mine \cup {"db"}
          /\ heap' = Plus(heap, Made("db") \cup OwnOf(store')) /\ UNCHANGED errptr
     ELSE SaveError(heap, s) /\ UNCHANGED <<mine, store>>
  /\ UNCHANGED <<options, snapshot, values>>
leveldb_close ==
  /\ ~Has("iterator") /\ ~Has("snapshot") /\ Has("db")
  /\ heap' = Minus(heap, Freed("db") \cup OwnOf(store)) /\ mine' = mine \ {"db"}
  /\ store' = {} /\ UNCHANGED <<options, snapshot, values, errptr>>

(* leveldb_put, leveldb_delete, leveldb_write *)
Update(s) ==
  /\ Has("db") /\ Has("writeoptions") /\ SaveError(heap, s)
  /\ UNCHANGED <<mine, options, snapshot, store, values>>

(* The value is a copy for the client; a key that is not there is no error. *)
leveldb_get(s) ==
  /\ Has("db") /\ Has("readoptions") /\ (snapshot => Has("snapshot"))
  /\ CASE s = "ok" ->
            /\ values < MaxValues /\ values' = values + 1
            /\ heap' = Plus(heap, {Value}) /\ UNCHANGED errptr
       [] s = "NotFound" -> UNCHANGED <<heap, values, errptr>>
       [] OTHER -> SaveError(heap, s) /\ UNCHANGED values
  /\ UNCHANGED <<mine, options, snapshot, store>>
leveldb_free ==
  /\ values > 0 /\ values' = values - 1 /\ heap' = Minus(heap, {Value})
  /\ UNCHANGED <<mine, options, snapshot, store, errptr>>
\* The client frees the message and sets its pointer to NULL.
ClearError ==
  /\ errptr # "NULL" /\ errptr' = "NULL" /\ heap' = Minus(heap, {Message})
  /\ UNCHANGED <<mine, options, snapshot, store, values>>

leveldb_create_iterator ==
  /\ Has("db") /\ Has("readoptions") /\ (snapshot => Has("snapshot"))
  /\ New("iterator") /\ UNCHANGED <<options, snapshot, store, values, errptr>>
leveldb_create_snapshot ==
  /\ Has("db") /\ New("snapshot")
  /\ UNCHANGED <<options, snapshot, store, values, errptr>>
(* ReleaseSnapshot deletes what GetSnapshot made, then the handle goes.     *)
leveldb_release_snapshot ==
  /\ Destroy("snapshot") /\ UNCHANGED <<options, snapshot, store, values, errptr>>

leveldb_property_value(known) ==
  /\ Has("db")
  /\ IF known THEN /\ values < MaxValues /\ values' = values + 1
                   /\ heap' = Plus(heap, {Value})
     ELSE UNCHANGED <<heap, values>>
  /\ UNCHANGED <<mine, options, snapshot, store, errptr>>

(* leveldb_destroy_db, leveldb_repair_db: of a store that is not open       *)
Maintain(s) ==
  /\ Has("options") /\ ~Has("db") /\ SaveError(heap, s)
  /\ UNCHANGED <<mine, options, snapshot, store, values>>

leveldb_iter_destroy ==
  Destroy("iterator") /\ UNCHANGED <<options, snapshot, store, values, errptr>>
leveldb_iter_get_error(s) ==
  /\ Has("iterator") /\ SaveError(heap, s)
  /\ UNCHANGED <<mine, options, snapshot, store, values>>

leveldb_writebatch_create ==
  New("batch") /\ UNCHANGED <<options, snapshot, store, values, errptr>>
leveldb_writebatch_destroy ==
  Destroy("batch") /\ UNCHANGED <<options, snapshot, store, values, errptr>>

-----------------------------------------------------------------------------
(* The pointers in Options to objects of the client; bloom is one of its    *)
(* filter policies.                                                         *)
Pointers == {"comparator", "filterpolicy", "bloom", "cache", "env"}
Policies == {"filterpolicy", "bloom"}

leveldb_options_create ==
  /\ New("options") /\ options' = {}
  /\ UNCHANGED <<snapshot, store, values, errptr>>
leveldb_options_destroy ==
  /\ Destroy("options") /\ options' = {}
  /\ UNCHANGED <<snapshot, store, values, errptr>>
leveldb_options_set(k) ==
  /\ Has("options") /\ Has(k)
  /\ options' = (IF k \in Policies THEN options \ Policies ELSE options) \cup {k}
  /\ UNCHANGED <<heap, mine, snapshot, store, values, errptr>>

(* The client keeps what an open store or its options point to, but for the *)
(* handle of the environment: the options hold rep, not the handle.         *)
Unused(k) == k \notin options /\ Rep(k) \notin store
leveldb_comparator_create ==
  New("comparator") /\ UNCHANGED <<options, snapshot, store, values, errptr>>
leveldb_comparator_destroy ==
  /\ Unused("comparator") /\ Destroy("comparator")
  /\ UNCHANGED <<options, snapshot, store, values, errptr>>
leveldb_filterpolicy_create ==
  New("filterpolicy") /\ UNCHANGED <<options, snapshot, store, values, errptr>>
(* The Wrapper deletes its rep_; its destructor_ does nothing.              *)
leveldb_filterpolicy_create_bloom ==
  New("bloom") /\ UNCHANGED <<options, snapshot, store, values, errptr>>
leveldb_filterpolicy_destroy(k) ==
  /\ Unused(k) /\ Destroy(k)
  /\ UNCHANGED <<options, snapshot, store, values, errptr>>

leveldb_readoptions_create ==
  /\ New("readoptions") /\ snapshot' = FALSE
  /\ UNCHANGED <<options, store, values, errptr>>
leveldb_readoptions_destroy ==
  /\ Destroy("readoptions") /\ snapshot' = FALSE
  /\ UNCHANGED <<options, store, values, errptr>>
leveldb_readoptions_set_snapshot(set) ==
  /\ Has("readoptions") /\ (set => Has("snapshot")) /\ snapshot' = set
  /\ UNCHANGED <<heap, mine, options, store, values, errptr>>
leveldb_writeoptions_create ==
  New("writeoptions") /\ UNCHANGED <<options, snapshot, store, values, errptr>>
leveldb_writeoptions_destroy ==
  /\ Destroy("writeoptions")
  /\ UNCHANGED <<options, snapshot, store, values, errptr>>

leveldb_cache_create_lru ==
  New("cache") /\ UNCHANGED <<options, snapshot, store, values, errptr>>
leveldb_cache_destroy ==
  /\ Unused("cache") /\ Destroy("cache")
  /\ UNCHANGED <<options, snapshot, store, values, errptr>>
leveldb_create_default_env ==
  New("env") /\ UNCHANGED <<options, snapshot, store, values, errptr>>
leveldb_env_destroy ==
  Destroy("env") /\ UNCHANGED <<options, snapshot, store, values, errptr>>

-----------------------------------------------------------------------------
Init ==
  /\ heap = [b \in Blocks |-> IF b = Rep("env") THEN 1 ELSE 0]
  /\ mine = {} /\ options = {} /\ snapshot = FALSE /\ store = {}
  /\ values = 0 /\ errptr = "NULL"

Calls ==
  \/ \E s \in Status, logged \in BOOLEAN : leveldb_open(s, logged)
  \/ \E s \in Status : Update(s) \/ Maintain(s)
  \/ \E s \in Status : leveldb_iter_get_error(s)
  \/ \E s \in Status \cup {"NotFound"} : leveldb_get(s)
  \/ \E known \in BOOLEAN : leveldb_property_value(known)
  \/ leveldb_close \/ leveldb_free \/ ClearError
  \/ leveldb_create_iterator \/ leveldb_iter_destroy
  \/ leveldb_create_snapshot \/ leveldb_release_snapshot
  \/ leveldb_writebatch_create \/ leveldb_writebatch_destroy
Objects ==
  \/ leveldb_options_create \/ leveldb_options_destroy
  \/ \E k \in Pointers : leveldb_options_set(k)
  \/ leveldb_comparator_create \/ leveldb_comparator_destroy
  \/ leveldb_filterpolicy_create \/ leveldb_filterpolicy_create_bloom
  \/ \E k \in Policies : leveldb_filterpolicy_destroy(k)
  \/ leveldb_readoptions_create \/ leveldb_readoptions_destroy
  \/ \E set \in BOOLEAN : leveldb_readoptions_set_snapshot(set)
  \/ leveldb_writeoptions_create \/ leveldb_writeoptions_destroy
  \/ leveldb_cache_create_lru \/ leveldb_cache_destroy
  \/ leveldb_create_default_env \/ leveldb_env_destroy
Next == Calls \/ Objects

-----------------------------------------------------------------------------
(* Every block is freed once: at any time there are those of the handles    *)
(* the client has, of the strings it has not freed, the one message that    *)
(* *errptr points to, and what the open store made for itself.              *)
NothingLeaks ==
  heap =
    [b \in Blocks |->
       CASE b = Message -> IF errptr = "NULL" THEN 0 ELSE 1
         [] b = Value -> values
         [] b = Rep("env") -> 1
         [] b \in {Own(k) : k \in Defaults} -> IF b \in store THEN 1 ELSE 0
         [] OTHER -> IF \E k \in mine : b \in {Handle(k), Rep(k)} THEN 1 ELSE 0]

(* What an open store uses is alive whatever handles are destroyed, options *)
(* and environment included.                                                *)
StoreUsesTheLiving ==
  \A b \in store : heap[b] = 1
=============================================================================
