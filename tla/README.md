# A TLA+ model of FirabaseDemo

FirabaseDemo is an iOS app that keeps members, friendships and posts in a
Firebase Realtime Database. Its Swift code (`FirabaseDemo/FirabaseDemo`) is a
set of screens over one class, `FirebaseManager`; the Firebase client library
(`FirabaseDemo/Pods/FirebaseDatabase`, Objective-C) is vendored in source form
and does all the talking to the server.

Under the client library's optional persistence lies a vendored LevelDB
(`FirabaseDemo/Pods/leveldb-library`, C++), and the pods bring the protocol
buffer codec nanopb (`FirabaseDemo/Pods/nanopb`, C). These two are most of the
source there is in the repository.

This directory holds TLA+ modules for the app's account and friendship logic,
for the screen that shows the friend list, for its posts, for the library's
persistent connection and its pending writes, for LevelDB, as a whole and part
by part, and for nanopb; TLC configurations that check them on small instances; and
machine-checked proofs, for all values of their constants, about the accounts,
the friend list and the persistent connection, about LevelDB as a whole, which
is proved to implement an abstract store, and about two of its parts.

| file | what it is |
|---|---|
| `Members.tla` | accounts and friend links: any number of devices, one server tree |
| `MCMembers.tla`, `MCMembersAccounts.cfg`, `MCMembersFriendship.cfg` | its two runs |
| `Members_proofs.tla` | theorems about `Members`, for all constants |
| `FriendList.tla` | the table of `ProfileViewController` and the callbacks that fill it |
| `MCFriendList.tla`, `MCFriendList.cfg` | its run |
| `FriendList_proofs.tla` | theorems about `FriendList` |
| `PersistentConnection.tla` | `FPersistentConnection` with the connection and retry timer it drives |
| `MCPersistentConnection.tla`, `MCConnection*.cfg` | its passing run and two runs that end in a counterexample |
| `PersistentConnection_proofs.tla` | theorems about `PersistentConnection` |
| `WriteTree.tla`, `Transactions.tla` | the client's pending writes as operators; the repo's sets, updates and transactions over them |
| `KVStore.tla` | what LevelDB promises its callers: the abstract specification |
| `Versions.tla`, `LevelDB.tla` | levels and compactions as operators; `DBImpl` and `VersionSet`, shown to implement `KVStore` |
| `MCLevelDB.tla`, `MCLevelDB*.cfg` | three runs of `LevelDB` that end in a counterexample |
| `MCStore.tla`, `MCStore.cfg` | its passing run |
| `LevelDB_proofs.tla` | theorems about `LevelDB`: types, tables, reopening |
| `Durability_proofs.tla` | theorems about `LevelDB`, continued: nothing promised is lost, and the store implements `KVStore` |
| `LogFile.tla`, `Encoding.tla`, `Table.tla` | what LevelDB's files hold: logs, the encodings in them, sorted tables |
| `Iterators.tla`, `LevelFiles.tla`, `SkipList.tla` | how they are read: iterators, the files of a level, the memtable's list |
| `Cache.tla`, `VersionRefs.tla` | what is shared and counted: the LRU cache, versions and their files |
| `FileLock.tla`, `BackgroundQueue.tla`, `OpenFiles.tla`, `DescriptorFiles.tla` | what the POSIX environment does for the store |
| `Repair.tla` | `RepairDB` |
| `Checksum.tla`, `Checksum_proofs.tla` | the checksum of what is in the files, and theorems about it |
| `Arena.tla`, `Arena_proofs.tla` | the memory of a memtable, and theorems about it |
| `CBinding.tla`, `Status.tla` | who owns what: the client of the C binding, and statuses |
| `PosixLogger.tla`, `Histogram.tla`, `DumpFile.tla` | the info log, the histogram and the dump of a file |
| `Nanopb.tla` | nanopb's encoder and decoder |
| `Posts.tla` | the app's posts: writing one, the queries and the lists their callbacks fill |
| `MCParts.tla`, `MCParts.cfg`, `MCPartsDropped.cfg` | one run of the twenty-two modules from `LogFile` to `Posts` and of `Transactions`, and one of `Transactions` that ends in a counterexample |
| `SequenceFacts.tla` | lemmas about sequences and numbers that several proofs cite |
| `PROJECT.json` | runs, mutants, source lines of every definition, findings, hazards, theorems |

To check: `tlc -config MCMembersAccounts.cfg MCMembers` and so on;
`tlapm Members_proofs.tla` and so on for the proofs. Definitions with a name of the form
`Operation_WhatIsWrong` and a comment starting with "Mutant" are deliberately
wrong versions of the definition after them. They are used nowhere; putting one
in the place of its original makes a property fail, which shows that the
property looks at that code. `PROJECT.json` names one for each property; the
properties of `MCParts` are conjunctions, and the modules of the parts keep a
mutant for nearly every conjunct.

## 1. Inventory

Paths: `A/` is `src/FirabaseDemo/FirabaseDemo/`, `D/` is
`src/FirabaseDemo/Pods/FirebaseDatabase/Firebase/Database/`, `L/` is
`src/FirabaseDemo/Pods/leveldb-library/`.

### The app

**Accounts and friend links** (`A/FirebaseManager.swift`,
`A/UserManager.swift`, `A/LogInViewController.swift`,
`A/SearchViewController.swift`).
*State:* the key and the email of the account in `UserDefaults`; the search
label and its Add Friend button; and, shared by all installations, the tree
`/member/<key>/{user_email, user_name, friend/<key>/invite_status}`.
*Operations:* sign up, log in, search a member, invite, accept, delete.
*Interaction:* every operation is a query whose callback runs later and then
writes, or a write from a button. There is no server-side logic: each device
writes both halves of a friendship itself.
*Hard:* what a query answered is old when its callback runs; a device reads
the server under its own pending writes; a write is sent again after a lost
connection although the server has it; deletion is two writes; a killed app
loses its queue but not its `UserDefaults`; the account may change while
callbacks and rows of the old one are still around.
*Correct means:* the two halves of a friendship never contradict each other,
nobody befriends himself, a member somebody is linked with exists, a valid
friendship was wanted by both, a deletion arrives.

**Friend list** (`A/ProfileViewController.swift`,
`A/TabBarViewController.swift`, `getFriends`, `searchMember(userKey:)` and
`observeFriend` of `A/FirebaseManager.swift`).
*State:* the array `friends` and the table drawn from it.
*Operations:* `viewDidLoad`, `updateFriendList` on each notification, and the
callbacks of three queries per refresh and one per row, taps on a row.
*Hard:* refreshes overlap and share one array; the table is redrawn only by the
last row of an answer; the buttons carry an index into the array.
*Correct means:* a tap acts on the member on the screen; an undisturbed refresh
shows the truth; the list catches up when changes stop.

**Posts** (`A/PostViewController.swift`, `A/AddViewController.swift`,
`getAllPosts`, `queryPost`, `addPost`). The table of posts and queries by tag
or author.
*State:* the nodes under `/posts`; per screen the list its table shows.
*Hard:* each selection asks a query of its own, and the answer to an earlier one
may fill the table after a later one.
*Correct means:* a list whose newest query was answered last holds exactly the
posts asked for.

**Layout** (cells, storyboards): nothing to model.

### The library

**Persistent connection** (`D/Core/FPersistentConnection.m`).
*State:* the connection state, reasons for interruption, the token and
whether it must be refreshed, listens, outstanding writes, write answers held
back, queued onDisconnect operations, the number of unanswered listens.
*Operations:* calls of the repo (listen, unlisten, put, onDisconnect, purge,
interrupt, resume, new token), and callbacks (retry timer, token, handshake,
socket loss, shutdown, wake-up, every message of the server).
*Interaction:* one serial dispatch queue runs all of it and the repo's code.
*Hard:* callbacks of an older attempt, messages for an older listen, answers
that come while something else is unanswered, resending after a reconnect.
*Correct means:* an interrupted client stays offline, any other comes back,
client and server agree on the listens, writes arrive in order and complete
once, a transaction is never sent twice.

**Realtime connection** (`D/Realtime/FConnection.m`,
`FWebSocketConnection.m`): handshake, host, control messages, frames,
keep-alive. What the persistent connection sees of it is in its module.

**Retry helper** (`D/Core/Utilities/FIRRetryHelper.m`): one scheduled block,
exponential delay with jitter.

**Repo** (`D/Core/FRepo.m`): hands writes to the write tree and the connection,
applies server data to the sync tree, keeps `/.info`, onDisconnect values, and
a tree of transaction queues. *Hard:* transactions that run, are sent,
overridden, aborted and run again. *Correct means:* every transaction completes
once, with the value that was committed.

**Write tree** (`D/Core/FWriteTree.m`, `D/Snapshot/FCompoundWrite.m`): pending
writes layered over server data. *Correct means:* after any acknowledgements
and reverts, what is visible is the remaining writes applied in order.

**Sync tree and sync points** (`D/Core/FSyncTree.m`, `FSyncPoint.m`): which
queries share a listen, tags, events when data arrives. *Correct means:* every
query is covered by exactly one listen or a listen above it.

**Persistence** (`D/Persistence/*`): tracked queries, pruning, and nodes laid
over a LevelDB store. The app never turns it on.

**Views, events** (`D/Core/View/*`, `D/FViewProcessor.m`,
`D/FEventGenerator.m`), **snapshots, paths, push ids, sorted dictionaries**
(`D/Snapshot`, `D/Core/Utilities/FPath.m`, `D/Utilities/FNextPushId.m`,
`D/third_party/FImmutableSortedDictionary`): data structures without
concurrency.

**Public API**, **SocketRocket**, **the other pods**: argument checks, a socket
library, analytics and binaries.

### LevelDB

**The store** (`L/db/db_impl.cc`, `L/db/version_set.cc`).
*State:* on disk the logs, tables, descriptors and `CURRENT`; in memory the
memtable and the one being written out, the queue of writers, the current
version and the older ones in use, the outputs under way, snapshots, the error
that stops everything.
*Operations:* write, get, iterate, snapshot, compact a range, open, close; one
background thread flushes, merges and deletes.
*Interaction:* one mutex, released while a log is written, a table is built or
the descriptor is synced; a condition variable per waiting writer and one for
the background thread.
*Hard:* all that changes while the mutex is released; a stop between any two
writes to disk; steps that fail; the invariants between levels that every
choice of a compaction's inputs has to keep.
*Correct means:* a reader at a sequence number sees exactly the writes up to it;
a group is applied whole, once, in order; synced writes survive a machine that
stops and answered ones a process that stops; levels above 0 are disjoint and
newer entries are above older ones; no table in use is deleted; every caller
returns.

**Logs and encodings** (`L/db/log_*.cc`, `version_edit.cc`, `write_batch.cc`,
`filename.cc`, `L/util/coding.cc`), **tables** (`L/table/*`), **checksums**
(`L/util/crc32c.cc`, `L/port/port_posix_sse.cc`). Formats with
boundaries: a record that ends just before a block does, keys stored by their
difference, numbers that overflow, damage; a checksum that is computed in two
ways, by four tables and by the processor. *Correct means:* what was
written is read back, and what was not is noticed or stays in its block; both
ways give the same checksum wherever the bytes lie.

**Iterators, level reads, memtable** (`L/table/merger.cc`, `L/db/db_iter.cc`,
`L/table/two_level_iterator.cc`, `L/db/skiplist.h`, `L/util/arena.cc`). *Hard:*
changes of direction, entries hidden by others, writes under the iterator's
feet, a list read without a lock, nodes cut from shared blocks. *Correct means:*
the snapshot, in order, whole, and no node over another.

**Caches and references** (`L/util/cache.cc`, `L/db/table_cache.cc`,
`VersionSet`'s lists). *Hard:* the count that decides that something is freed.

**Environment** (`L/util/env_posix.cc`): the lock of the database, the
background queue, limits on mappings and descriptors, durability of files and
names. **Repair** (`L/db/repair.cc`): rebuilds a store without a descriptor,
and may be stopped and run again.

**C binding, statuses, info log, histogram, dumps** (`L/db/c.cc`,
`L/util/status.cc`, `posix_logger.h`, `histogram.cc`, `L/db/dumpfile.cc`).
*Hard:* who frees what a client, a store or a copy still uses; a line that does
not fit the first buffer; buckets at their limits; damage in the middle of a
file. *Correct means:* everything is freed once and after its last use, a line is
whole up to the size of the larger buffer, a merged histogram is that of all its
values, a dump has what can be read and says where damage is. **Hashes, default
options, test support**: no state.

### nanopb

`pb_encode.c`, `pb_decode.c`, `pb_common.c`: encodes structs by a table of
fields and decodes bytes from anywhere into structs of fixed room.
*Hard:* lengths inside lengths, arrays that fill up, required fields, oneofs
and extensions, bytes that end anywhere. *Correct means:* nothing is written
past its room, a message is read back as it was, a cut one is refused.

### How they fit

A screen calls `FirebaseManager`, which calls the public API,
which posts a block to the database's serial queue; there the repo updates
write tree and sync tree and calls the persistent connection; the events go
back to the app on the main queue.

With persistence on, the repo's persistence manager
would write nodes through `FLevelDBStorageEngine` to one LevelDB store; inside
it `LevelDB.tla`'s actions call what the modules of the parts describe one by
one. nanopb stands alone.

`PROJECT.json` lists 40 hazards at their lines, most with the property that
would notice, the others with the reason nothing covers them yet.

## 2. The modules and the code

### Members

One copy of the per-device variables for each `Device`, one server tree `db`.

| variable | code |
|---|---|
| `db` | `/member/<key>/user_email` and `/member/<key>/friend/<key>/invite_status` on the server |
| `userKey`, `userEmail` | the two `UserDefaults` entries of `UserManager` |
| `outbox`, `applied` | the library's outstanding writes, and how many of them the server has applied on this connection without the client knowing |
| `asked`, `inbox` | queries under way, and answered queries whose callback waits on the main queue |
| `label`, `canAdd` | the search result and the state of its button |
| `shown` | rows the friend table may show, each right at some moment since launch |

Actions: `EnterClick` (`enterClick`), `SignUp` and `LogIn` (the callbacks of
`signUpUser` and `logInUser`), `SearchClick`, `SearchResult`,
`AddFriendClick`, `AddFriend` (the callback inside `addFriend`), `Refresh`,
`YesClick` (`yesButtonClicked`, `confirmFriend`), `NoClick`
(`noButtonClicked`, `deleteFriend`: two writes, each applied on its own).
`Answer`, `Deliver`, `Ack` and `Reconnect` are the library and the server as the
app meets them; `Kill` ends the app.

Points where the model follows the code closely:

* A query is answered from the server's tree under the device's own pending
  writes (`SeesStatus`, `SeesEmail`), because the library applies a write
  locally at once.
* `setValue` at `/member/k` replaces the whole node: `Apply` removes the
  friends below it. `updateChildValues` is one atomic write of both halves.
* `LogIn` takes any matching key, as `allKeys[0]` does; duplicates of an
  address are reachable, since nothing in the code prevents them.
* The dictionary literals in `addFriend` and `confirmFriend` have two keys; with
  two equal keys a Swift dictionary literal traps. `YesClick` on oneself is
  therefore a relaunch; that `AddFriend` never gets there is
  `AddNeverTargetsSelf`.
* `SignUp` enqueues the write and sets `UserDefaults` in the same callback, so
  a key may outlive the queued write (`lost`).

`lost`, `switched`, `invited`, `accepted` and `strays` are history variables:
no guard reads them, only properties do.

Abstracted: the user's name, which the tree always gets with the email; push
ids as fresh members of `Key`; the refresh of the table, which `FriendList`
models in detail. The library is assumed to send the writes of one device in
order, and to send unacknowledged ones again; `PersistentConnection` is
where this is checked (`ReceivedInOrder`, `PutsAreSettled`).

### FriendList

One device, whose user was logged in when the app started: only then does
`TabBarViewController` observe that user's links. The main queue is
`inbox`, in which notifications, answers of `getFriends` and answers of
`searchMember` take their turn. `friends` is the controller's array, `drawn` the
rows of the table as it was last reloaded (`reloadData` is taken to redraw
before the next tap). `links` is what the device sees of its user's
friend node, `ghosts` are members without a profile.

Three facts of the library matter and are modelled from its source:
`getFriends`'s queries are covered by the observed node and answered from
there, in the order asked; a query on a member's node starts a listen unless a
view for the same query exists (`addEventRegistration` in `FSyncTree`), and
then shares its answer; and a view lasts until the callback of the
single-event observer ran (`observeSingleEventOfType`), so a member can be
answered from a `Cached` view at once. `want.last` is the `complete` flag that
`getFriends` computes from the index.

`Members` does not refine into `FriendList` or the reverse: `Members.Refresh` is
weaker on purpose (any row that was ever right since the launch may be on the
screen), so what `Members` shows holds whatever order the callbacks of
`FriendList` run in.

`setProfile`, which sets the labels of the user's own name and email, is left
out: nothing reads them.

### PersistentConnection

An action is one block of the library's serial queue. `state`, `interrupts`,
`retry`, `attempt`, `authToken`, `force`, `listens`, `unacked`, `puts`,
`putsToAck`, `odQueue` are the instance variables of `FPersistentConnection`
(names in the module); `posted` counts the blocks `onReady` has dispatched to
tell the repo; `connected` and `writes` are `/.info/connected` and the ids in
the repo's write tree. `up` and `down` are the two directions of the socket.
`holding`, `denied`, `minToken` belong to the server and `cached` to the token
provider; they are external, modelled from what the client sends them and what
it does with each answer. The server's rules only ever become stricter
(`denied` grows), which keeps the state space finite and leaves out nothing the
client tells apart.

`FConnection` is folded in: closing calls the delegate's `onDisconnect` before
it returns, so `Interrupt` and `TokenRejected` contain all of `OnDisconnect`:
cancelling sent transactions, forgetting the requests under way, scheduling the
retry. `RestoreState` sends the listens in any order (they come from a
dictionary), the puts in the order of their index, then the queued onDisconnect
operations. `puts` is the dictionary `outstandingPuts`: a set of writes, each
with its index.

A listen is identified by a number, as `FOutstandingQuery` objects are by
identity: `ListenResponse` removes a refused listen only if the query still has
the listen the answer is for.

`Transactions` has the other side of these calls. Left out: statistics,
warnings, the delays between retries, hashes and data
pushed for listens, merges as opposed to sets, and the contents of onDisconnect
operations.

### WriteTree and Transactions

`WriteTree` holds the data structure as operators: `all` is `allWrites`,
`visible` the compound write `visibleWrites`, kept by `AddToTree` and
`RemoveWriteId` (with the rebuild when a write that others overlap goes), and
read by `CompleteNode`, `EventCache` and their companions. A node is the
function from the paths of its leaves to their values.

`Transactions` is the repo on its serial queue. An action is one handler with
all the reruns, aborts and overrides it makes:

| actions | code |
|---|---|
| `Write` | `set:withNode:`, `update:withNodes:` |
| `StartTransaction` | `startTransactionOnPath:` |
| `Answer` | the callbacks of a put: "ok", "datastale", refused |
| `DataUpdate` | new data of the server that reruns transactions |
| `Disconnect`, `Connect` | a lost connection, which fails the transactions that were sent; puts are sent again |
| `Purge` | `purgeOutstandingWrites` |

They share `ApplyUserWrite` and `AckUserWrite` (the write tree),
`SendAllReady` (`sendAllReadyTransactions`), `Rerun` with `RerunOne`
(`rerunTransactionsForPath`), `Abort` with `AbortNode`
(`abortTransactionsAtPath`, `abortTransactionsAtNode`) and `RunAnswered` (the
callback of `sendTransactionQueue`). `Overlay` is the reference: the pending
writes laid over the server's data one after the other. Views (`Seen`), their
parts, and the data a transaction's block gets are compared with it.

The code is known to go wrong in four ways, which `marks` names when they
happen; but for `dropped`, which is a finding, the model goes no further then:

* `hidden`: a rebuild makes a transaction's hidden write visible, against the
  comment at FWriteTree.m:397;
* `unnoticed`: a write is removed beside another of overlapping paths without a
  rebuild;
* `dropped`: a transaction already marked for abort loses its queue unanswered;
* `mutated`: a dictionary of queues is changed while it is enumerated
  (FTree.m:90-94).

Not modelled: values of priorities, merges above the root of a layer, which
`FCompoundWrite` misreads (`Misread`), events (FRepo.m:933 posts none for a
transaction without local events), and a leaf of the server above a pending
write, which the instance leaves out.

### Posts

`posts` is the tree under `/posts`, `screen` what the board and the search
screen show, `asked` the queries under way. `addPost` writes a post, the segments
and the search button ask queries, and the callback of each fills its list; a query may
be answered at any later time and in any order, which allows more than the
library does: it raises the events of queries on one node in turn. The author
may be logged out, and a member not found hides the list of the search screen.
`newest` and `shown` are history variables, `asks` counts queries against their
bound. Times and texts of a post are left out.

### LevelDB, Versions and KVStore

An action of `LevelDB` is what one thread does between taking `mutex_` and
releasing it, or one piece of work it does unlocked. The variables carry the
names of `DBImpl`'s and `VersionSet`'s members in short form (`vs`, `lognum`
for `logfile_number_`, `queue` for `writers_`, `bg` for the background
thread's place in `BackgroundCompaction`, `manual` for the caller of
`TEST_CompactRange`); `logs`, `tables`, `manifests` and `curfile` are the disk.

| actions | code |
|---|---|
| `Write`, `WriterStep` with its parts, `SwitchFails`, `AppendFails`, `SyncFails` | `Write`, `MakeRoomForWrite`, `BuildBatchGroup`, `AddRecord`, `Sync`, `InsertInto`; the NULL batch of `TEST_CompactMemTable` |
| `Background`, `BackgroundFails` | `BackgroundCall`, `CompactMemTable`, `DoCompactionWork`, `InstallCompactionResults`, `LogAndApply`, `DeleteObsoleteFiles` |
| `Compacting` | `CompactRange`, `TEST_CompactRange` |
| `Reading` | `Get`, `GetSnapshot`, `ReleaseSnapshot`, `UpdateStats` |
| `Stopping`, `Opening` | `~DBImpl`, the process killed, the machine stopped, or the process ended by `BackgroundCompaction` itself (`NullRange`); `DB::Open`, `Recover`, `RecoverLogFile` |

`Versions` holds the pure part: `Version::Get`, `PickLevelForMemTableOutput`,
`GetOverlappingInputs`, `PickCompaction`, `SetupOtherInputs`, `CompactRange`,
and what a merge drops and where it cuts its outputs. A file's size is its
number of entries, an entry's value is its sequence number. A merge writes one
output at a step, before each of which a flush may come, and then installs them
all.

The caller of `TEST_CompactRange` gives up when there is an error, and sets
`manual_compaction_` to NULL (db_impl.cc:615-618) although the background thread
may be merging its range with the mutex released (`RangeLost`). When that merge
is over `BackgroundCompaction` uses the pointer (757-768). This is undefined
behaviour, taken here as what a build does with it: the process ends
(`NullRange`), with the descriptor already written if the merge got there.

A descriptor is the sequence of the states it may be read back as, the synced
one first. `Recover` is as many steps as the code has disk operations: the
state, each log, each table a log fills, and the new descriptor.

What was written without a sync is on disk or not after a stop of the
machine: the prefix that survives is chosen by `PowerLoss`. `Kill` loses
nothing the process handed to the kernel.

`KVStore` is the promise: calls, groups of batches begun, committed, failed or
refused, and crashes that may lose what was not synced and keep what was begun.
`LevelDB` maps its `applied`, `limbo` and `durable` to it and its `group` to the
write under way.

### The parts

Each module of a part stands alone and says in its head what it models. They
abstract data to what the code's branches tell apart: a log is a sequence of
cells of which a header is one, with the payload its checksum was computed from;
a table's blocks are their entries and restart points; a byte of a varint is a
digit of `Bits` bits and a continuation bit, with `W32` and `W64` for the widths
of the integers, so that every overflow of the code happens in small; a
damaged entry is one whose type is above `kTypeValue`.

| module | steps | what can go wrong meanwhile |
|---|---|---|
| `LogFile` | `AddRecord`; turns of `ReadRecord` from any initial offset | the file is cut, an append fails, a cell is damaged, a block cannot be read |
| `Encoding` | encode; decode, into used objects | a byte less, a byte replaced |
| `Table` | `TableBuilder::Add`; get and iterator calls | a block cannot be read |
| `Iterators` | turns of `DBIter`'s loops over `MergingIterator` | the memtable takes writes between any two |
| `LevelFiles` | calls of the concatenating iterator, `RecordReadSample`, `ApproximateOffsetOf`, `AddIterators` | a file cannot be opened |
| `SkipList` | each store of the writer, each load of a reader | stores reach memory late and out of order up to a barrier |
| `Cache` | each call of the shard by each thread, `TableCache::FindTable` in two | capacity, eviction and pruning between lookup and insertion |
| `VersionRefs` | references taken and dropped, `LogAndApply`, flush, merge, deletion | a failed descriptor, readers between any two |
| `FileLock`, `BackgroundQueue`, `OpenFiles` | system calls, items, `Limiter` calls | any interleaving |
| `DescriptorFiles` | each create, write, sync, rename and delete of `NewDB`, `SetCurrentFile` and `LogAndApply` | process or machine stops |
| `Repair` | each file of each phase | one step fails, a stop and a second run |
| `Checksum` | each turn of the loops of `Extend` and `AcceleratedCRC32C` | buffers of any length at any address, a processor without the instructions |
| `Arena` | each allocation | pieces that fit, do not fit, or have a block of their own |
| `CBinding` | each function of `c.cc`, with what it allocates and frees | errors, a store closed or an iterator kept in any order |
| `Status` | make, copy, assign, destroy | a status assigned to itself or copied from an OK one |
| `PosixLogger` | the attempts of `Logv`, one step each, by two threads | lines around the sizes of both buffers |
| `Histogram` | `Add`, `Merge`, `Clear`; `Percentile` | values on a limit and beyond the last |
| `DumpFile` | each record, edit or entry printed | damage, and an `Append` to the output that fails |
| `Posts` | a post, a query, an answer | answers in any order |
| `Transactions` | each call, each answer | lost connections, overlapping paths, overrides, refusals, stale data |
| `Nanopb` | one field of one (sub)message | the bytes are cut, a byte is changed, the buffer is too small |

`SkipList` orders stores by `AtomicPointer`'s barriers as `port/atomic_pointer.h`
places them: a release store waits for all stores before it, a
`NoBarrier_Store` for none.

`Checksum` keeps the numbers of the code: a word is the set of its bits that are
one, so that exclusive or is symmetric difference, and the four tables are
functions that equal the 1024 constants of crc32c.cc one by one. `ref` is the
same checksum taken bit by bit.

`MCParts` runs them side by side, not together: its initial states choose a
part, which then has the shared variables for itself.

## 3. The runs

All bounds are constants: in `Members` the number of clicks of each kind
(`Budget`), lost connections and kills; in `FriendList` the number of changes
and taps; in `PersistentConnection` how often each outside event happens
(`most`) and how many
happen in all (`total`), one of the records in `Budgets`; in `LevelDB` the last
sequence number and the number of stops (`MaxSeq`, `MaxStops`; a manual
compaction, whose merge may end the process, is asked for only while a stop is
left) and, in run `store`, the file number after which nothing fails any more
(`MaxNumber`, since a flush that fails within a merge is tried again at each of
the merge's keys); in the parts the
data that is written, read or opened. Deadlock is not checked: the
app and the store may have nothing to do, and bounded models stop when the
bound is spent.

| run | instance | states | properties |
|---|---|---|---|
| `accounts` | two devices, two keys, two addresses, one member at the start; every combination of devices logged in as it or freshly installed; one sign-up, log-in, search, invitation, acceptance; one lost connection, one kill | 243,553 | `TypeOK`, `ValidWasWanted`, `AddNeverTargetsSelf`, `GhostOnlyAfterKill` |
| `friendship` | two members on two devices; two searches, two invitations, one acceptance, one deletion; one lost connection | 117,501 | `PairConsistent`, `DeleteReachesBothSides` |
| `friendList` | two members, three starts (an invitation; the same from a ghost; a friend and an invitation); one change or tap | 1,405,564 | `TypeOK`, `TapMeansDrawnRow`, `CleanListIsRight`, `ListCatchesUp` |
| `connection` | a signed-in user and one query under one of three budgets, see below | 224,914 | `TypeOK`, `UnackedIsInFlight`, `ListensHeld`, `CompletedOnce`, `TransactionSentOnce`, `ReceivedInOrder`, `StaysOffline`, `InfoSeesConnection`, `Reconnects`, `PutsAreSettled` |
| `store` | two writers, a reader, two or three keys, up to six sequence numbers, four levels, in thirteen scenes, see below | 184,250 | `TypeOK`, `ReadsRight`, `TablesIntact`, `Reopens`, `LevelsStayDisjoint`, `NewerAbove`, `KVSpec`, `KillLosesNothing`, `CallsReturn` |
| `parts` | the twenty-three parts, see below | 663,918 | eleven conjunctions, one or two per part |
| `purge`, `heldAnswer`, `straddle`, `overlap`, `dropped`, `torn` | the few events it takes | | one violated property each, see section 5 |

What they show:

* **accounts**: a device that signs up or logs in while it already has an
  account, an app killed at every moment of a sign-up, and a sign-up that is
  sent again over links others made meanwhile. A member somebody is linked with
  has a profile unless its sign-up died with its app. That exception is needed:
  without it TLC finds a link to a member that does not exist. A valid
  friendship was wanted by both sides, except for pairs a device confirmed
  after it had changed account; that exception, too, is needed. The user's
  own key is never among the matches of an invitation, whichever account the
  session moves to while the search is under way. Friendships of three members,
  and account switches between three, are beyond the instance and covered by
  the theorems of section 4.
* **friendship**: two users invite each other at once, invite again after the
  friendship is valid, accept and delete across each other, each seeing its own
  writes first, with a lost connection at any point. Two members are all an
  invitation has; two invitations are the fewest that cross; after one
  acceptance and one deletion all four writes of a link have met each other in
  every order.
* **friendList**: one change besides the start is enough for overlapping
  refreshes, since `ObserveFriend` itself posts one notification per link and
  `viewDidLoad` asks a refresh of its own; two members are enough for an answer
  with a last and a not-last row.
* **connection**: three budgets, chosen in the initial state. *Listens*: two
  listens to one query, since an answer to an old listen needs two, one write
  that waits for them, a loss, a refusal and a revocation, up to five of these.
  *Writes*: two of them, for an order between them, a listen that holds their
  answers, one loss for resending and a purge. *Session*: any four of a write,
  an onDisconnect operation, an interruption, a loss, a shutdown, a wake-up, a
  failed fetch, a token change and a revoked token, at any point of a
  connection attempt.
* **store**: each scene lets some things happen together. One writer with
  overwriting puts and a synced batch under stops of the process and the
  machine, once and twice, with and without a reader holding a snapshot or a
  lookup; an orderly close; failing tables, descriptors, logs and syncs; failed
  appends, with no stop after them since `torn` shows what that loses; manual
  compactions of levels 0 to 2, and the same with failures, where a caller that
  gave up may end the process, which is then opened again; reads that wear files
  out; and two writers that form groups, alone, with failures and with a stop of
  the machine. Memtables hold one entry and level 0 asks for a compaction at two
  files, so four writes take entries through flush, merge and
  trivial move to level 2 and leave three versions of a key in different
  places. One scene has a third key and six sequence numbers: tables of keys 1
  and 3 are merged while the flush of key 2, which lies between them, chooses its
  level. The levels stay apart there, because the ranges of the inputs of an
  automatic compaction leave no gap and a flush that overlaps an input stays above
  the level that is written to.
  Every scene is checked against `KVStore`. `LevelsStayDisjoint` is
  `LevelsDisjoint` in the scenes without manual compactions, and `NewerAbove`
  holds where tables do not split a user key (`TargetFileSize`); runs `overlap`
  and `straddle` show that both fail without these restrictions.
* **parts**: records of 0, 1, 3 and 9 cells in blocks of 6 with headers of 2, so
  that a record ends exactly at a block's end, within a header of it, and over
  three blocks; tables of one to eight keys with one to three restart points
  per block, sought for keys before, between and after; structs of five shapes,
  in bytes of 3 bits and integers of 5 and 8, so that varints take one byte to
  one too many; edits of two fields, batches of two operations, names of four
  digits with a limit of 13; iterators over three children with versions,
  deletions and a damaged entry, and two writes meanwhile; a list of two keys
  and two levels with one reader; three cache keys of two threads at capacities
  0 and 2 with a hash table of 1 that must grow; two processes and three threads
  at one lock; four background items; four files with room for one mapping
  and one descriptor; two directories to repair with one failure and one stop;
  three layouts of levels; five files and two stops around the first
  descriptors; a reader, a merge and a flush over versions of two levels and three file
  numbers, so that a flush may be installed during a merge of two files;
  two buffers of 0 to 29 bytes at all eight addresses, so that every loop of both
  ways of taking a checksum turns not at all, once and several times; four
  pieces of up to more than half a block of sixteen bytes; a client of the C
  binding with four handles and one value; three statuses with messages of none
  to two pieces; two threads that log lines of lengths on both sides of buffers of
  four and seven; two histograms of up to three values in five buckets; a log,
  a descriptor and a table with damaged parts to dump; one tag, two members and
  an address nobody has, two posts and four queries; and a set at a path, a
  deletion below it, an update beside it and transactions at both, up to four
  writes and two transactions, with one lost connection.
  Each bound is the least at which every branch of the part's code is taken;
  coverage of every action is checked.

### Fairness

* `Members`: queries are answered, callbacks run, writes are delivered and
  acknowledged. The library answers while it is connected, the main queue is
  served, and losses are finite. Nobody has to click; nothing has to fail.
* `FriendList`: the same for `ObserveFriend`, the main queue and the two kinds
  of answer. Opening the tab, taps and changes are not fair.
* `PersistentConnection`: `dispatch_after` and `dispatch_async` run their block,
  the token callback is called, the handshake completes and messages
  arrive. The bounds on losses and failed fetches make the network stable in the
  end. No call of the app is fair, `goOnline` included, which is why
  `Reconnects` and `PutsAreSettled` have the way out `interrupts # {}`.
* `LevelDB`: a writer that holds the front of the queue and can go on does,
  the background thread that is scheduled runs (and, if its range was taken
  away, ends the process), and a manual compaction whose
  wait is over goes round its loop. These are threads of the operating system
  and a mutex nobody keeps; a thread that waits for a condition variable is not
  enabled until it is signalled, which is what `CallsReturn` is about. The weak
  fairness of the first two is written out (`[]<>~Ready \/ []<><<A>>_vars`) with
  what enables the thread stated, which spares TLC the ENABLED of a large
  action; deletion of files, snapshots, calls, failures and stops are not fair.

Weak fairness is enough everywhere: each fair action stays enabled until it, or
an action that replaces it, is taken.

## 4. What is proved

Every theorem holds for all values of the constants that the named assumptions
allow: any number of devices, members, queries, writers, keys, and any bound.
No fairness is used. Each invariant was checked with TLC before it was proved.

| module | theorem | statement |
|---|---|---|
| `Members_proofs` | `TypeCorrect` | `Spec => []TypeOK` |
| | `PairsConsistent` | `Spec => []PairConsistent` |
| | `NoSelfInvitation` | `Spec => []AddNeverTargetsSelf` |
| | `FriendshipsWereWanted` | `Spec => []ValidWasWanted` |
| | `GhostsAreLost` | `Spec => []GhostOnlyAfterKill` |
| `FriendList_proofs` | `TypesAreKept` | `Spec => []TypeOK` |
| | `TapsMeanDrawnRows` | `Spec => []TapMeansDrawnRow` |
| | `CleanListsAreRight` | `Spec => []CleanListIsRight` |
| `PersistentConnection_proofs` | `TypesAreKept` | `Spec => []TypeOK` |
| | `OfflineIsKept` | `Spec => []StaysOffline` |
| | `InfoIsRight` | `Spec => []InfoSeesConnection` |
| | `CountIsRight` | `Spec => []UnackedIsInFlight` |
| | `CompletionsAreSingle` | `Spec => []CompletedOnce` |
| | `TransactionsAreSingle` | `Spec => []TransactionSentOnce` |
| | `WritesAreInOrder` | `Spec => []ReceivedInOrder` |
| | `ListensAreHeld` | `Spec => []ListensHeld` |
| `LevelDB_proofs` | `TypesAreKept` | `Spec => []TypeOK` |
| | `TablesAreIntact` | `Spec => []TablesIntact` |
| | `StoreReopens` | `Spec => []Reopens` |
| `Durability_proofs` | `DurabilityIsKept` | `Spec => []Durability`, the invariant the others rest on |
| | `KillsLoseNothing` | `Spec => KillLosesNothing` |
| | `SyncedStays` | `Spec => []SyncedIsApplied` |
| | `PassedLogsAreStored` | `Spec => PassedIsStored` |
| | `StoreImplementsKV` | `Spec => KVSpec` |
| `Checksum_proofs` | `StepOneIsRight`, `StepFourIsRight` | a step of the code's tables is the reference step, once per byte and once per word |
| | `UnmaskUndoesMask` | for every word |
| | `ChecksumsAreRight` | `Spec => [](ChecksumIsOfAllBytes /\ MaskComesOff)` |
| `Arena_proofs` | `PiecesStayApart` | `Spec => []PiecesAreApart` |

`SequenceFacts` has the lemmas about sequences, sets and numbers that they
share.

### The arguments

**Members.** Assumptions: `NoneAssumption` (nil is neither a key nor an
address), `AccountsAssumption` (accounts at the start have known keys and
addresses; devices start logged in as one of them or not at all),
`BudgetAssumption` (bounds are naturals).

* `PairConsistent` is inductive together with `TypeOK`. A write touches
  both halves of a pair with agreeing values or removes one
  (`ApplyKeepsPairs`), whatever the state it is applied to, so repetition and
  interleaving do no harm.
* `AddNeverTargetsSelf` speaks of an answer waiting in the main queue; it
  needs to know that a key belongs to one address for good. `OwnersInv`:
  whatever a device can see for a key, in the tree or under its queue, is the
  address in `owner`, the session's key and address match, and a request
  of `addFriend` has an address other than the owner of its key.
* `ValidWasWanted` needs to see a friendship before it exists.
  `WantedInv`: every half of a link in the tree or in a queue, and every
  row of a table, has its invitation in the history; each `Confirm` in a
  queue its acceptance; rows of a device that has not changed account belong
  to the session's user.
* `GhostOnlyAfterKill` rests on the order of a queue. `KnownInv`: the ends
  of every queued link are known to the server, lost, or created by an earlier
  entry of the *same* queue; whatever another device sees is known to the server
  or lost. It is here that `Enqueue` appending at the end, `Reconnect` resending
  from the start and `Ack` removing only applied writes are all needed.

**FriendList.** Assumptions: `MemberAssumption` (finitely many members),
`LinkAssumption` and `BoundAssumption`. `Before` says what is empty until the
links are observed and the tab is opened. For `CleanListIsRight` the invariant
`CleanInv` follows each link through an undisturbed refresh: its query is still
to be answered, or it is in an answer that waits in the main queue, or its member
is being asked for, or its row waits in the main queue, or is in the array, and
only one of these; and the row that arrives last is the one that draws the
table.

**PersistentConnection.** Assumptions: `BoundAssumption`, `UserAssumption`,
`NoneAssumption`. The invariant is the conjunction of `Types` and

* `SessionInv`: fetches of a token have numbers of their own, an interrupted
  client has no timer and no connection, and nothing is in the socket or held by
  the server for a client that cannot listen;
* `UnackedIsInFlight` itself: the counter of unanswered listens is the number of
  messages about listens between client and server;
* `CompletionInv`: a write is outstanding, or its answer is held back, or it is
  complete, and only one of these;
* `AuthInv`: while the client authenticates there is one message under way that
  will restore the state, afterwards there is none, so it is restored once;
* `OrderInv`: puts are under way in the order of their numbers, nothing sent
  again overtakes one, and a transaction under way has not been received before;
* `HeldInv`: the last message about a query says what the client wants, or, for
  a query the server denies, its refusal is under way.

**LevelDB.** Assumptions: `LevelsAssumption`, `MemLevelAssumption` (a memtable
is put on a level there is), `RequestsAssumption` (a batch is a sequence). The invariant has the parts
`Shape` (types), `Recovering` and `Quiet` (what is empty while the store is
closed or being opened), `WInv` (the queue of writers: who is in it has a call
under way, each once; the group at the front is a prefix of the queue), and
`DInv`: `Stored` (every file of the current version and of every version a
reader, a merge or an edit names is on disk, numbered below the next number),
`Kept` (the outputs of a merge are safe from the deletion after a flush),
`Descriptors` (every state in which a descriptor may be read back names tables
that are there), `Fresh` (the number of a table under way names nothing else)
and `Current` (while no error is known the descriptor is at most the edit under
way ahead of the current version). `Reopens` and
`TablesIntact` follow from it although a table is written, the descriptor is
synced and files are deleted with the mutex released and a stop may come
between any two of these steps.

**Durability.** The same assumptions, and `Untorn`: no append leaves part of
a record in a log. This hypothesis is needed: run `torn` is the counterexample
to `KillLosesNothing` without it. All other faults, stops at any step, and
everything writers, readers, flushes and compactions do meanwhile are allowed for.
A group of writes is in one of three places: in its log, in a memtable, in a
table. What a stop may take away differs for each, and the code gives a log up
(`edit.SetLogNumber`) in another step than the ones that fill tables, so none of
the theorems is inductive. `Durability` joins to the invariant of
`LevelDB_proofs`

* `Disk`, which has to survive stops. `Logs`: logs hold whole records of numbered
  entries. `Present`: a group that was applied, or that a stop may bring back, is
  in its log unless the state read from the descriptor begins behind that log.
  `Promised`: a durable one is so in the part that was synced, for *every* state
  the descriptor may be read back as, since a stop of the machine may return an
  older one. `Marks`: such a state's last sequence number covers the logs it has
  passed, so that numbers are never given twice;
* `Work`, while the store runs. `Active`: numbers under way are below the next
  ones. `Memory`: a group whose log has not been passed is in the memtable, or in
  the one being written out if its log is an older one; this is what allows
  the end of a flush to pass the log. `Edits`: an edit that passes a log brings the
  table with the memtable's entries. `Writes`: the group at the front of the queue
  is the batches of its writers, numbered from the version's last number on,
  and a group with a synced write is a synced one;
* `Start`, while it is opened. `Replaying`: every record of a log that is to be read
  is in a table of the edit already, or still to be read, in this log or in a
  later one. `Settling`: the new descriptor names the new log and the last number.
  `Calm`: nothing is in doubt while the store does not run.

`KillsLoseNothing` follows from `Present`, `SyncedStays` from `Promised`, and
`PassedLogsAreStored` from `Memory`, `Edits` and `Replaying`. The refinement
shows for every action what its caller may observe: `Write` is the abstract
`Call`; `RefuseWrite`, `SwitchFails` and `NothingToWrite` are `Refuse`;
`AddRecord` and `SyncFails` are `Begin`, which is where the group's entries
become its batches one after the other (`Numbered`); `FinishWrite` is `Commit`
or `Fail`; `Kill`, `PowerLoss`, `Closed` and `NullRange` are `Crash`, where
`Present` and `Promised` say what comes back from the states that are left of
the descriptor (`StatesKept`); all other steps, among them every flush,
compaction and step of a recovery, change nothing a caller sees.

**Checksum.** Assumption: `ChecksumAssumption`. Both ways of the code reduce
to a step on one byte or one word. A step is linear over exclusive or, which is
symmetric difference of sets of bits, so it is decided by the single bits, and
those are compared with the tables. The invariant says after every turn
of every loop that what has been consumed has the reference's checksum, and that
the test of the processor's instructions runs before they are used.

**Arena.** Assumption: `ArenaAssumption`. `ArenaInvariant`: the free part of
the current block lies behind all pieces cut from it (`CurrentBlock`), so a new
piece is apart from the old ones.

### What is only model-checked

* Liveness (`DeleteReachesBothSides`, `ListCatchesUp`, `Reconnects`,
  `PutsAreSettled`, `CallsReturn`): fairness is beyond the prover.
* `LevelsStayDisjoint`, `NewerAbove` and `ReadsRight` of the run `store`:
  `LevelsDisjoint` and `NewerAbove` do not hold for all constants (section 5),
  only in scenes without manual compactions and without splitting tables.
* `KVSpec` of a store whose appends may leave part of a record: the run `store`
  has such appends, with no stop after them; the theorem excludes them.
* The parts run by `MCParts`, but for `Checksum` and `Arena`. `Encoding`,
  `Table` and `Nanopb` compute by recursion over data, whose induction is
  beyond the installed provers; the properties of the others
  (`NothingUnwritten` of `SkipList`, `HandlesAreAlive` of `Cache`,
  `HeldFilesStay` of `VersionRefs` and so on) are within their reach and not
  proved yet; the write tree and the repo's transactions
  (`ViewsAreRight` and the others) compute by folds over functions made with
  `:>` and `@@`, which is the same induction.

## 5. Where the code disagrees with itself

Each has a run that ends with TLC's counterexample.

* **`purge`, `AckFindsItsWrite`**. `FRepo purgeOutstandingWrites` empties the
  write tree (FRepo.m:370) and then has the connection report answers it held
  back; the acknowledgement of such an answer asks the write tree to remove a
  write that is gone, which FWriteTree.m:129 asserts never happens. It takes a
  write answered while a listen is not, and then the purge.
* **`heldAnswer`, `AnswersAreReported`**. An answer held back for a listen is
  dropped from sight when the connection is lost and no listen is left to be
  sent again: the completion block, "to be called after the write has been
  committed" (FIRDatabaseReference.h:105), is not called until some later
  listen is answered.
* **`straddle`, `NewerAbove`**. A merge may end an output file between two
  versions of one user key that a snapshot keeps apart. When a later manual
  compaction truncates its inputs (version_set.cc:1424-1437), or picks by user
  key, the file with the newer version goes down a level and the older one stays
  above it. `Version::Get` (version_set.cc:346) relies on "entries never hop
  across levels" and returns the older value. It takes one key, a snapshot and
  five writes.
* **`overlap`, `LevelsDisjoint`**. `DoCompactionWork` flushes the immutable
  memtable in the middle of a merge, and `PickLevelForMemTableOutput`
  (version_set.cc:502) knows only the current version. When the table's key
  lies between two inputs of a manual compaction of level 1, it goes to level 2,
  to which the merge is about to write, and the output overlaps it.
  `VersionSet::Builder::SaveTo` (version_set.cc:741) aborts on such a version; a
  build with `NDEBUG` goes on with it. It takes three keys and six writes: tables of
  the outer keys on both levels, and a flush of the inner one during the merge.
* **`dropped`, `EveryTransactionEnds`** (`EveryRunEnds` of `Transactions`).
  `abortTransactionsAtNode` keeps the sent transactions it marks now at the
  front of their queue; one that an earlier set, or an earlier child of the same
  update, has marked already is not counted, and with none counted the queue is
  cleared (FRepo.m:1102). Nobody finds that transaction again when its put is
  refused: its completion block, "triggered once the transaction is complete,
  whether it was successful or not" (FIRDatabaseReference.h:641), is not called
  and its write stays in the write tree.
* **`torn`, `KillLosesNothing`**. A failed `AddRecord` is answered with an error,
  but only a failed `Sync` stops further writes (db_impl.cc:1236). What reached
  the file of the failed record stays in the log, and later records, answered
  with OK, are written behind it at offsets that no longer agree with the
  blocks; after the process ends the reader drops them. options.h:194 promises
  that "if it is just the process that crashes [...] no writes will be lost even
  if sync==false".

Four further disagreements are stated as properties in the modules and were
found violated, but have no run of their own:

* `RevokedTokenIsRefreshed` of `PersistentConnection`. After a revoked token the
  client promises to "refresh the token later on reconnect"
  (FPersistentConnection.m:528). `tryScheduleReconnect` moves the promise into
  the block it schedules; coming to the foreground, or a network change, before
  that block ran schedules another one in its place, without the promise. The
  next attempt takes the cached token, is refused, and the one after it
  refreshes: the detour costs one round, and `Reconnects` holds.
* `NewStoreReopens` of `DescriptorFiles`: a store that was just made may not
  open after a power failure, because `NewDB` does not sync its descriptor.
* `OneHolder` of `FileLock`, against env.h:112: a refused `LockFile` closes a
  descriptor of the locked file, by which POSIX drops the lock of the whole
  process, so that a second process gets it.
* `NewestIsFound` of `Repair`: a repaired store may show an older version of a
  key, since the numbers it gives converted logs are newer than those of tables.

One needs no property, since the model has a step for it: `NullRange` of
`LevelDB`, the process that ends because `TEST_CompactRange` took its range away
from a merge in progress (db_impl.cc:615 and 757). Its comment says "Cancel my
manual compaction since we aborted early for some reason", but the compaction is
not cancelled. `CallsReturn` therefore says that a call returns *or* ends with
the process.

Other things the models make visible, which no line of the repository denies and
which are therefore not findings: two members can get the same address; links
to a member without a profile exist after a kill; accepting a row after
changing accounts befriends the wrong account; overlapping refreshes show a
friend twice; a row may be missing from the screen when the last member of an
answer has no profile; `/.info/connected` can stay true after a connection was
lost before its `onReady` block ran; a rebuild of the write tree shows a
transaction's hidden write, a removed write may leave what another put at an
overlapping path, and a dictionary is changed while it is enumerated (`hidden`,
`unnoticed`, `mutated` of `Transactions`); the repairer reads logs
without checksums although its comment (repair.cc:189-192) says it
"intentionally" makes the reader do them; it
archives a table before the copy of it is finished; `LRUCache::Release` never
evicts, so usage may stay above capacity; an eviction between opening and
inserting leaves an entry for a deleted file; a write whose batch is damaged in
the middle is applied up to the damage; the concatenating iterator passes over
a block it cannot read and only `status()` tells; a damaged entry with the
snapshot's own sequence number is passed over unnoticed by a seek; nanopb takes
a message cut within the first tag byte as ended, and a second occurrence of a oneof's
submessage replaces the first where the protocol would merge them.

## 6. Plan

In this order:

1. **Proofs**: `OneHolderPerProcess` of `FileLock`, `LimitsAreKept` of
   `OpenFiles` and `NoItemIsLost` of `BackgroundQueue`, for any number of
   threads, files and items; `HeldFilesStay` of `VersionRefs`.
2. **SyncTree** (`FSyncTree.m`, `FSyncPoint.m`): which queries share a
   listen, tags, default views, removal; and on top of it the order in which the
   answers of `Posts` come, which it leaves open now.
3. **TrackedQueries** (`FTrackedQueryManager.m`, `FPersistenceManager.m`,
   `FCachePolicy.m`): active and complete queries, pruning, restart, on a
   store that keeps `KVStore`'s promise.
4. **Algorithms** of the Objective-C library, against reference definitions:
   the order of paths and keys (`FPath`, `FUtilities`), push ids
   (`FNextPushId`), retry delays (`FIRRetryHelper`), frames of the web socket.

### Not modelled

* In LevelDB: `reuse_logs` (off by default), `DestroyDB`, properties and
  statistics, compression beyond what it decides, hashing and sharding of the
  cache, the test support: no state that interleaves, or no state.
* In nanopb: `pb_release` and pointer fields, which need `PB_ENABLE_MALLOC` and
  are not compiled here, and callbacks that consume nothing, which loop for
  ever in `decode_callback_field` by their own fault.
* In the Firebase library: layout, the socket library, the public API's argument
  checks, the persistence engine's keys.
* The other pods: binaries, or code no state of the app depends on.
