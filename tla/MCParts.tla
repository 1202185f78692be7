------------------------------- MODULE MCParts -------------------------------
(***************************************************************************)
(* The parts that work on their own - the posts of the app, the pending    *)
(* writes of the database client and the parts of the LevelDB and nanopb   *)
(* libraries - each with small constants, checked in one run: the initial  *)
(* state picks the part, which then runs alone.  s1 to s9 are the          *)
(* variables of that part, in the order in which its module declares them. *)
(***************************************************************************)
EXTENDS Integers, Sequences, FiniteSets, SequencesExt, TLC

VARIABLES part, s1, s2, s3, s4, s5, s6, s7, s8, s9

vars == <<part, s1, s2, s3, s4, s5, s6, s7, s8, s9>>
Unused == "unused"

-----------------------------------------------------------------------------
(* Three records of up to nine cells in blocks of six.                      *)
Log == INSTANCE LogFile WITH
  kBlockSize <- 6, kHeaderSize <- 2, Lengths <- {0, 1, 3, 9}, MaxRecords <- 3,
  file <- s1, offset <- s2, written <- s3, damage <- s4, rd <- s5, got <- s6,
  drops <- s7

LogInit == Log!Init /\ s8 = Unused /\ s9 = Unused
LogNext == Log!Next /\ UNCHANGED <<s8, s9>>

-----------------------------------------------------------------------------
(* Keys are the bytes of a user key and a tag; tables of one to eight keys  *)
(* in blocks of one to four entries, of up to three restart points.         *)
TableContents ==
  {{<<0, 2>>, <<0, 1>>, <<1, 1, 2>>},
   {<<1>>, <<0, 1, 2>>, <<0, 2, 1>>, <<0, 1, 1>>, <<1, 0, 2>>},
   {<<1>>, <<0, 1>>, <<0, 2>>, <<0, 1, 2>>, <<0, 2, 1>>, <<1, 1, 2>>,
    <<1, 1, 1>>, <<2, 2, 1>>}}
TableTargets ==
  {<<1>>, <<3>>, <<0, 1>>, <<0, 3>>, <<0, 0, 2>>, <<0, 1, 2>>, <<0, 2, 1>>,
   <<0, 2, 2>>, <<1, 2>>, <<1, 0, 1>>, <<1, 1, 1>>, <<1, 1, 2>>, <<2, 1>>,
   <<2, 2, 2>>}
TableLayouts ==
  {[interval |-> 1, size |-> 9, filter |-> TRUE],
   [interval |-> 2, size |-> 9, filter |-> FALSE],
   [interval |-> 2, size |-> 5, filter |-> TRUE]}
KeyHash(u) == (7 * Len(u) + FoldLeft(LAMBDA a, b : 5 * a + b, 3, u)) % 16

Table == INSTANCE Table WITH
  MaxByte <- 2, MaxTag <- 3, FilterBase <- 8, BloomHash <- KeyHash,
  HashBits <- 4, BitsPerKey <- 2, MinBits <- 4, Probes <- 2,
  Contents <- TableContents, Layouts <- TableLayouts,
  Targets <- TableTargets,
  layout <- s1, todo <- s2, keys <- s3, builder <- s4, table <- s5,
  broken <- s6, it <- s7, asked <- s8

TableInit == Table!Init /\ s9 = Unused
TableNext == Table!Next /\ UNCHANGED s9

-----------------------------------------------------------------------------
(* Messages of every kind of field, in bytes of three bits.                 *)
Fld(tag, rule, t, size, array, sub) ==
  [tag |-> tag, rule |-> rule, type |-> t, size |-> size, array |-> array,
   sub |-> sub]
PbFields(m) ==
  CASE m = "leaf" ->
         <<Fld(1, "required", "uvarint", 4, 0, ""),
           Fld(2, "optional", "callback", 0, 0, "")>>
    [] m = "numbers" ->
         <<Fld(1, "required", "varint", 5, 0, ""),
           Fld(2, "singular", "varint", 8, 0, ""),
           Fld(3, "ext", "svarint", 4, 0, "")>>
    [] m = "arrays" ->
         <<Fld(1, "repeated", "uvarint", 4, 2, ""),
           Fld(2, "repeated", "string", 1, 2, ""),
           Fld(3, "optional", "fixedbytes", 2, 0, "")>>
    [] m = "nested" ->
         <<Fld(1, "optional", "message", 0, 0, "leaf"),
           Fld(2, "repeated", "message", 0, 2, "leaf"),
           Fld(3, "optional", "fixed32", 2, 0, "")>>
    [] m = "choice" ->
         <<Fld(1, "oneof", "uvarint", 5, 0, ""),
           Fld(2, "oneof", "message", 0, 0, "leaf"),
           Fld(3, "repeated", "fixed64", 3, 2, "")>>
Struct(m, a, b, c) == [m |-> m, v |-> 1 :> a @@ 2 :> b @@ 3 :> c]
Leaf(x, c) == 1 :> <<x>> @@ 2 :> c
PbMessages ==
  {Struct("numbers", <<a>>, <<b>>, <<-5>>) : a \in {-1, 3}, b \in {-100, 0}}
  \cup {Struct("arrays", a, b, << <<3, 9>> >>) :
          a \in {<<9>>, <<1, 15>>}, b \in {<<>>, << <<>>, <<4>> >>}}
  \cup {Struct("nested", a, b, <<144>>) :
          a \in {<<>>, <<Leaf(9, <<2>>)>>},
          b \in {<<>>, <<Leaf(1, <<>>), Leaf(0, <<3>>)>>}}
  \cup {Struct("choice", <<>>, <<Leaf(9, <<>>)>>, <<400>>),
        Struct("choice", <<17>>, <<>>, <<>>)}

Pb == INSTANCE Nanopb WITH
  GroupBits <- 3, W32 <- 5, W64 <- 8, Len32 <- 2, Len64 <- 3, WordBits <- 32,
  Fields <- PbFields, Messages <- PbMessages, BufferSizes <- {12, 40},
  MaxWobble <- 1,
  phase <- s1, sent <- s2, type <- s3, wire <- s4, harm <- s5, pos <- s6,
  stack <- s7

PbInit == Pb!Init /\ s8 = Unused /\ s9 = Unused
PbNext == Pb!Next /\ UNCHANGED <<s8, s9>>

-----------------------------------------------------------------------------
(* Bytes of two bits; edits of two fields, batches of two operations, names *)
(* of up to four digits.                                                    *)
UsedEdit ==   \* what VersionEdit::Clear leaves and replaces
  [t \in 1 .. 9 \ {8} |-> CASE t = 5 -> <<<<1, <<2>>>>>>
                            [] t = 6 -> <<<<0, 4>>>>
                            [] OTHER -> <<>>]
Code == INSTANCE Encoding WITH
  Bits <- 2, W32 <- 5, W64 <- 7, kNumLevels <- 2, Numbers <- {100},
  Strings <- {<<3>>}, Files <- {<<5, 17, <<1>>, <<2, 6>>>>}, MaxFields <- 2,
  UsedEdits <- {UsedEdit}, Keys <- {<<1>>, <<>>}, Values <- {<<6, 1>>},
  MaxOps <- 2, Radix <- 3, MaxNumber <- 13, Pad <- 2, MaxDigits <- 4,
  kind <- s1, edit <- s2, bytes <- s3, batches <- s4, name <- s5, harm <- s6,
  got <- s7

CodeInit == Code!Init /\ s8 = Unused /\ s9 = Unused
CodeNext == Code!Next /\ UNCHANGED <<s8, s9>>

-----------------------------------------------------------------------------
(* Two or three children with deletions, several versions of a key, and a   *)
(* damaged entry; two more entries are written while the iterator is used.  *)
Entry(key, seq, type) == [key |-> key, seq |-> seq, type |-> type]
ItSources ==
  {<<{Entry(1, 3, 1), Entry(2, 4, 0)},
     {Entry(1, 1, 0), Entry(2, 2, 1), Entry(3, 1, 1)}>>,
   <<{}, {Entry(1, 4, 1), Entry(3, 2, 1)}, {Entry(1, 1, 1), Entry(2, 3, 1)}>>,
   <<{Entry(2, 4, 1)}, {Entry(1, 3, 1), Entry(2, 2, 2)}, {Entry(2, 1, 1)}>>,
   <<{Entry(3, 4, 0)}, {Entry(2, 3, 0), Entry(3, 2, 1)}, {Entry(2, 1, 1)}>>}

Iter == INSTANCE Iterators WITH
  Keys <- {1, 2, 3}, Sources <- ItSources, MaxSeq <- 6,
  lists <- s1, lastSeq <- s2, sequence <- s3, m <- s4, d <- s5, loop <- s6,
  want <- s7

IterInit == Iter!Init /\ s8 = Unused /\ s9 = Unused
IterNext == Iter!Next /\ UNCHANGED <<s8, s9>>

-----------------------------------------------------------------------------
(* A writer inserts two keys while one reader searches.                     *)
List == INSTANCE SkipList WITH
  Keys <- {1, 2}, kMaxHeight <- 2, Readers <- {"r1"},
  mine <- s1, next <- s2, written <- s3, max <- s4, buffer <- s5,
  inserted <- s6, reader <- s7

ListInit == List!Init /\ s8 = Unused /\ s9 = Unused
ListNext == List!Next /\ UNCHANGED <<s8, s9>>

-----------------------------------------------------------------------------
(* Two threads, three tables, room for none or two; the hash table grows.   *)
KeyOfCache(k) == (2 * k) % 3
Cache == INSTANCE Cache WITH
  Keys <- {1, 2, 3}, Hash <- KeyOfCache, Threads <- {"t1", "t2"},
  Capacities <- {0, 2}, Charges <- {1}, FirstLength <- 1, MaxEntries <- 5,
  capacity <- s1, cache <- s2, thread <- s3

Idle4to9 ==
  s4 = Unused /\ s5 = Unused /\ s6 = Unused /\ s7 = Unused /\ s8 = Unused
    /\ s9 = Unused

CacheInit == Cache!Init /\ Idle4to9
CacheNext == Cache!Next /\ UNCHANGED <<s4, s5, s6, s7, s8, s9>>

-----------------------------------------------------------------------------
(* Two threads of one process and one of another open the same database.    *)
ThreadsIn(p) == IF p = "p" THEN {"p1", "p2"} ELSE {"q1"}
Lock == INSTANCE FileLock WITH
  Processes <- {"p", "q"}, ThreadsOf <- ThreadsIn,
  locked <- s1, owner <- s2, thread <- s3

LockInit == Lock!Init /\ Idle4to9
LockNext == Lock!Next /\ UNCHANGED <<s4, s5, s6, s7, s8, s9>>

(* Four pieces of background work. *)
Queue == INSTANCE BackgroundQueue WITH
  MaxItems <- 4, scheduled <- s1, queue <- s2, bg <- s3, ran <- s4

QueueInit == /\ Queue!Init /\ s5 = Unused /\ s6 = Unused /\ s7 = Unused
             /\ s8 = Unused /\ s9 = Unused
QueueNext == Queue!Next /\ UNCHANGED <<s5, s6, s7, s8, s9>>

(* Four files, one of which may be mapped and one be kept open. *)
Limits == INSTANCE OpenFiles WITH
  Readers <- 1 .. 4, MaxMmaps <- 1, MaxOpenFiles <- 1,
  mmaps <- s1, fds <- s2, file <- s3

LimitsInit == Limits!Init /\ Idle4to9
LimitsNext == Limits!Next /\ UNCHANGED <<s4, s5, s6, s7, s8, s9>>

-----------------------------------------------------------------------------
(* Two directories, with logs, tables, damaged and empty files; one step    *)
(* fails and the repairer is stopped once.                                  *)
File(kind, num, readable, ok) ==
  [kind |-> kind, num |-> num, readable |-> readable, ok |-> ok]
Put(key, seq) == [key |-> key, seq |-> seq]
RepairSources ==
  {{File("table", 5, {Put(1, 1), Put(2, 2)}, TRUE),
    File("log", 6, {Put(1, 3)}, TRUE),
    File("log", 8, {Put(1, 4), Put(3, 5)}, TRUE)},
   {File("table", 5, {Put(1, 1)}, FALSE), File("table", 6, {}, FALSE),
    File("table", 9, {Put(2, 3), Put(3, 2)}, TRUE),
    File("log", 8, {}, TRUE)}}
Repairer == INSTANCE Repair WITH
  Sources <- RepairSources, MaxStops <- 1, MaxFailures <- 1,
  dir <- s1, lost <- s2, manifest <- s3, run <- s4, failures <- s5,
  stops <- s6, source <- s7

RepairInit == Repairer!Init /\ s8 = Unused /\ s9 = Unused
RepairNext == Repairer!Next /\ UNCHANGED <<s8, s9>>

-----------------------------------------------------------------------------
(* Versions with and without overlapping files in level 0, two versions of  *)
(* a user key, and files that touch.                                        *)
Sst(num, keys) == [num |-> num, keys |-> keys]
LevelLayouts ==
  {<< <<Sst(7, <<2, 5>>), Sst(8, <<4, 9>>)>>,
      <<Sst(1, <<0, 3>>), Sst(2, <<8>>)>>, <<Sst(4, <<1, 6>>)>> >>,
   << <<>>, <<Sst(1, <<1>>), Sst(2, <<5, 7>>), Sst(3, <<8>>)>> >>,
   << <<Sst(3, <<1, 3>>)>>, <<>> >>}
Levels == INSTANCE LevelFiles WITH
  Layouts <- LevelLayouts, Targets <- 0 .. 10, PerUser <- 2,
  AllowedSeeks <- 1,
  files <- s1, broken <- s2, it <- s3, asked <- s4, allowed <- s5,
  to_compact <- s6

LevelsInit == Levels!Init /\ s7 = Unused /\ s8 = Unused /\ s9 = Unused
LevelsNext == Levels!Next /\ UNCHANGED <<s7, s8, s9>>

-----------------------------------------------------------------------------
(* A store is made and opened again over two stops, with five files.        *)
Descriptor == INSTANCE DescriptorFiles WITH
  MaxFiles <- 5, MaxStops <- 2,
  dir <- s1, disk <- s2, pending <- s3, data <- s4, db <- s5, opened <- s6,
  fresh <- s7, stops <- s8

DescriptorInit == Descriptor!Init /\ s9 = Unused
DescriptorNext == Descriptor!Next /\ UNCHANGED s9

(* A reader, a merge and a flush with up to three tables of two levels. *)
Refs == INSTANCE VersionRefs WITH
  Users <- {1}, kNumLevels <- 2, MaxFileNumber <- 3,
  vs <- s1, mt <- s2, held <- s3, compaction <- s4, saved <- s5,
  failed <- s6, manifest <- s7, tables <- s8, next <- s9

-----------------------------------------------------------------------------
(* A set, a deletion, an update and transactions at a path and below it, up *)
(* to four writes and two transactions, and a lost connection.              *)
UserWrite(p, d) == [path |-> p, data |-> d]
Run(p, leaf, apply) == [path |-> p, leaf |-> leaf, apply |-> apply]
WriteCases ==
  {UserWrite(<<1>>, <<>> :> (<<1>> :> 50 @@ <<2>> :> 51)),
   UserWrite(<<1, 1>>, <<>> :> [p \in {} |-> 0]),
   UserWrite(<<1>>, <<1>> :> (<<>> :> 53) @@ <<3>> :> (<<>> :> 54))}
RunCases ==
  {Run(<<1>>, <<1>>, TRUE), Run(<<1, 1>>, <<>>, TRUE),
   Run(<<1, 1>>, <<>>, FALSE)}
ServerCases ==
  {[p \in {} |-> 0], <<1, 1>> :> 60 @@ <<1, 2>> :> 61 @@ <<2>> :> 62}
Writes == INSTANCE Transactions WITH
  UserWrites <- WriteCases, Runs <- RunCases, MaxWrites <- 4, MaxRuns <- 2,
  MaxRetries <- 2, MaxDrops <- 1, Servers <- ServerCases,
  repo <- s1, online <- s2, drops <- s3

WritesInit == Writes!Init /\ Idle4to9
WritesNext == Writes!Next /\ UNCHANGED <<s4, s5, s6, s7, s8, s9>>

-----------------------------------------------------------------------------
(* Two buffers of up to 29 bytes, at any of eight addresses.                *)
ChunkOf(n) == [i \in 1 .. n |-> {b \in 0 .. 7 : (i * 37 + b * b) % (b + 2) = 0}]
Sums == INSTANCE Checksum WITH
  Chunks <- {ChunkOf(n) : n \in {0, 1, 3, 6, 17, 29}}, MaxCalls <- 2,
  sse <- s1, accelerate <- s2, pc <- s3, call <- s4, p <- s5, l <- s6,
  crc <- s7, ref <- s8

SumsInit == Sums!Init /\ s9 = Unused
SumsNext == Sums!Next /\ UNCHANGED s9

(* Pieces of up to more than half a block of sixteen bytes. *)
Memory == INSTANCE Arena WITH
  kBlockSize <- 16, align <- 4, PointerSize <- 4, Requests <- {1, 3, 4, 9},
  MaxPieces <- 4,
  blocks <- s1, alloc_ptr <- s2, alloc_bytes_remaining <- s3,
  memory_usage <- s4, pieces <- s5

MemoryInit ==
  Memory!Init /\ s6 = Unused /\ s7 = Unused /\ s8 = Unused /\ s9 = Unused
MemoryNext == Memory!Next /\ UNCHANGED <<s6, s7, s8, s9>>

ASSUME PartsAssumption == Sums!ChecksumAssumption /\ Memory!ArenaAssumption

-----------------------------------------------------------------------------
(* A client of the C binding with up to four handles and one value.         *)
Binding == INSTANCE CBinding WITH
  Errors <- {"IO error"}, MaxHandles <- 4, MaxValues <- 1,
  heap <- s1, mine <- s2, options <- s3, snapshot <- s4, store <- s5,
  values <- s6, errptr <- s7

BindingInit == Binding!Init /\ s8 = Unused /\ s9 = Unused
BindingNext == Binding!Next /\ UNCHANGED <<s8, s9>>

(* Three statuses, with messages of none to two pieces. *)
Statuses == INSTANCE Status WITH
  Objects <- {"s", "t", "u"}, Codes <- {"kIOError"},
  Texts <- {<<>>, <<"a">>, <<"b", "c">>},
  state_ <- s1, heap <- s2, meant <- s3

StatusesInit == Statuses!Init /\ Idle4to9
StatusesNext == Statuses!Next /\ UNCHANGED <<s4, s5, s6, s7, s8, s9>>

(* Two threads log lines around the sizes of buffers of four and seven.     *)
Logger == INSTANCE PosixLogger WITH
  Threads <- {"t1", "t2"}, Small <- 4, Large <- 7, Headers <- {2, 5},
  Lengths <- {0, 1, 2, 4, 5, 6}, MaxLines <- 1,
  thread <- s1, heap <- s2, file <- s3

LoggerInit == Logger!Init /\ Idle4to9
LoggerNext == Logger!Next /\ UNCHANGED <<s4, s5, s6, s7, s8, s9>>

(* Two histograms of up to three values in five buckets. *)
Measured == INSTANCE Histogram WITH
  kBucketLimit <- <<1, 2, 4, 7, 1000>>, Values <- {0, 1, 3, 6, 9},
  Percentiles <- {1, 50, 100}, MaxAdded <- 3,
  hist <- s1, added <- s2

MeasuredInit == Measured!Init /\ s3 = Unused /\ Idle4to9
MeasuredNext == Measured!Next /\ UNCHANGED <<s3, s4, s5, s6, s7, s8, s9>>

(* A log, a descriptor and a table with damaged parts, and other names.     *)
Content(id, kind, ok, items) ==
  [id |-> id, kind |-> kind, ok |-> ok, items |-> items]
Dumpable(type, parts) == [type |-> type, parts |-> parts]
DumpCases ==
  {Dumpable("unknown", <<>>), Dumpable("current", <<>>),
   Dumpable("log",
     <<Content(1, "dropped", FALSE, <<>>), Content(2, "batch", FALSE, <<21, 22>>),
       Content(3, "small", FALSE, <<>>), Content(4, "batch", TRUE, <<41>>)>>),
   Dumpable("descriptor",
     <<Content(1, "edit", TRUE, <<>>), Content(2, "edit", FALSE, <<>>),
       Content(3, "dropped", FALSE, <<>>)>>),
   Dumpable("table",
     <<Content(1, "entry", TRUE, <<>>), Content(2, "entry", FALSE, <<>>),
       Content(3, "iterator error", FALSE, <<>>)>>)}
Dumps == INSTANCE DumpFile WITH
  Files <- DumpCases,
  file <- s1, pc <- s2, rest <- s3, open <- s4, out <- s5, lost <- s6,
  result <- s7

DumpsInit == Dumps!Init /\ s8 = Unused /\ s9 = Unused
DumpsNext == Dumps!Next /\ UNCHANGED <<s8, s9>>

(* One tag, two members and an address that nobody has; two posts and four  *)
(* queries.                                                                 *)
Board == INSTANCE Posts WITH
  Tags <- {<<"x">>}, Emails <- {<<"a">>, <<"b">>, <<"c">>},
  Members <- {<<"a">>, <<"b">>}, Authors <- {<<"a">>, <<>>}, MaxPosts <- 2,
  MaxAsked <- 4,
  posts <- s1, author <- s2, screen <- s3, asked <- s4, asks <- s5,
  newest <- s6, shown <- s7

BoardInit == Board!Init /\ s8 = Unused /\ s9 = Unused
BoardNext == Board!Next /\ UNCHANGED <<s8, s9>>

-----------------------------------------------------------------------------
Init ==
  \/ part = "log" /\ LogInit
  \/ part = "table" /\ TableInit
  \/ part = "nanopb" /\ PbInit
  \/ part = "encoding" /\ CodeInit
  \/ part = "iterators" /\ IterInit
  \/ part = "skiplist" /\ ListInit
  \/ part = "cache" /\ CacheInit
  \/ part = "lock" /\ LockInit
  \/ part = "queue" /\ QueueInit
  \/ part = "limits" /\ LimitsInit
  \/ part = "repair" /\ RepairInit
  \/ part = "levels" /\ LevelsInit
  \/ part = "descriptor" /\ DescriptorInit
  \/ part = "refs" /\ Refs!Init
  \/ part = "writes" /\ WritesInit
  \/ part = "checksum" /\ SumsInit
  \/ part = "arena" /\ MemoryInit
  \/ part = "binding" /\ BindingInit
  \/ part = "status" /\ StatusesInit
  \/ part = "logger" /\ LoggerInit
  \/ part = "histogram" /\ MeasuredInit
  \/ part = "dump" /\ DumpsInit
  \/ part = "posts" /\ BoardInit

Next ==
  /\ part' = part
  /\ \/ part = "log" /\ LogNext
     \/ part = "table" /\ TableNext
     \/ part = "nanopb" /\ PbNext
     \/ part = "encoding" /\ CodeNext
     \/ part = "iterators" /\ IterNext
     \/ part = "skiplist" /\ ListNext
     \/ part = "cache" /\ CacheNext
     \/ part = "lock" /\ LockNext
     \/ part = "queue" /\ QueueNext
     \/ part = "limits" /\ LimitsNext
     \/ part = "repair" /\ RepairNext
     \/ part = "levels" /\ LevelsNext
     \/ part = "descriptor" /\ DescriptorNext
     \/ part = "refs" /\ Refs!Next
     \/ part = "writes" /\ WritesNext
     \/ part = "checksum" /\ SumsNext
     \/ part = "arena" /\ MemoryNext
     \/ part = "binding" /\ BindingNext
     \/ part = "status" /\ StatusesNext
     \/ part = "logger" /\ LoggerNext
     \/ part = "histogram" /\ MeasuredNext
     \/ part = "dump" /\ DumpsNext
     \/ part = "posts" /\ BoardNext

Spec == Init /\ [][Next]_vars

-----------------------------------------------------------------------------
(* A table answers gets and iterators from exactly the keys it was built    *)
(* from, or says that a block could not be read, and its approximate        *)
(* offsets never go down (TableBuilder, Table, Block, FilterBlockReader).   *)
TablesAnswer ==
  part = "table" =>
    Table!GetIsRight /\ Table!IteratorIsRight /\ Table!OffsetsGrow

(* What was encoded is decoded; bytes cut or damaged anywhere never put     *)
(* more into a struct than fits, nor pass as whole (pb_encode, pb_decode).  *)
MessagesReadBack ==
  part = "nanopb" => Pb!StaysInside /\ Pb!RoundTrip /\ Pb!CutIsNoticed

(* Records, edits, batches and file names are read back as they were        *)
(* written: of a log cut anywhere all records that are whole, of a damaged  *)
(* one all outside of the damaged block, and nothing else; what is cut or   *)
(* damaged is noticed or means what its bytes say (log::Writer,             *)
(* log::Reader, VersionEdit, WriteBatch, ParseFileName).  The checksum of   *)
(* what was written is the same however it is taken, and comes out of its   *)
(* mask (crc32c::Extend, AcceleratedCRC32C, Mask).  A dump prints all that  *)
(* can be read and all damage, and leaves nothing open (DumpFile).          *)
WhatIsWrittenIsRead ==
  /\ part = "log" =>
       Log!CutReadsBack /\ Log!DamageStaysInBlock /\ Log!NothingInvented
  /\ part = "encoding" =>
       Code!EditsReadBack /\ Code!BatchesReadBack /\ Code!NamesReadBack
  /\ part = "checksum" =>
       Sums!ChecksumIsOfAllBytes /\ Sums!TestIsRight /\ Sums!MaskComesOff
  /\ part = "dump" => Dumps!EverythingIsDumped

(* An iterator shows its snapshot, in whatever order it goes forward and    *)
(* back while others write, and a damaged entry is reported (DBIter,        *)
(* MergingIterator, MemTable).                                              *)
IteratorsShowTheSnapshot ==
  part = "iterators" =>
    Iter!ShowsTheSnapshot /\ Iter!DamageIsReported /\ Iter!MemTableIsRight

(* A reader without a lock never follows a link to what is not written yet  *)
(* and misses no key inserted before it began, and no node is put where     *)
(* another is (SkipList, Arena).                                            *)
ReadersSeeWholeNodes ==
  /\ part = "skiplist" =>
       List!NothingUnwritten /\ List!NothingMissed /\ List!LevelsNest
  /\ part = "arena" => Memory!PiecesAreApart

(* Whatever is evicted, displaced, pruned or released, a handle in use is   *)
(* alive, counts, lists and chains agree, and an insertion makes room       *)
(* (LRUCache, HandleTable, TableCache); what a client of the C binding, an  *)
(* open store or a status owns is freed once, and not while it is used      *)
(* (c.cc, SanitizeOptions, Status).                                         *)
CacheIsConsistent ==
  /\ [](part = "cache" => Cache!HandlesAreAlive /\ Cache!ListsAgree)
  /\ [](part = "binding" => Binding!NothingLeaks /\ Binding!StoreUsesTheLiving)
  /\ [](part = "status" => Statuses!StatusesAreOwned)
  /\ [][part = "cache" => Cache!Shrinks]_vars

(* What the store relies on in its environment: in a process one thread has *)
(* the lock, background work runs once and in order and is never slept on,  *)
(* files stay within their limits (PosixEnv, Limiter), a line of the info   *)
(* log is whole unless it is longer than the larger buffer (PosixLogger),   *)
(* and merged histograms are those of all their values (Histogram).         *)
EnvironmentIsKept ==
  /\ part = "lock" => Lock!OneHolderPerProcess
  /\ part = "queue" => Queue!NoItemIsLost
  /\ part = "limits" => Limits!LimitsAreKept
  /\ part = "logger" => Logger!LinesAreWhole
  /\ part = "histogram" =>
       Measured!MergedIsAdded /\ Measured!PercentilesAreInPlace

(* A repair loses no entry that could be read, whatever fails and wherever  *)
(* it stops, and the descriptor it writes covers its tables (Repairer).     *)
RepairKeepsEntries ==
  part = "repair" => Repairer!NothingIsLost /\ Repairer!DescriptorCovers

(* The files of a level are read as one sorted run, the children of an      *)
(* iterator are all of the version in order, sizes of ranges add up, and a  *)
(* file worn out by reads has another to be merged with                     *)
(* (LevelFileNumIterator, TwoLevelIterator, AddIterators, GetStats).        *)
LevelsAreRead ==
  part = "levels" =>
    /\ Levels!ConcatenationIsRight /\ Levels!ChildrenAreOrdered
    /\ Levels!WornOutHasCompany /\ Levels!SizesAddUp

(* The files a store needs are there: an older store reopens after any      *)
(* stop, no table of a version in use is deleted, none is kept longer, and  *)
(* the descriptor says what the current version is (NewDB, SetCurrentFile,  *)
(* DeleteObsoleteFiles, VersionSet's references).                           *)
NeededFilesAreThere ==
  /\ part = "descriptor" => Descriptor!OldStoreReopens
  /\ part = "refs" =>
       Refs!HeldFilesStay /\ Refs!NothingLeaks /\ Refs!DescriptorIsCurrent

(* Views show exactly the pending writes over the server's data, runs of    *)
(* transactions start from it, and no write or transaction is forgotten     *)
(* (FWriteTree, FRepo); a list of posts whose newest query was answered     *)
(* last has exactly what was asked for (PostViewController,                 *)
(* SearchViewController).                                                   *)
PendingWritesShow ==
  /\ part = "writes" =>
       /\ Writes!ViewsAreRight /\ Writes!PartsAreRight
       /\ Writes!RunsSeeTheLatest /\ Writes!NothingIsStuck
  /\ part = "posts" => Board!ListsAreRight

(* The completion block of every transaction is called, whether it was      *)
(* successful or not (FIRDatabaseReference.h:641).                          *)
EveryTransactionEnds == part = "writes" => Writes!EveryRunEnds
=============================================================================
