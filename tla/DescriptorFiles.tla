-------------------------- MODULE DescriptorFiles --------------------------
(***************************************************************************)
(* The files behind a descriptor when the machine stops: what the store    *)
(* creates, syncs, renames and deletes to install a table or a new         *)
(* descriptor (VersionSet::LogAndApply, DBImpl::NewDB, SetCurrentFile), on *)
(* the files of util/env_posix.cc.                                         *)
(*                                                                         *)
(* A file's data is on disk up to its last fdatasync, and may be further.  *)
(* The file system has a journal: creating, renaming and deleting take     *)
(* effect on disk in their order, at the latest with the next fsync or     *)
(* fdatasync of anything.                                                  *)
(***************************************************************************)
EXTENDS Integers, Sequences, FiniteSets, SequencesExt, FiniteSetsExt, TLC

CONSTANTS MaxFiles, MaxStops      \* bounds

VARIABLES
  dir,           \* the directory: the file each name has
  disk, pending, \* the one on disk, and the operations not on it yet
  data,          \* of each file: [recs, os, synced]: what was written, how
                 \* much of it the process and the machine cannot lose
  db,            \* the process: [pc, man, version, made, new]
  opened,        \* DB::Open has returned once
  fresh,         \* the store was made in this run
  stops

fileVars == <<dir, disk, pending, data, db, opened, fresh, stops>>

Name(kind, num) == <<kind, num>>
CURRENT == Name("CURRENT", 0)
Temp(n) == Name("dbtmp", n)
Manifest(n) == Name("manifest", n)
Table(n) == Name("table", n)
Numbers == {n[2] : n \in DOMAIN dir}
NextNumber == Max({0} \cup Numbers) + 1
At(pc) == db.pc = pc
Closed == [pc |-> "closed", man |-> 0, version |-> {}, made |-> 0,
           new |-> FALSE]

-----------------------------------------------------------------------------
(* util/env_posix.cc *)

Without(d, name) == [n \in DOMAIN d \ {name} |-> d[n]]
Done(d, op) ==
  CASE op.op = "link" -> (op.name :> op.file) @@ d
    [] op.op = "rename" -> (op.name :> d[op.from]) @@ Without(d, op.from)
    [] op.op = "unlink" -> Without(d, op.name)
DoneAll(d, ops) == FoldLeft(Done, d, ops)
InDir(op) == dir' = Done(dir, op) /\ pending' = Append(pending, op)

(* NewWritableFile *)
Create(name) == InDir([op |-> "link", name |-> name, file |-> Len(data) + 1])
Rename(from, name) == InDir([op |-> "rename", from |-> from, name |-> name])
Unlink(name) == InDir([op |-> "unlink", name |-> name])

(* A file of records: Append leaves them in the buffer of the stream,       *)
(* Flush and Close hand them to the system.                                 *)
Buffered(recs) == [recs |-> recs, os |-> 0, synced |-> 0]
Flushed(f) == [f EXCEPT !.os = Len(f.recs)]
OnDisk(f) == [f EXCEPT !.os = Len(f.recs), !.synced = Len(f.recs)]
DataSync(file) == data' = [data EXCEPT ![file] = OnDisk(@)]
Committed == disk' = dir' /\ pending' = <<>>

(* PosixWritableFile::Sync, with SyncDirIfManifest. *)
Sync(file) == UNCHANGED dir /\ DataSync(file) /\ Committed

-----------------------------------------------------------------------------
(* db/db_impl.cc, db/version_set.cc *)

To(pc) == db' = [db EXCEPT !.pc = pc]
Same == UNCHANGED <<opened, fresh, stops>>

(* NewDB: the first descriptor is closed, not synced.                       *)
NewDB ==
  /\ At("closed") /\ CURRENT \notin DOMAIN dir
  /\ Create(Manifest(1))
  /\ data' = Append(data, Flushed(Buffered(<<{}>>)))
  /\ db' = [Closed EXCEPT !.pc = "temp", !.man = 1]
  /\ UNCHANGED disk /\ Same

(* Recover, with the new descriptor that LogAndApply writes: a snapshot,    *)
(* and the edit.                                                            *)
Current(d, files) == files[d[CURRENT]].recs[1]
VersionOf(d, files) == Last(files[d[Manifest(Current(d, files))]].recs)
(* It fails unless the descriptor can be read and its tables are there.     *)
Opens ==
  /\ CURRENT \in DOMAIN dir /\ data[dir[CURRENT]].recs # <<>>
  /\ Manifest(Current(dir, data)) \in DOMAIN dir
  /\ data[dir[Manifest(Current(dir, data))]].recs # <<>>
  /\ \A n \in VersionOf(dir, data) :
       Table(n) \in DOMAIN dir /\ data[dir[Table(n)]].recs # <<>>

Recover ==
  /\ At("closed") /\ Opens
  /\ NextNumber <= MaxFiles
  /\ \E version \in {VersionOf(dir, data)}, n \in {NextNumber} :
       /\ Create(Manifest(n))
       /\ data' = Append(data, Flushed(Buffered(<<version, version>>)))
       /\ db' = [Closed EXCEPT !.pc = "sync", !.man = n,
                               !.version = version, !.new = TRUE]
  /\ UNCHANGED disk /\ Same

(* LogAndApply: the descriptor is synced; a new one becomes the current.    *)
SyncManifest ==
  /\ At("sync")
  /\ Sync(dir[Manifest(db.man)])
  /\ To(IF db.new THEN "temp" ELSE "delete") /\ Same

(* SetCurrentFile: WriteStringToFileSync, then RenameFile. *)
\* Mutant: the file is not synced before it takes the name.
TempFile_Unsynced(n) == Flushed(Buffered(<<n>>))
TempFile(n) == OnDisk(Buffered(<<n>>))
WriteTemp ==
  /\ At("temp")
  /\ dir' = Temp(db.man) :> (Len(data) + 1) @@ dir
  /\ data' = Append(data, TempFile(db.man)) /\ Committed
  /\ To("rename") /\ Same
RenameTemp ==
  /\ At("rename")
  /\ Rename(Temp(db.man), CURRENT)
  /\ To(IF db.new THEN "delete" ELSE "closed")
  /\ UNCHANGED <<disk, data>> /\ Same

(* DeleteObsoleteFiles, and the store is open. *)
Obsolete ==
  {n \in DOMAIN dir : \/ n[1] = "table" /\ n[2] \notin db.version
                      \/ n[1] = "manifest" /\ n[2] < db.man
                      \/ n[1] = "dbtmp"}
DeleteObsolete ==
  /\ At("delete")
  /\ \E n \in Obsolete : Unlink(n)
  /\ UNCHANGED <<disk, data, db>> /\ Same
Deleted ==
  /\ At("delete") /\ Obsolete = {}
  /\ db' = [db EXCEPT !.pc = "open", !.made = 0, !.new = FALSE]
  /\ opened' = TRUE
  /\ UNCHANGED <<dir, disk, pending, data, fresh, stops>>

(* BuildTable, then an edit that may replace other tables by it. *)
MakeTable ==
  /\ At("open") /\ NextNumber <= MaxFiles
  /\ \E n \in {NextNumber} :
       /\ Create(Table(n))
       /\ data' = Append(data, Buffered(<<{}>>))
       /\ db' = [db EXCEPT !.pc = "made", !.made = n]
  /\ UNCHANGED disk /\ Same
\* Mutant: the table is closed, not synced.
TableSync_Close(file) ==
  /\ data' = [data EXCEPT ![file] = Flushed(@)]
  /\ UNCHANGED <<dir, disk, pending>>
TableSync(file) == Sync(file)
SyncTable ==
  /\ At("made") /\ TableSync(dir[Table(db.made)])
  /\ To("edit") /\ Same
WriteEdit ==
  /\ At("edit")
  /\ \E old \in SUBSET db.version :
       \E version \in {(db.version \ old) \cup {db.made}} :
         /\ data' = [data EXCEPT ![dir[Manifest(db.man)]] =
              Flushed([@ EXCEPT !.recs = Append(@, version)])]
         /\ db' = [db EXCEPT !.pc = "sync", !.version = version]
  /\ UNCHANGED <<dir, disk, pending>> /\ Same

-----------------------------------------------------------------------------
(* What is left of the files: at least what kept says, and maybe more.      *)
Survives(kept(_)) ==
  LET loose == {f \in DOMAIN data : kept(data[f]) < Len(data[f].recs)}
  IN \E left \in [loose -> 0 .. MaxFiles] :
       /\ \A f \in loose :
            kept(data[f]) <= left[f] /\ left[f] <= Len(data[f].recs)
       /\ data' = [f \in DOMAIN data |->
            IF f \in loose
              THEN Flushed([data[f] EXCEPT !.recs = SubSeq(@, 1, left[f])])
            ELSE data[f]]
Stopped ==
  /\ stops < MaxStops /\ ~At("closed")
  /\ stops' = stops + 1 /\ db' = Closed
  /\ UNCHANGED <<opened, fresh>>
Kill ==
  /\ Stopped /\ Survives(LAMBDA f : f.os)
  /\ UNCHANGED <<dir, disk, pending>>
PowerLoss ==
  /\ Stopped /\ Survives(LAMBDA f : f.synced)
  /\ \E n \in 0 .. Len(pending) : dir' = DoneAll(disk, SubSeq(pending, 1, n))
  /\ disk' = dir' /\ pending' = <<>>

-----------------------------------------------------------------------------
(* An empty directory, or a store that was closed long ago.                 *)
Init ==
  /\ fresh \in BOOLEAN /\ opened = ~fresh
  /\ dir = IF fresh THEN <<>>
           ELSE CURRENT :> 1 @@ Manifest(1) :> 2 @@ Table(2) :> 3
  /\ disk = dir /\ pending = <<>>
  /\ data = IF fresh THEN <<>>
            ELSE <<OnDisk(Buffered(<<1>>)), OnDisk(Buffered(<<{2}>>)),
                   OnDisk(Buffered(<<{}>>))>>
  /\ db = Closed /\ stops = 0

Next ==
  \/ NewDB \/ Recover \/ SyncManifest \/ WriteTemp \/ RenameTemp
  \/ DeleteObsolete \/ Deleted
  \/ MakeTable \/ SyncTable \/ WriteEdit
  \/ Kill \/ PowerLoss

-----------------------------------------------------------------------------
(* A store that was opened once can be opened again, wherever the process   *)
(* or the machine stopped: an older store, and one made by DB::Open.        *)
OldStoreReopens == At("closed") /\ ~fresh => Opens
NewStoreReopens == At("closed") /\ opened => Opens
=============================================================================
