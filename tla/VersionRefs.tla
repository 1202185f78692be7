---------------------------- MODULE VersionRefs ----------------------------
(***************************************************************************)
(* The versions of a store as the objects they are (db/version_set.cc):    *)
(* each counts its references and is in a list until the last one goes;    *)
(* each file of a version is an object that counts the versions it is in.  *)
(* What the list holds is what DeleteObsoleteFiles keeps.  Readers refer   *)
(* to a version and to the memtables without the mutex being held, a       *)
(* compaction to the version it was picked from, and a flush in the middle *)
(* of it installs another.                                                 *)
(***************************************************************************)
EXTENDS Integers, Sequences, FiniteSets, Functions, FiniteSetsExt, SequencesExt

CONSTANTS
  Users,                \* iterators and reads
  kNumLevels,
  MaxFileNumber         \* bound

VARIABLES
  vs,                   \* the VersionSet: [versions, linked, current, refs]
  mt,                   \* the memtables: [refs, mem, imm], imm 0 for none
  held,                 \* of each user, what it refers to: [v, mem, imm]
  compaction,           \* {} or what the compaction under way is
  saved,                \* {} or the version LogAndApply has yet to install
  failed,               \* bg_error_
  manifest,             \* the edits of the descriptor
  tables,               \* the numbers of the table files there are
  next                  \* next_file_number_

refsVars == <<vs, mt, held, compaction, saved, failed, manifest, tables, next>>

Levels == 0 .. kNumLevels - 1
File(level, num) == [level |-> level, num |-> num]
Numbers(files) == {f.num : f \in files}
FilesOf(v) == vs.versions[v].files
CurrentFiles == IF vs.current = 0 THEN {} ELSE FilesOf(vs.current)

-----------------------------------------------------------------------------
(* Version::Ref, Unref, ~Version.  An object is there while it is in the    *)
(* domain of versions or of refs.                                          *)
Ref(s, v) == [s EXCEPT !.versions[v].refs = @ + 1]

AddRefs(s, files) ==
  [s EXCEPT !.refs = [f \in DOMAIN @ \cup files |->
     (IF f \in DOMAIN s.refs THEN s.refs[f] ELSE 0)
       + (IF f \in files THEN 1 ELSE 0)]]
DropRefs(s, files) ==
  LET left == [f \in DOMAIN s.refs |->
                 s.refs[f] - (IF f \in files THEN 1 ELSE 0)]
  IN [s EXCEPT !.refs = Restrict(left, {f \in DOMAIN left : left[f] > 0})]
\* Mutant: the files of a version that goes keep their references.
Deleted_Leaks(s, v) ==
  [s EXCEPT !.linked = @ \ {v}, !.versions = Restrict(@, DOMAIN @ \ {v})]
Deleted(s, v) ==
  [DropRefs(s, s.versions[v].files) EXCEPT
     !.linked = @ \ {v}, !.versions = Restrict(@, DOMAIN @ \ {v})]
Unref(s, v) ==
  LET t == [s EXCEPT !.versions[v].refs = @ - 1]
  IN IF t.versions[v].refs = 0 THEN Deleted(t, v) ELSE t

\* Mutant: the version that was current is dropped, whoever refers to it.
AppendVersion_Drops(s, v) ==
  LET t == IF s.current = 0 THEN s ELSE Deleted(s, s.current)
  IN Ref([t EXCEPT !.current = v, !.linked = @ \cup {v}], v)
AppendVersion(s, v) ==
  LET t == IF s.current = 0 THEN s ELSE Unref(s, s.current)
  IN Ref([t EXCEPT !.current = v, !.linked = @ \cup {v}], v)

AddLiveFiles(s) == UNION {Numbers(s.versions[v].files) : v \in s.linked}

(* VersionSet::Builder: files that are added are no longer deleted ones.    *)
Edit(deleted, added) == [deleted |-> deleted, added |-> added]
NoEdits == Edit({}, {})
Apply(b, e) == Edit((b.deleted \cup e.deleted) \ e.added, b.added \cup e.added)
\* Mutant: a file of the base is kept, also when it was deleted.
MaybeAddFile_Base(b, f) == f \notin b.deleted \/ f \notin b.added
MaybeAddFile(b, f) == f \notin b.deleted
SaveTo(b, base) == {f \in base \cup b.added : MaybeAddFile(b, f)}
NewVersion(s) ==
  Min((1 .. Cardinality(DOMAIN s.versions) + 1) \ DOMAIN s.versions)

(* The Builder refers to its base and to the files it adds until it goes.   *)
Built(s, v, base, b) ==
  LET files == SaveTo(b, s.versions[base].files)
      with == [AddRefs(AddRefs(Ref(s, base), b.added), files) EXCEPT
                 !.versions = (v :> [files |-> files, refs |-> 0]) @@ @]
  IN Unref(DropRefs(with, b.added), base)
Build(s, v, edits) == Built(s, v, s.current, FoldLeft(Apply, NoEdits, edits))

(* A VersionSet begins with a version of no files.                          *)
Closed == [versions |-> <<>>, linked |-> {}, current |-> 0, refs |-> <<>>]
NewVersionSet ==
  AppendVersion([Closed EXCEPT !.versions = 1 :> [files |-> {}, refs |-> 0]], 1)
WriteSnapshot(s) == Edit({}, s.versions[s.current].files)

(* MemTable::Ref, Unref.                                                    *)
MemRef(t, m) == [t EXCEPT !.refs[m] = @ + 1]
\* Mutant: a memtable goes when it has been flushed.
MemUnref_Flushed(t, m) ==
  [t EXCEPT !.refs = IF m = t.imm THEN Restrict(@, DOMAIN @ \ {m})
                     ELSE [@ EXCEPT ![m] = @ - 1]]
MemUnref(t, m) ==
  [t EXCEPT !.refs = IF @[m] = 1 THEN Restrict(@, DOMAIN @ \ {m})
                     ELSE [@ EXCEPT ![m] = @ - 1]]
OptUnref(t, m) == IF m = 0 THEN t ELSE MemUnref(t, m)
NewMem(t) ==
  LET m == Min((1 .. Cardinality(DOMAIN t.refs) + 1) \ DOMAIN t.refs)
  IN [t EXCEPT !.refs = (m :> 1) @@ @, !.mem = m]
NoMem == [refs |-> <<>>, mem |-> 0, imm |-> 0]
Nothing == [v |-> 0, mem |-> 0, imm |-> 0]

-----------------------------------------------------------------------------
(* Users: NewInternalIterator, Get, GetApproximateSizes, and their ends.    *)
NewInternalIterator(u) ==
  /\ vs.current # 0 /\ held[u] = Nothing
  /\ held' = [held EXCEPT ![u] =
                [v |-> vs.current, mem |-> mt.mem, imm |-> mt.imm]]
  /\ vs' = Ref(vs, vs.current)
  /\ mt' = LET t == MemRef(mt, mt.mem)
           IN IF mt.imm = 0 THEN t ELSE MemRef(t, mt.imm)
  /\ UNCHANGED <<compaction, saved, failed, manifest, tables, next>>
CleanupIteratorState(u) ==
  /\ held[u] # Nothing
  /\ vs' = Unref(vs, held[u].v)
  /\ mt' = OptUnref(MemUnref(mt, held[u].mem), held[u].imm)
  /\ held' = [held EXCEPT ![u] = Nothing]
  /\ UNCHANGED <<compaction, saved, failed, manifest, tables, next>>

(* MakeRoomForWrite makes a full memtable the immutable one.                *)
SwitchMemTable ==
  /\ vs.current # 0 /\ ~failed /\ mt.imm = 0
  /\ mt' = NewMem([mt EXCEPT !.imm = mt.mem])
  /\ UNCHANGED <<vs, held, compaction, saved, failed, manifest, tables, next>>

(* LogAndApply builds the version, and lets go of the mutex to write.       *)
SaveVersion(edit, by) ==
  LET v == NewVersion(vs)
  IN /\ saved' = {[v |-> v, edit |-> edit, by |-> by]}
     /\ vs' = Build(vs, v, <<edit>>)
Idle == vs.current # 0 /\ saved = {}
Merging == \E c \in compaction : c.out # {}

(* A merge under way flushes the memtable also after an error.              *)
Flush(level) ==
  /\ Idle /\ mt.imm # 0 /\ next <= MaxFileNumber
  /\ IF compaction = {} THEN ~failed ELSE Merging
  /\ tables' = tables \cup {next} /\ next' = next + 1
  /\ SaveVersion(Edit({}, {File(level, next)}), "flush")
  /\ UNCHANGED <<mt, held, compaction, failed, manifest>>

(* A compaction refers to the version it was picked from; the file it makes *)
(* is among pending_outputs_.  A move makes none.                           *)
StartCompaction(level, inputs, out) ==
  /\ Idle /\ ~failed /\ compaction = {}
  /\ inputs # {} /\ inputs \subseteq {f \in CurrentFiles :
                                         f.level \in {level, level + 1}}
  /\ \E f \in inputs : f.level = level
  /\ IF out = {} THEN Cardinality(inputs) = 1 ELSE out = {next}
  /\ out # {} => next <= MaxFileNumber
  /\ compaction' = {[base |-> vs.current, level |-> level, inputs |-> inputs,
                     out |-> out]}
  /\ vs' = Ref(vs, vs.current)
  /\ tables' = tables \cup out /\ next' = next + Cardinality(out)
  /\ UNCHANGED <<mt, held, saved, failed, manifest>>
Outputs(c) ==
  {File(c.level + 1, n) : n \in IF c.out = {} THEN Numbers(c.inputs) ELSE c.out}
InstallCompactionResults ==
  /\ Idle
  /\ \E c \in compaction :
       SaveVersion(Edit(c.inputs, Outputs(c)),
                   IF c.out = {} THEN "move" ELSE "merge")
  /\ UNCHANGED <<mt, held, compaction, failed, manifest, tables, next>>

ReleaseInputs(s) == FoldSet(LAMBDA c, t : Unref(t, c.base), s, compaction)
\* Mutant: only the files of the current version are kept.
Obsolete_Current(s, pending) ==
  tables \ (pending \cup Numbers(s.versions[s.current].files))
Obsolete(s, pending) == tables \ (pending \cup AddLiveFiles(s))
Pending == UNION {c.out : c \in compaction}

(* LogAndApply's end and what its caller does then, under the mutex.        *)
Install ==
  \E w \in saved :
    /\ LET s == AppendVersion(vs, w.v)
           ended == IF w.by = "flush" THEN s ELSE ReleaseInputs(s)
       IN /\ vs' = ended
          /\ tables' = CASE failed \/ w.by = "move" -> tables
                         [] w.by = "flush" -> tables \ Obsolete(s, Pending)
                         [] w.by = "merge" -> tables \ Obsolete(ended, {})
    /\ mt' = IF w.by = "flush" THEN [MemUnref(mt, mt.imm) EXCEPT !.imm = 0]
             ELSE mt
    /\ compaction' = IF w.by = "flush" THEN compaction ELSE {}
    /\ manifest' = Append(manifest, w.edit)
    /\ saved' = {} /\ UNCHANGED <<held, failed, next>>
(* The record cannot be written: delete v, and no more is done.             *)
ManifestFails ==
  \E w \in saved :
    /\ vs' = LET s == Deleted(vs, w.v)
             IN IF w.by = "flush" THEN s ELSE ReleaseInputs(s)
    /\ compaction' = IF w.by = "flush" THEN compaction ELSE {}
    /\ saved' = {} /\ failed' = TRUE
    /\ UNCHANGED <<mt, held, manifest, tables, next>>
(* An output cannot be written: CleanupCompaction, ReleaseInputs.           *)
MergeFails ==
  /\ Idle /\ Merging
  /\ vs' = ReleaseInputs(vs) /\ compaction' = {} /\ failed' = TRUE
  /\ UNCHANGED <<mt, held, saved, manifest, tables, next>>

(* ~DBImpl once the iterators are gone and nothing is under way, and        *)
(* DB::Open: one Builder for all the edits, then a new descriptor.          *)
Close ==
  /\ vs.current # 0 /\ compaction = {} /\ saved = {}
  /\ \A u \in Users : held[u] = Nothing
  /\ vs' = [Unref(vs, vs.current) EXCEPT !.current = 0]
  /\ mt' = [OptUnref(MemUnref(mt, mt.mem), mt.imm) EXCEPT !.mem = 0, !.imm = 0]
  /\ failed' = FALSE
  /\ UNCHANGED <<held, compaction, saved, manifest, tables, next>>
Recovered(s) == AppendVersion(Build(s, 2, manifest), 2)
Open ==
  /\ vs.current = 0
  /\ \E s \in {Recovered(NewVersionSet)} :
       /\ manifest' = <<WriteSnapshot(s), NoEdits>>
       /\ \E v \in {NewVersion(s)} :
            vs' = AppendVersion(Build(s, v, <<NoEdits>>), v)
       /\ tables' = tables \ Obsolete(vs', {})
  /\ mt' = NewMem(mt)
  /\ UNCHANGED <<held, compaction, saved, failed, next>>

-----------------------------------------------------------------------------
Init ==
  /\ vs = Closed /\ mt = NoMem /\ held = [u \in Users |-> Nothing]
  /\ compaction = {} /\ saved = {} /\ failed = FALSE
  /\ manifest = <<>> /\ tables = {} /\ next = 1

Next ==
  \/ \E u \in Users : NewInternalIterator(u) \/ CleanupIteratorState(u)
  \/ SwitchMemTable
  \/ \E level \in {0, 1} : Flush(level)
  \/ \E level \in 0 .. kNumLevels - 2, out \in {{}, {next}} :
       \E inputs \in SUBSET CurrentFiles :
         StartCompaction(level, inputs, out)
  \/ InstallCompactionResults
  \/ Install
  \/ ManifestFails
  \/ MergeFails
  \/ Close
  \/ Open

-----------------------------------------------------------------------------
(* Whoever refers to a version or a memtable finds it there, and so are the *)
(* version's files and their tables.                                       *)
Referred ==
  {held[u].v : u \in Users} \cup {c.base : c \in compaction} \cup {vs.current}
MemHolders(m) ==
  Cardinality({u \in Users : m \in {held[u].mem, held[u].imm}})
    + Cardinality({i \in 1 .. 2 : m = <<mt.mem, mt.imm>>[i]})
HeldFilesStay ==
  /\ \A v \in Referred \ {0} :
       /\ v \in vs.linked /\ v \in DOMAIN vs.versions
       /\ FilesOf(v) \subseteq DOMAIN vs.refs
       /\ Numbers(FilesOf(v)) \subseteq tables
  /\ \A u \in Users : {held[u].mem, held[u].imm} \ {0} \subseteq DOMAIN mt.refs

(* Nothing outlives its last reference: the list is empty when ~VersionSet  *)
(* asserts it, a file is in as many versions as it counts, and a memtable   *)
(* has as many users as it counts.                                         *)
NothingLeaks ==
  /\ DOMAIN vs.versions \subseteq Referred \cup {w.v : w \in saved}
  /\ \A f \in DOMAIN vs.refs :
       vs.refs[f] = Cardinality({v \in DOMAIN vs.versions : f \in FilesOf(v)})
  /\ \A m \in DOMAIN mt.refs : mt.refs[m] = MemHolders(m)

(* The descriptor says what the current version is, one edit after the      *)
(* other, so that the store opens with the version it was closed with.      *)
After(files, e) == (files \ e.deleted) \cup e.added
DescriptorIsCurrent ==
  vs.current # 0 => FoldLeft(After, {}, manifest) = CurrentFiles
=============================================================================
