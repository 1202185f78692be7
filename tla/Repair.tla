------------------------------- MODULE Repair -------------------------------
(***************************************************************************)
(* RepairDB (db/repair.cc): a database whose descriptor is lost is put     *)
(* together again from its logs and tables.  The repairer may be stopped   *)
(* between any two steps and run again, and its steps may fail.            *)
(*                                                                         *)
(* A file is [kind, num, readable, ok]: what a reader gets out of it, and  *)
(* whether it ends without an error.                                       *)
(***************************************************************************)
EXTENDS Integers, Sequences, FiniteSets, FiniteSetsExt

CONSTANTS
  Sources,       \* directories to repair: sets of files, of [key, seq]
  MaxStops, MaxFailures      \* bounds

VARIABLES
  dir,           \* the files of the database
  lost,          \* the files moved to lost/
  manifest,      \* the descriptor: [state, next, last, files]
  run,           \* the Repairer: [pc, logs, numbers, tables, next,
                 \*   at: the file in hand, copied: what the copy will be]
  failures, stops,
  source         \* the entries that could be read before the first run

repairVars == <<dir, lost, manifest, run, failures, stops, source>>

File(kind, num, readable, ok) ==
  [kind |-> kind, num |-> num, readable |-> readable, ok |-> ok]
FileIn(files, kind, num) ==
  CHOOSE f \in files : f.kind = kind /\ f.num = num
FileOf(kind, num) == FileIn(dir, kind, num)
Numbers(kind) == {f.num : f \in {g \in dir : g.kind = kind}}
Readable(files) == UNION {f.readable : f \in files}
Highest(S) == Max({0} \cup S)

(* A file that is written, or moved, replaces one of the same name.         *)
With(files, f) == {g \in files : <<g.kind, g.num>> # <<f.kind, f.num>>} \cup {f}
(* ArchiveFile *)
Archive(f) == dir' = dir \ {f} /\ lost' = With(lost, f)

At(pc) == run.pc = pc
NotRunning == [pc |-> "idle", logs |-> {}, numbers |-> {}, tables |-> {},
               next |-> 1, at |-> 0, copied |-> <<>>]
NoManifest == [state |-> "none", next |-> 0, last |-> 0, files |-> {}]
MayFail == failures < MaxFailures
Fails == failures' = failures + 1
Kept == UNCHANGED <<stops, source>>

FindFiles ==
  /\ At("idle")
  /\ run' = [NotRunning EXCEPT
       !.pc = "logs", !.logs = Numbers("log"), !.numbers = Numbers("table"),
       !.next = Highest({f.num : f \in dir}) + 1]
  /\ UNCHANGED <<dir, lost, manifest, failures>> /\ Kept

(* ConvertLogToTable, with BuildTable: the logs come in the order the      *)
(* directory lists them in.                                                *)
\* Mutant: the next table made has the same number.
NextNumber_Same(n) == n
NextNumber(n) == n + 1
ConvertLog(n) ==
  /\ At("logs") /\ n \in run.logs
  /\ LET got == FileOf("log", n).readable
         kept == got # {}
     IN \/ /\ dir' = IF kept
                THEN With(dir, File("table", run.next, got, TRUE)) ELSE dir
           /\ run' = [run EXCEPT
                !.pc = "archive", !.at = n, !.next = NextNumber(@),
                !.numbers = IF kept THEN @ \cup {run.next} ELSE @]
           /\ UNCHANGED failures
        \/ /\ MayFail /\ Fails
           /\ run' = [run EXCEPT !.pc = "archive", !.at = n,
                                 !.next = NextNumber(@)]
           /\ UNCHANGED dir
  /\ UNCHANGED <<lost, manifest>> /\ Kept
(* The log cannot be opened. *)
OpenFails(n) ==
  /\ At("logs") /\ n \in run.logs /\ MayFail /\ Fails
  /\ run' = [run EXCEPT !.pc = "archive", !.at = n]
  /\ UNCHANGED <<dir, lost, manifest>> /\ Kept
(* A log is archived whether or not it was converted.                       *)
ArchiveLog ==
  /\ At("archive")
  /\ Archive(FileOf("log", run.at))
  /\ run' = [run EXCEPT !.pc = "logs", !.logs = @ \ {run.at}, !.at = 0]
  /\ UNCHANGED <<manifest, failures>> /\ Kept

(* What a scan finds of a table: TableInfo. *)
Info(n, entries) ==
  [num |-> n, smallest |-> Min({e.key : e \in entries}),
   largest |-> Max({e.key : e \in entries}),
   max_sequence |-> Max({e.seq : e \in entries})]
Scanned == [run EXCEPT !.pc = "logs", !.numbers = @ \ {run.at}, !.at = 0]
ScanTable(n) ==
  /\ At("logs") /\ run.logs = {} /\ n \in run.numbers
  /\ LET f == FileOf("table", n)
     IN \/ /\ run' = IF f.ok
                THEN [run EXCEPT !.numbers = @ \ {n},
                                 !.tables = @ \cup {Info(n, f.readable)}]
                ELSE [run EXCEPT !.pc = "copy", !.at = n]
           /\ UNCHANGED <<dir, lost, failures>>
        \/ /\ MayFail /\ Fails                \* its size is not known
           /\ Archive(f)
           /\ run' = [run EXCEPT !.numbers = @ \ {n}]
  /\ UNCHANGED manifest /\ Kept

(* RepairTable: what can be read is given to a builder of a new table, the *)
(* table is archived, ...                                                  *)
Copy ==
  /\ At("copy")
  /\ \/ /\ dir' = With(dir, File("table", run.next, {}, FALSE))
        /\ run' = [run EXCEPT !.pc = "swap", !.next = @ + 1]
        /\ UNCHANGED failures
     \/ /\ MayFail /\ Fails                \* the new file cannot be made
        /\ run' = [Scanned EXCEPT !.next = @ + 1]
        /\ UNCHANGED dir
  /\ UNCHANGED <<lost, manifest>> /\ Kept
Damaged == FileOf("table", run.at)
TheCopy == FileOf("table", run.next - 1)
ArchiveTable ==
  /\ At("swap")
  /\ Archive(Damaged)
  /\ run' = IF Damaged.readable = {} THEN Scanned    \* Abandon: it stays empty
            ELSE [run EXCEPT !.pc = "finish",
                             !.copied = Info(run.at, Damaged.readable)]
  /\ UNCHANGED <<manifest, failures>> /\ Kept
(* ... the builder writes what makes the new table readable, ...            *)
Finish ==
  /\ At("finish")
  /\ \/ /\ dir' = With(dir, [TheCopy EXCEPT
                 !.readable = FileIn(lost, "table", run.at).readable,
                 !.ok = TRUE])
        /\ run' = [run EXCEPT !.pc = "rename"] /\ UNCHANGED failures
     \/ /\ MayFail /\ Fails
        /\ run' = [run EXCEPT !.pc = "delete"] /\ UNCHANGED dir
  /\ UNCHANGED <<lost, manifest>> /\ Kept
(* ... and it takes the name of the table. *)
Rename ==
  /\ At("rename")
  /\ \/ /\ dir' = (dir \ {TheCopy}) \cup {[TheCopy EXCEPT !.num = run.at]}
        /\ run' = [Scanned EXCEPT !.tables = @ \cup {run.copied}]
        /\ UNCHANGED failures
     \/ /\ MayFail /\ Fails
        /\ run' = [run EXCEPT !.pc = "delete"] /\ UNCHANGED dir
  /\ UNCHANGED <<lost, manifest>> /\ Kept
DeleteCopy ==
  /\ At("delete")
  /\ dir' = dir \ {TheCopy}
  /\ run' = Scanned
  /\ UNCHANGED <<lost, manifest, failures>> /\ Kept

(* WriteDescriptor: every table goes to level 0. *)
\* Mutant: the last sequence number is that of the last table.
LastSequence_Last(tables) ==
  IF tables = {} THEN 0
  ELSE (CHOOSE t \in tables : \A o \in tables : o.num <= t.num).max_sequence
LastSequence(tables) == Highest({t.max_sequence : t \in tables})
WriteDescriptor ==
  /\ At("logs") /\ run.logs = {} /\ run.numbers = {}
  /\ \/ /\ run' = [run EXCEPT !.pc = "install"]     \* older ones archived
        /\ manifest' = NoManifest /\ UNCHANGED failures
     \/ /\ MayFail /\ Fails
        /\ run' = [run EXCEPT !.pc = "done"] /\ UNCHANGED manifest
  /\ UNCHANGED <<dir, lost>> /\ Kept
Install ==
  /\ At("install")
  /\ \/ /\ manifest' = [state |-> "new", next |-> run.next,
                        last |-> LastSequence(run.tables),
                        files |-> run.tables]
        /\ UNCHANGED failures
     \/ MayFail /\ Fails /\ UNCHANGED manifest
  /\ run' = [run EXCEPT !.pc = "done"]
  /\ UNCHANGED <<dir, lost>> /\ Kept

(* The process ends; a table being written is left without its footer.      *)
Stop ==
  /\ stops < MaxStops /\ ~At("idle") /\ ~At("done")
  /\ stops' = stops + 1
  /\ run' = NotRunning
  /\ \/ UNCHANGED dir
     \/ /\ At("logs") /\ run.logs # {}
        /\ dir' = With(dir, File("table", run.next, {}, FALSE))
  /\ UNCHANGED <<lost, manifest, failures, source>>

Init ==
  /\ dir \in Sources /\ lost = {}
  /\ manifest = [NoManifest EXCEPT !.state = "old"] /\ run = NotRunning
  /\ failures = 0 /\ stops = 0
  /\ source = Readable(dir)

Next ==
  \/ FindFiles
  \/ \E n \in run.logs : ConvertLog(n) \/ OpenFails(n)
  \/ ArchiveLog
  \/ \E n \in run.numbers : ScanTable(n)
  \/ Copy
  \/ ArchiveTable
  \/ Finish
  \/ Rename
  \/ DeleteCopy
  \/ WriteDescriptor
  \/ Install
  \/ Stop

-----------------------------------------------------------------------------
Repaired == At("done") /\ manifest.state = "new"
Contents(t) == FileOf("table", t.num).readable

(* Whatever fails and wherever the repairer is stopped and run again, an   *)
(* entry that could be read is in a file of the directory or under lost/;  *)
(* and as long as no step fails, only an entry of a damaged table may have *)
(* to be looked for under lost/.                                           *)
NothingIsLost ==
  /\ source \subseteq Readable(dir \cup lost)
  /\ failures = 0 =>
       source \subseteq Readable(dir \cup {f \in lost : f.kind = "table"})

(* What is repaired has a descriptor that covers its tables: their entries, *)
(* sequence numbers and keys, and no number a file has is given again.     *)
DescriptorCovers ==
  Repaired =>
    /\ failures = 0 /\ stops = 0 =>
         source \subseteq UNION {Contents(t) : t \in manifest.files}
    /\ \A t \in manifest.files : \A e \in Contents(t) :
         /\ e.seq <= manifest.last
         /\ t.smallest <= e.key /\ e.key <= t.largest
    /\ \A f \in dir : f.num < manifest.next

(* Version::Get asks level 0 from the newest file, the one of the highest   *)
(* number, on, and stops at the first entry.                               *)
Get(k) ==
  LET having == {t \in manifest.files : \E e \in Contents(t) : e.key = k}
      first == CHOOSE t \in having : \A o \in having : o.num <= t.num
  IN Max({e.seq : e \in {f \in Contents(first) : f.key = k}})
NewestIsFound ==
  Repaired =>
    \A e \in UNION {Contents(t) : t \in manifest.files} : Get(e.key) >= e.seq
=============================================================================
