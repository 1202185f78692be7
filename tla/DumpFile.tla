------------------------------- MODULE DumpFile -------------------------------
(***************************************************************************)
(* DumpFile (db/dumpfile.cc): prints what is in a log, a descriptor or a   *)
(* table, line by line.  What the readers make of the bytes is modelled in *)
(* LogFile, Encoding and Table; here a file is the sequence of what they   *)
(* return: records, damage, or entries.  Any call that can fail may.       *)
(***************************************************************************)
EXTENDS Integers, Sequences, FiniteSets, SequencesExt

CONSTANTS
  Files             \* the files: a name's type, or "unknown", and the parts

VARIABLES
  file,             \* the file dumped
  pc,               \* where DumpFile is
  rest,             \* the parts the reader has not returned yet
  open,             \* the objects DumpFile has to delete
  out,              \* the lines appended to dst
  lost,             \* has an Append to dst failed?
  result            \* the status returned

dumpVars == <<file, pc, rest, open, out, lost, result>>

-----------------------------------------------------------------------------
(* A part: bytes the log reader drops, a record of a log - with the items   *)
(* of a batch that can be read and whether those are all -, an edit, an     *)
(* entry of a table, or an error of its iterator.                           *)
Line(what, of) == [what |-> what, of |-> of]

CorruptionReporter(p) == <<Line("corruption", p.id)>>

(* Items are printed as Iterate comes to them, also before its error.       *)
WriteBatchPrinter(p) ==
  IF p.kind = "small" THEN <<Line("too small", p.id)>>
  ELSE <<Line("sequence", p.id)>>
         \o [i \in DOMAIN p.items |-> Line("item", p.items[i])]
         \o (IF p.ok THEN <<>> ELSE <<Line("error", p.id)>>)

VersionEditPrinter(p) ==
  IF p.ok THEN <<Line("edit", p.id)>> ELSE <<Line("error", p.id)>>

EntryLine(p) ==
  IF p.ok THEN <<Line("entry", p.id)>> ELSE <<Line("badkey", p.id)>>

Printed(p) ==
  CASE p.kind = "dropped" -> CorruptionReporter(p)
    [] p.kind \in {"small", "batch"} -> WriteBatchPrinter(p)
    [] p.kind = "edit" -> VersionEditPrinter(p)
    [] p.kind = "entry" -> EntryLine(p)
    [] p.kind = "iterator error" -> <<Line("iterator error", p.id)>>

(* dst->Append, whose status nobody looks at: a line may be lost.           *)
AppendTo(lines) ==
  \E gone \in SUBSET DOMAIN lines :
    /\ out' = out \o [i \in DOMAIN lines |->
                       IF i \in gone THEN Line("lost", 0) ELSE lines[i]]
    /\ lost' = (lost \/ gone # {})

Return(s) == pc' = "done" /\ result' = s

-----------------------------------------------------------------------------
(* GuessType by the name, then the function for the type.                   *)
Dump ==
  /\ pc = "start"
  /\ CASE file.type \in {"log", "descriptor"} ->
            pc' = "open log" /\ UNCHANGED result
       [] file.type = "table" -> pc' = "open table" /\ UNCHANGED result
       [] OTHER -> Return("InvalidArgument")
  /\ UNCHANGED <<file, rest, open, out, lost>>

(* PrintLogContents *)
OpenLog(ok) ==
  /\ pc = "open log"
  /\ IF ok THEN pc' = "read" /\ open' = {"file"} /\ UNCHANGED result
     ELSE Return("IOError") /\ UNCHANGED open
  /\ UNCHANGED <<file, rest, out, lost>>

(* DumpTable: the size, the file and the table; what is NULL is not freed.  *)
OpenTable(opened) ==
  /\ pc = "open table"
  /\ IF opened = {"file", "table"}
     THEN pc' = "read" /\ open' = opened \cup {"iter"} /\ UNCHANGED result
     ELSE Return("IOError") /\ UNCHANGED open
  /\ UNCHANGED <<file, rest, out, lost>>

Read ==
  /\ pc = "read" /\ rest # <<>> /\ rest' = Tail(rest)
  /\ AppendTo(Printed(Head(rest)))
  /\ UNCHANGED <<file, pc, open, result>>

(* Damage has been printed; the status says that the file was there.        *)
Finish ==
  /\ pc = "read" /\ rest = <<>> /\ Return("OK") /\ open' = {}
  /\ UNCHANGED <<file, rest, out, lost>>

Init ==
  /\ file \in Files /\ pc = "start" /\ rest = file.parts /\ open = {}
  /\ out = <<>> /\ lost = FALSE /\ result = "none"

Next ==
  \/ Dump \/ Read \/ Finish
  \/ \E ok \in BOOLEAN : OpenLog(ok)
  \/ \E opened \in {{}, {"file"}, {"file", "table"}} : OpenTable(opened)

-----------------------------------------------------------------------------
\* How often something of the file is printed
Count(what, of) == Len(SelectSeq(out, LAMBDA l : l = Line(what, of)))
Says(p) ==
  CASE p.kind = "batch" ->
         /\ \A i \in DOMAIN p.items : Count("item", p.items[i]) = 1
         /\ Count("error", p.id) = IF p.ok THEN 0 ELSE 1
    [] OTHER -> \E l \in ToSet(out) : l.of = p.id

(* A dump that returns OK to somebody who could print it has printed every  *)
(* item of every record, those before an error too, and every piece of      *)
(* damage; however it ends nothing is left open (DumpFile).                 *)
EverythingIsDumped ==
  pc = "done" =>
    /\ open = {}
    /\ result = "OK" /\ ~lost => \A i \in DOMAIN file.parts : Says(file.parts[i])
=============================================================================
