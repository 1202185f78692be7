------------------------------ MODULE LogFile -------------------------------
(***************************************************************************)
(* The format of logs and descriptors (db/log_writer.cc, db/log_reader.cc): *)
(* a record is cut into fragments that never cross a block; the reader     *)
(* puts them together again, ends quietly at a torn end and finds its feet *)
(* after damage.  A file is a sequence of cells: a header is kHeaderSize   *)
(* cells, of which the first carries type, length and checksum (the        *)
(* payload it was computed from); a payload cell is a place in a record.   *)
(***************************************************************************)
EXTENDS Integers, Sequences, SequencesExt

CONSTANTS
  kBlockSize, kHeaderSize,  \* 0 < kHeaderSize < kBlockSize
  Lengths,      \* the lengths of the records written
  MaxRecords    \* bound: records written

VARIABLES
  file,     \* the cells on the disk
  offset,   \* the writer's block_offset_
  written,  \* [n, at, end]: the records added, and where they are
  damage,   \* what happened: "none", "cut", "failed", "bad" or "unread"
  rd,       \* the reader: [st, initial, pos, buf, eof, resync, frag, scratch]
  got,      \* the records it returned
  drops     \* its reports of corruption

logVars == <<file, offset, written, damage, rd, got, drops>>

Start(t, data) == [k |-> "head", t |-> t, data |-> data]
Rest == [k |-> "rest"]
Zero == [k |-> "zero"]
Bad == [k |-> "bad"]
Header(t, data) ==
  <<Start(t, data)>> \o [i \in 1 .. kHeaderSize - 1 |-> Rest]
Payload(id, from, n) == [i \in 1 .. n |-> [k |-> "data", d |-> <<id, from + i>>]]
Whole(id, n) == Payload(id, 0, n)

TypeOf(begin, end) ==
  IF begin THEN IF end THEN "full" ELSE "first"
  ELSE IF end THEN "last" ELSE "middle"

\* Mutant: the last bytes of a block that can hold no header are not filled.
Trailer_None(off) == <<>>
Trailer(off) ==
  IF kBlockSize - off < kHeaderSize
    THEN [i \in 1 .. kBlockSize - off |-> Zero] ELSE <<>>

(* Writer::AddRecord: the cells of record id, of length n, written at off.  *)
Cells(id, n, off) ==
  LET Emit[left \in 0 .. n, at \in 0 .. kBlockSize, begin \in BOOLEAN] ==
        LET block == IF kBlockSize - at < kHeaderSize THEN 0 ELSE at
            avail == kBlockSize - block - kHeaderSize
            len == IF left < avail THEN left ELSE avail
            data == Payload(id, n - left, len)
            here == Trailer(at)
                      \o Header(TypeOf(begin, left = len), data) \o data
        IN IF left = len THEN here
           ELSE here \o Emit[left - len, block + kHeaderSize + len, FALSE]
  IN Emit[n, off, TRUE]
OffsetAfter(n, off) ==
  LET Next[left \in 0 .. n, at \in 0 .. kBlockSize] ==
        LET block == IF kBlockSize - at < kHeaderSize THEN 0 ELSE at
            avail == kBlockSize - block - kHeaderSize
        IN IF left <= avail THEN block + kHeaderSize + left
           ELSE Next[left - avail, kBlockSize]
  IN Next[n, off]

Reader(initial) ==
  [st |-> "off", initial |-> initial, pos |-> 0, buf |-> <<>>, eof |-> FALSE,
   resync |-> initial > 0, frag |-> FALSE, scratch |-> <<>>]

Init ==
  /\ file = <<>> /\ offset = 0 /\ written = <<>> /\ damage = "none"
  /\ rd = Reader(0) /\ got = <<>> /\ drops = 0

-----------------------------------------------------------------------------
(* The writer, and what happens to its file. *)

AddRecord(n) ==
  /\ rd.st = "off" /\ Len(written) < MaxRecords /\ damage \in {"none", "failed"}
  /\ LET id == Len(written) + 1
         cells == Cells(id, n, offset)
         pad == Len(Trailer(offset))
     IN /\ file' = file \o cells
        /\ written' = Append(written, [n |-> n, at |-> Len(file) + pad,
                                       end |-> Len(file) + Len(cells)])
  /\ offset' = OffsetAfter(n, offset)
  /\ UNCHANGED <<damage, rd, got, drops>>

(* An Append or the Flush of a fragment fails: some of its cells are in the *)
(* file, none of the later ones, and block_offset_ moves on behind it.     *)
AppendFails(n) ==
  /\ rd.st = "off" /\ Len(written) < MaxRecords /\ damage = "none"
  /\ \E id \in {Len(written) + 1}, pad \in {Len(Trailer(offset))} :
     \E cells \in {Cells(id, n, offset)} :
     \E ends \in {{p \in pad + 1 .. Len(cells) :
                     p = Len(cells) \/ cells[p + 1].k = "head"}} :
     \E p \in ends : \E i \in 0 .. p :
       /\ \A q \in ends : q < p => q <= i
       /\ file' = file \o SubSeq(cells, 1, i)
       /\ offset' = ((offset + p - 1) % kBlockSize) + 1
       /\ written' = Append(written, [n |-> n, at |-> Len(file) + pad,
                                      end |-> Len(file) + Len(cells)])
  /\ damage' = "failed"
  /\ UNCHANGED <<rd, got, drops>>

(* The machine stopped: the file ends anywhere. *)
Cut ==
  /\ rd.st = "off" /\ damage = "none"
  /\ \E i \in 0 .. Len(file) - 1 : file' = SubSeq(file, 1, i)
  /\ damage' = "cut"
  /\ UNCHANGED <<offset, written, rd, got, drops>>

(* One byte goes bad. *)
Spoil ==
  /\ rd.st = "off" /\ damage = "none"
  /\ \E i \in DOMAIN file : file' = [file EXCEPT ![i] = Bad]
  /\ damage' = "bad"
  /\ UNCHANGED <<offset, written, rd, got, drops>>

-----------------------------------------------------------------------------
(* The reader. *)

(* SkipToInitialBlock *)
StartReading(initial) ==
  /\ rd.st = "off" /\ written # <<>>
  /\ initial > 0 => damage = "none"
  /\ LET inBlock == initial % kBlockSize
         start == initial - inBlock
                    + (IF inBlock > kBlockSize - (kHeaderSize - 1)
                         THEN kBlockSize ELSE 0)
     IN rd' = [Reader(initial) EXCEPT !.st = "on", !.pos = start]
  /\ UNCHANGED <<file, offset, written, damage, got, drops>>

Reading == rd.st = "on"
Between(s, i, j) == SubSeq(s, i + 1, IF j < Len(s) THEN j ELSE Len(s))
Short == Len(rd.buf) < kHeaderSize
(* The next block is read; a short one is the last. *)
Fill ==
  /\ Reading /\ Short /\ ~rd.eof
  /\ LET block == Between(file, rd.pos, rd.pos + kBlockSize)
     IN rd' = [rd EXCEPT !.buf = block, !.pos = @ + Len(block),
                         !.eof = Len(block) < kBlockSize]
  /\ UNCHANGED <<file, offset, written, damage, got, drops>>

(* kEof: a fragmented record without its end is forgotten. *)
End ==
  /\ rd' = [Reader(rd.initial) EXCEPT !.st = "done"]
  /\ UNCHANGED <<file, offset, written, damage, got, drops>>
AtEof == Reading /\ Short /\ rd.eof /\ End

(* The block cannot be read: that is the end, and it is reported.           *)
ReadFails ==
  /\ Reading /\ Short /\ ~rd.eof /\ damage = "none"
  /\ damage' = "unread"
  /\ rd' = [Reader(rd.initial) EXCEPT !.st = "done"]
  /\ drops' = drops + 1
  /\ UNCHANGED <<file, offset, written, got>>

(* ReportDrop tells nobody about what lies before the initial offset.      *)
Dropped(buf, bytes) ==
  IF rd.pos - Len(buf) - bytes >= rd.initial THEN 1 ELSE 0

(* kBadRecord *)
\* Mutant: the fragments from before the damage stay.
BadRecord_Kept(buf, reported) ==
  /\ rd' = [rd EXCEPT !.buf = buf, !.resync = FALSE]
  /\ drops' = drops + reported
  /\ UNCHANGED <<file, offset, written, damage, got>>
BadRecord(buf, reported) ==
  /\ rd' = [rd EXCEPT !.buf = buf, !.resync = FALSE, !.frag = FALSE,
                      !.scratch = <<>>]
  /\ drops' = drops + reported
                + (IF rd.frag THEN Dropped(buf, Len(rd.scratch)) ELSE 0)
  /\ UNCHANGED <<file, offset, written, damage, got>>

(* What the length field may say: anything where the header is not one.    *)
Intact == rd.buf[1].k = "head"
            /\ \A i \in 2 .. kHeaderSize : rd.buf[i] = Rest
LengthsRead ==
  IF rd.buf[1].k = "head" THEN {Len(rd.buf[1].data)}
    \cup (IF Intact THEN {} ELSE 0 .. kBlockSize)
  ELSE 0 .. kBlockSize

Parsing == Reading /\ ~Short
TooLong ==
  /\ Parsing
  /\ \E n \in LengthsRead : kHeaderSize + n > Len(rd.buf)
  /\ IF rd.eof THEN End
     ELSE BadRecord(<<>>, Dropped(<<>>, Len(rd.buf)))

(* A zeroed header, of a region somebody preallocated. *)
ZeroLength ==
  /\ Parsing /\ ~Intact
  /\ BadRecord(<<>>, 0)

Sound(n) == Intact /\ SubSeq(rd.buf, kHeaderSize + 1, kHeaderSize + n)
                        = rd.buf[1].data
BadChecksum ==
  /\ Parsing
  /\ \E n \in LengthsRead : kHeaderSize + n <= Len(rd.buf) /\ ~Sound(n)
  /\ BadRecord(<<>>, Dropped(<<>>, Len(rd.buf)))

Fragment == rd.buf[1].data
After == SubSeq(rd.buf, kHeaderSize + Len(Fragment) + 1, Len(rd.buf))
StartOf == rd.pos - Len(rd.buf)
Good == /\ Parsing /\ Intact
        /\ kHeaderSize + Len(Fragment) <= Len(rd.buf)
        /\ Sound(Len(Fragment))

(* A fragment that starts before the initial offset. *)
TooEarly ==
  /\ Good /\ StartOf < rd.initial
  /\ BadRecord(After, 0)

(* Middle and last fragments right after a seek belong to no record.       *)
Resync ==
  /\ Good /\ StartOf >= rd.initial
  /\ rd.resync /\ rd.buf[1].t \in {"middle", "last"}
  /\ rd' = [rd EXCEPT !.buf = After, !.resync = rd.buf[1].t = "middle"]
  /\ UNCHANGED <<file, offset, written, damage, got, drops>>

(* The switch of ReadRecord for the four types. *)
\* Mutant: a first fragment goes on with what was left of another record.
Gathered_Kept == rd.scratch \o Fragment
Gathered ==
  IF rd.buf[1].t \in {"full", "first"} THEN Fragment
  ELSE rd.scratch \o Fragment
Take ==
  /\ Good /\ StartOf >= rd.initial
  /\ ~(rd.resync /\ rd.buf[1].t \in {"middle", "last"})
  /\ LET t == rd.buf[1].t
         orphan == t \in {"middle", "last"} /\ ~rd.frag
         left == t \in {"full", "first"} /\ rd.frag /\ rd.scratch # <<>>
     IN /\ rd' = [rd EXCEPT !.buf = After, !.resync = FALSE,
                    !.frag = t = "first" \/ (t = "middle" /\ rd.frag),
                    !.scratch = IF t \in {"first", "middle"} /\ ~orphan
                                  THEN Gathered ELSE <<>>]
        /\ got' = IF t \in {"full", "last"} /\ ~orphan
                    THEN Append(got, Gathered) ELSE got
        /\ drops' = drops
             + (IF orphan THEN Dropped(After, Len(Fragment)) ELSE 0)
             + (IF left THEN Dropped(After, Len(rd.scratch)) ELSE 0)
  /\ UNCHANGED <<file, offset, written, damage>>

Next ==
  \/ \E n \in Lengths : AddRecord(n) \/ AppendFails(n)
  \/ Cut \/ Spoil
  \/ \E initial \in 0 .. Len(file) : StartReading(initial)
  \/ Fill \/ ReadFails \/ AtEof \/ TooLong \/ ZeroLength \/ BadChecksum \/ TooEarly
  \/ Resync \/ Take

Spec == Init /\ [][Next]_logVars

-----------------------------------------------------------------------------
Done == rd.st = "done"
Ids == DOMAIN written
Records(I) ==
  LET ids == SetToSortSeq(I, <)
  IN [i \in DOMAIN ids |-> Whole(ids[i], written[ids[i]].n)]

(* A reader returns, in their order, exactly the records that are whole in  *)
(* a file cut anywhere, from the initial offset on; it reports no damage   *)
(* (when it starts inside of a record it may: a fragment before the        *)
(* initial offset ends the resynchronisation).                             *)
CutReadsBack ==
  Done /\ damage \in {"none", "cut"} =>
    /\ got = Records({i \in Ids : /\ written[i].end <= Len(file)
                                  /\ written[i].at >= rd.initial})
    /\ rd.initial = 0 => drops = 0

(* Damage costs the records of its block at most: of the others none is     *)
(* lost, and none is invented, taken twice or out of order.                *)
BlockOf(i) == (i - 1) \div kBlockSize
DamageStaysInBlock ==
  Done /\ damage = "bad" =>
    LET hit == BlockOf(CHOOSE i \in DOMAIN file : file[i] = Bad)
        Spared(r) == BlockOf(r.end) < hit \/ BlockOf(r.at + 1) > hit
    IN \E I \in SUBSET Ids :
         got = Records(I) /\ {i \in Ids : Spared(written[i])} \subseteq I

(* After a failed append or read too, what is returned was written.         *)
NothingInvented ==
  \A i \in DOMAIN got :
    \E j \in DOMAIN written : got[i] = Whole(j, written[j].n)
=============================================================================
