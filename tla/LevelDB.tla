------------------------------ MODULE LevelDB -------------------------------
(***************************************************************************)
(* DBImpl and VersionSet of the LevelDB under the persistence of the       *)
(* Realtime Database (db/db_impl.cc, db/version_set.cc): writers queue up, *)
(* the first writes the log for a group and fills the memtable; a full     *)
(* memtable and a new log are swapped in and one background thread writes  *)
(* the old one to a table, merges tables of one level into the next and    *)
(* records each change in the manifest; obsolete files are deleted.  The   *)
(* process or the machine may stop at every step; opening reads CURRENT,   *)
(* the manifest and the logs back.                                         *)
(*                                                                         *)
(* An action is what one thread does between taking mutex_ and releasing   *)
(* it, or while it works unlocked.                                         *)
(***************************************************************************)
EXTENDS Versions

CONSTANTS
  Writers, Readers,    \* threads of the application
  Requests,            \* [batch, sync]: the calls of Write; <<>> is a NULL batch
  Ranges,              \* [level, lo, hi]: the ranges asked to be compacted
  WriteBufferSize,     \* the entries a memtable holds before it is full
  MaxGroup,            \* BuildBatchGroup's max_size, in updates
  L0Slowdown, L0Stop,  \* config::kL0_SlowdownWritesTrigger, StopWritesTrigger
  Faults,              \* the steps that may fail: "log", "sync", "table", ...
  SeeksWearOut,        \* allowed_seeks may run out
  Stops,               \* how the store may stop: "kill", "power", "close"
  MaxSeq, MaxStops     \* bounds: entries ever written, stops

(* A batch is a sequence of updates. *)
ASSUME RequestsAssumption == \A q \in Requests : q.batch \in Seq(ToSet(q.batch))

VARIABLES
  \* The disk.
  logs,       \* log files: number -> [recs, synced, torn]
  tables,     \* table files: number -> entries
  manifests,  \* descriptors: number -> the states it may be read back as:
              \* the synced one, then the one after each edit not synced yet
  curfile,    \* the descriptor CURRENT names; 0: no database
  \* DBImpl.
  db,         \* "closed", "recovering", "opening", "open", "closing"
  recovery,   \* Recover's logs still to read, and what it read: [left, at,
              \* added, last], in a set of at most one
  mem,        \* mem_
  imm,        \* imm_: a set of at most one memtable
  lognum,     \* logfile_number_
  vs,         \* VersionSet: [v, log, next, last, man, after, seek]
  queue,      \* writers_
  wr,         \* each writer's call
  group,      \* the updates the front of the queue writes, or {}
  scheduled,  \* bg_compaction_scheduled_
  bg,         \* the background thread
  failed,     \* bg_error_ is set
  pending,    \* pending_outputs_
  manual,     \* TEST_CompactRange's caller
  rd,         \* each reader's snapshot and the lookup under way
  \* What the callers were told, for the properties.
  applied, limbo, durable, stops

disk == <<logs, tables, manifests, curfile>>
life == <<db, recovery>>
told == <<applied, limbo, durable>>
writing == <<queue, wr, group>>
vars == <<logs, tables, manifests, curfile, db, recovery, mem, imm, lognum, vs,
          queue, wr, group, scheduled, bg, failed, pending, manual, rd, applied,
          limbo, durable, stops>>

-----------------------------------------------------------------------------
(* States and edits of a descriptor. *)

NoWriter == [pc |-> "idle", batch |-> <<>>, sync |-> FALSE, delay |-> FALSE,
             force |-> FALSE, st |-> "idle"]
NoReader == [snap |-> {}, get |-> {}]
IdleBg == [pc |-> "idle", edit |-> {}, c |-> {}, num |-> 0, manual |-> FALSE]
IdleManual == [pc |-> "idle", range |-> {}, armed |-> FALSE, done |-> FALSE]

EmptyLog == [recs |-> <<>>, synced |-> 0, torn |-> FALSE]
NewState == [v |-> EmptyVersion, log |-> 0, next |-> 2, last |-> 0,
             after |-> [l \in Levels |-> {}]]
ClosedVs == [v |-> EmptyVersion, log |-> 0, next |-> 2, last |-> 0, man |-> 0,
             after |-> [l \in Levels |-> {}], seek |-> {}]

(* What a reader of the descriptor makes of one more edit. *)
AfterEdit(st, e) ==
  [v |-> ApplyEdit(st.v, e.deleted, e.added), log |-> e.log, next |-> e.next,
   last |-> e.last,
   after |-> [l \in Levels |-> IF \E p \in e.after : p[1] = l
                THEN {p[2] : p \in {q \in e.after : q[1] = l}}
                ELSE st.after[l]]]
(* VersionSet::Recover: the state after the last edit. *)
ReadState(m) == m[Len(m)]
(* LogAndApply adds the edit e to the descriptor. *)
Added(e) ==
  [manifests EXCEPT ![vs.man] = Append(@, AfterEdit(ReadState(@), e))]

(* LogAndApply completes an edit with the counters. *)
Edit(deleted, added, log, next, after) ==
  [deleted |-> deleted, added |-> added, log |-> log, next |-> next,
   last |-> vs.last, after |-> after]

(* Numbered: updates get consecutive sequence numbers. *)
Numbered(updates, n) ==
  {[k |-> updates[i].k, s |-> n + i, del |-> updates[i].del] :
     i \in DOMAIN updates}

(* A file is written: number n holds x. *)
With(files, n, x) ==
  [m \in DOMAIN files \cup {n} |-> IF m = n THEN x ELSE files[m]]

(* Some is the element of a set of one. *)
Some(S) == CHOOSE x \in S : TRUE

NeedsWork(im, mn, s) ==
  im # {} \/ mn.armed \/ NeedsSizeCompaction(s.v) \/ s.seek # {}
(* MaybeScheduleCompaction, given the state it sees. *)
MaybeSchedule(was, im, mn, s, f) ==
  scheduled' = (was \/ (db # "closing" /\ ~f /\ NeedsWork(im, mn, s)))

(* bg_cv_.SignalAll: a writer or compaction that waited looks again. *)
\* Mutant: nobody is woken.
Woken_Never(W) == W
Woken(W) == [w \in Writers |-> IF W[w].pc = "bgwait"
                                 THEN [W[w] EXCEPT !.pc = "room"] ELSE W[w]]
WokenManual(m) == [m EXCEPT !.pc = IF @ = "wait" THEN "loop" ELSE @]

-----------------------------------------------------------------------------
(* Writers: DBImpl::Write. *)

(* The sequence numbers used up when all calls are through. *)
NumbersAfter(q) ==
  vs.last + Len(q.batch)
    + FoldLeft(LAMBDA n, x : n + Len(wr[x].batch), 0, queue)

Write(w, q) ==
  /\ db = "open" /\ wr[w].pc = "idle"
  /\ NumbersAfter(q) <= MaxSeq
  /\ q.batch = <<>> => mem # {}  \* bound: no caller flushes an empty memtable
  /\ queue' = Append(queue, w)
  /\ wr' = [wr EXCEPT ![w] =
              [pc |-> IF queue = <<>> THEN "room" ELSE "asleep",
               batch |-> q.batch, sync |-> q.sync,
               delay |-> q.batch # <<>>, force |-> q.batch = <<>>,
               st |-> "waiting"]]
  /\ UNCHANGED <<disk, life, mem, imm, lognum, vs, group, scheduled, bg, failed,
                 pending, manual, rd, told, stops>>

(* The first n writers are answered and the next one is woken. *)
\* Mutant: only the first leaves the queue.
PopWriters_FirstOnly(n, st) ==
  /\ queue' = Tail(queue)
  /\ wr' = [w \in Writers |->
              IF w \in {queue[i] : i \in 1 .. n} THEN [NoWriter EXCEPT !.st = st]
              ELSE IF Len(queue) > 1 /\ w = queue[2]
                THEN [wr[w] EXCEPT !.pc = "room"] ELSE wr[w]]
PopWriters(n, st) ==
  LET out == {queue[i] : i \in 1 .. n}
      rest == SubSeq(queue, n + 1, Len(queue))
  IN /\ queue' = rest
     /\ wr' = [w \in Writers |->
                 IF w \in out THEN [NoWriter EXCEPT !.st = st]
                 ELSE IF rest # <<>> /\ w = rest[1]
                   THEN [wr[w] EXCEPT !.pc = "room"] ELSE wr[w]]

AtRoom(w) == queue # <<>> /\ queue[1] = w /\ wr[w].pc = "room"
L0Files == Cardinality(vs.v[0])
MustDelay(w) == wr[w].delay /\ L0Files >= L0Slowdown
HasRoom(w) == ~wr[w].force /\ Cardinality(mem) <= WriteBufferSize

(* MakeRoomForWrite: an earlier background error ends the call. *)
RefuseWrite(w) ==
  /\ AtRoom(w) /\ failed
  /\ PopWriters(1, "failed")
  /\ UNCHANGED <<disk, life, mem, imm, lognum, vs, group, scheduled, bg, failed,
                 pending, manual, rd, told, stops>>

(* ... the call is delayed once when level 0 is getting full. *)
DelayWrite(w) ==
  /\ AtRoom(w) /\ ~failed /\ MustDelay(w)
  /\ wr' = [wr EXCEPT ![w].delay = FALSE]
  /\ UNCHANGED <<disk, life, mem, imm, lognum, vs, queue, group, scheduled, bg,
                 failed, pending, manual, rd, told, stops>>

(* ... it waits for the other memtable, or for level 0, *)
WaitForRoom(w) ==
  /\ AtRoom(w) /\ ~failed /\ ~MustDelay(w) /\ ~HasRoom(w)
  /\ imm # {} \/ L0Files >= L0Stop
  /\ wr' = [wr EXCEPT ![w].pc = "bgwait"]
  /\ UNCHANGED <<disk, life, mem, imm, lognum, vs, queue, group, scheduled, bg,
                 failed, pending, manual, rd, told, stops>>

(* ... or swaps in an empty memtable and a new log. *)
SwitchMemTable(w) ==
  /\ AtRoom(w) /\ ~failed /\ ~MustDelay(w) /\ ~HasRoom(w)
  /\ imm = {} /\ L0Files < L0Stop
  /\ lognum' = vs.next
  /\ vs' = [vs EXCEPT !.next = @ + 1]
  /\ logs' = With(logs, vs.next, EmptyLog)
  /\ imm' = {mem} /\ mem' = {}
  /\ wr' = [wr EXCEPT ![w].force = FALSE]
  /\ MaybeSchedule(scheduled, imm', manual, vs', failed)
  /\ UNCHANGED <<tables, manifests, curfile, life, queue, group, bg, failed,
                 pending, manual, rd, told, stops>>

(* ... the new log cannot be made: the number is given back. *)
SwitchFails(w) ==
  /\ "newlog" \in Faults
  /\ AtRoom(w) /\ ~failed /\ ~MustDelay(w) /\ ~HasRoom(w)
  /\ imm = {} /\ L0Files < L0Stop
  /\ PopWriters(1, "failed")
  /\ UNCHANGED <<disk, life, mem, imm, lognum, vs, group, scheduled, bg, failed,
                 pending, manual, rd, told, stops>>

(* A NULL batch has nothing to write. *)
NothingToWrite(w) ==
  /\ AtRoom(w) /\ ~failed /\ ~MustDelay(w) /\ HasRoom(w)
  /\ wr[w].batch = <<>>
  /\ PopWriters(1, "ok")
  /\ UNCHANGED <<disk, life, mem, imm, lognum, vs, group, scheduled, bg, failed,
                 pending, manual, rd, told, stops>>

(* BuildBatchGroup: the writers after the first whose batches fit, up to a  *)
(* sync write that the first one's options would not sync.                 *)
\* Mutant: synced writes join a group that is not synced.
GroupOf_AnySync(q) ==
  LET Len_(n) == FoldLeft(LAMBDA m, i : m + Len(wr[q[i]].batch), 0,
                          [i \in 1 .. n |-> i])
      Joins(i) == wr[q[i]].batch # <<>> => Len_(i) <= MaxGroup
  IN Max({n \in DOMAIN q : \A i \in 2 .. n : Joins(i)})
GroupOf(q) ==
  LET Len_(n) == FoldLeft(LAMBDA m, i : m + Len(wr[q[i]].batch), 0,
                          [i \in 1 .. n |-> i])
      Joins(i) == /\ wr[q[i]].sync => wr[q[1]].sync
                  /\ wr[q[i]].batch # <<>> => Len_(i) <= MaxGroup
  IN Max({n \in DOMAIN q : \A i \in 2 .. n : Joins(i)})

(* The front of the queue gathers its group and releases the mutex. *)
StartGroup(w) ==
  /\ AtRoom(w) /\ ~failed /\ ~MustDelay(w) /\ HasRoom(w)
  /\ wr[w].batch # <<>>
  /\ LET n == GroupOf(queue)
         updates == FlattenSeq([i \in 1 .. n |-> wr[queue[i]].batch])
     IN group' = {[n |-> n, ents |-> Numbered(updates, vs.last),
                   last |-> vs.last + Len(updates), ok |-> TRUE,
                   bad |-> FALSE]}
  /\ wr' = [wr EXCEPT ![w].pc = "logging"]
  /\ UNCHANGED <<disk, life, mem, imm, lognum, vs, queue, scheduled, bg, failed,
                 pending, manual, rd, told, stops>>

(* AddRecord and, if asked for, Sync, with the mutex released.             *)
Logged(l, ents) == IF l.torn THEN l.recs ELSE Append(l.recs, ents)
AddRecord(w) ==
  /\ wr[w].pc = "logging"
  /\ LET ents == Some(group).ents
         recs == Logged(logs[lognum], ents)
     IN /\ logs' = [logs EXCEPT ![lognum] =
             [recs |-> recs, torn |-> @.torn,
              synced |-> IF wr[w].sync THEN Len(recs) ELSE @.synced]]
        /\ limbo' = limbo \cup {[ents |-> ents, log |-> lognum]}
  /\ wr' = [wr EXCEPT ![w].pc = "inserting"]
  /\ UNCHANGED <<tables, manifests, curfile, life, mem, imm, lognum, vs, queue,
                 group, scheduled, bg, failed, pending, manual, rd, applied,
                 durable, stops>>

(* A failed append leaves nothing, or part of a record: then what follows   *)
(* cannot be read.                                                          *)
AppendFails(w) ==
  /\ "log" \in Faults /\ wr[w].pc = "logging"
  /\ \E torn \in BOOLEAN :
       logs' = [logs EXCEPT ![lognum].torn = @ \/ torn]
  /\ group' = {[g EXCEPT !.ok = FALSE] : g \in group}
  /\ wr' = [wr EXCEPT ![w].pc = "inserting"]
  /\ UNCHANGED <<tables, manifests, curfile, life, mem, imm, lognum, vs, queue,
                 scheduled, bg, failed, pending, manual, rd, told, stops>>

(* A failed sync: the record may show up again, no write is taken any more. *)
SyncFails(w) ==
  /\ "sync" \in Faults /\ wr[w].pc = "logging" /\ wr[w].sync
  /\ LET ents == Some(group).ents
     IN /\ logs' = [logs EXCEPT ![lognum] =
             [recs |-> Logged(@, ents), torn |-> @.torn, synced |-> @.synced]]
        /\ limbo' = limbo \cup {[ents |-> ents, log |-> lognum]}
  /\ group' = {[n |-> g.n, ents |-> g.ents, last |-> g.last, ok |-> FALSE,
                bad |-> TRUE] : g \in group}
  /\ wr' = [wr EXCEPT ![w].pc = "inserting"]
  /\ UNCHANGED <<tables, manifests, curfile, life, mem, imm, lognum, vs, queue,
                 scheduled, bg, failed, pending, manual, rd, applied, durable,
                 stops>>

(* The memtable is filled, the numbers are used up, the group is answered. *)
FinishWrite(w) ==
  /\ wr[w].pc = "inserting"
  /\ LET g == Some(group)
         rec == [ents |-> g.ents, log |-> lognum]
         sync == \E i \in 1 .. g.n : wr[queue[i]].sync
     IN /\ mem' = IF g.ok THEN mem \cup g.ents ELSE mem
        /\ vs' = [vs EXCEPT !.last = g.last]
        /\ failed' = (failed \/ g.bad)
        /\ PopWriters(g.n, IF g.ok THEN "ok" ELSE "failed")
        /\ manual' = IF g.bad THEN WokenManual(manual) ELSE manual
        /\ applied' = IF g.ok THEN applied \cup {rec} ELSE applied
        /\ limbo' = IF g.ok THEN limbo \ {rec} ELSE limbo
        /\ durable' = IF g.ok /\ sync THEN durable \cup {g.ents} ELSE durable
  /\ group' = {}
  /\ UNCHANGED <<disk, life, imm, lognum, scheduled, bg, pending, rd, stops>>

-----------------------------------------------------------------------------
(* The background thread: BackgroundCall. *)

(* DeleteObsoleteFiles, given the version set and the tables to keep. *)
\* Mutant: the versions readers hold do not count.
DeleteObsolete_Read(s, keep, lg, tb, mf) ==
  LET live == {f.num : f \in FilesOf(s.v)} \cup keep
  IN /\ logs' = [n \in {x \in DOMAIN lg : x >= s.log} |-> lg[n]]
     /\ tables' = [n \in DOMAIN tb \cap live |-> tb[n]]
     /\ manifests' = [n \in {x \in DOMAIN mf : x >= s.man} |-> mf[n]]
\* Mutant: the log of the memtable goes too.
DeleteObsolete_Log(s, keep, lg, tb, mf) ==
  LET heldBy(r) == UNION {FilesOf(g.v) : g \in rd[r].get}
      live == {f.num : f \in FilesOf(s.v) \cup UNION {heldBy(r) : r \in Readers}}
                \cup keep
  IN /\ logs' = [n \in {x \in DOMAIN lg : x > s.log} |-> lg[n]]
     /\ tables' = [n \in DOMAIN tb \cap live |-> tb[n]]
     /\ manifests' = [n \in {x \in DOMAIN mf : x >= s.man} |-> mf[n]]
DeleteObsolete(s, keep, lg, tb, mf) ==
  LET heldBy(r) == UNION {FilesOf(g.v) : g \in rd[r].get}
      live == {f.num : f \in FilesOf(s.v) \cup UNION {heldBy(r) : r \in Readers}}
                \cup keep
  IN /\ logs' = [n \in {x \in DOMAIN lg : x >= s.log} |-> lg[n]]
     /\ tables' = [n \in DOMAIN tb \cap live |-> tb[n]]
     /\ manifests' = [n \in {x \in DOMAIN mf : x >= s.man} |-> mf[n]]

(* The call is over: the work left is scheduled again, all are woken. *)
EndCall(im, mn, s, f) ==
  /\ bg' = IdleBg
  /\ MaybeSchedule(FALSE, im, mn, s, f)
  /\ wr' = Woken(wr)
  /\ manual' = WokenManual(mn)

(* Nothing is done while the store closes or after an error. *)
SkipWork ==
  /\ scheduled /\ bg.pc = "idle"
  /\ db = "closing" \/ failed
  /\ EndCall(imm, manual, vs, failed)
  /\ UNCHANGED <<disk, life, mem, imm, lognum, vs, queue, group, failed,
                 pending, rd, told, stops>>

(* WriteLevel0Table: a number is taken and the mutex released.  A merge     *)
(* under way stops for this at each of its keys.                           *)
StartFlush ==
  /\ scheduled /\ imm # {}
  /\ \/ bg.pc = "idle" /\ ~failed /\ db # "closing"
     \/ bg.pc = "merge" /\ Some(bg.c).todo # <<>>
  /\ bg' = [bg EXCEPT !.pc = "build", !.num = vs.next]
  /\ vs' = [vs EXCEPT !.next = @ + 1]
  /\ pending' = pending \cup {vs.next}
  /\ UNCHANGED <<disk, life, mem, imm, lognum, writing, scheduled, failed,
                 manual, rd, told, stops>>

(* The end of CompactMemTable: back to the merge, or out of the call. *)
EndFlush(im, s, f) ==
  IF bg.c # {}
    THEN /\ bg' = [bg EXCEPT !.pc = "merge", !.edit = {}, !.num = 0]
         /\ wr' = Woken(wr)
         /\ manual' = WokenManual(manual)
         /\ UNCHANGED scheduled
    ELSE EndCall(im, manual, s, f)

(* The table is complete: its level is chosen and the edit goes to the      *)
(* descriptor, the mutex released again.                                   *)
BuildTable ==
  /\ bg.pc = "build" /\ db # "closing"
  /\ LET E == Some(imm)
         f == [num |-> bg.num, ents |-> E]
         level == PickLevelForMemTableOutput(vs.v, Smallest(f).k, Largest(f).k)
         added == IF E = {} THEN {} ELSE {<<level, f>>}
         e == Edit({}, added, lognum, vs.next, {})
     IN /\ tables' = IF E = {} THEN tables ELSE With(tables, bg.num, E)
        /\ manifests' = Added(e)
        /\ bg' = [bg EXCEPT !.pc = "flushlog", !.edit = {e}]
  /\ pending' = pending \ {bg.num}
  /\ UNCHANGED <<logs, curfile, life, mem, imm, lognum, vs, writing, scheduled,
                 failed, manual, rd, told, stops>>

(* The table cannot be written, or the store is being closed. *)
BuildFails ==
  /\ bg.pc = "build"
  /\ "table" \in Faults \/ db = "closing"
  /\ failed' = TRUE
  /\ pending' = pending \ {bg.num}
  /\ EndFlush(imm, vs, TRUE)
  /\ UNCHANGED <<disk, life, mem, imm, lognum, vs, queue, group, rd, told,
                 stops>>

(* LogAndApply's end: the edit is synced and its version is current. *)
Install(e) ==
  [vs EXCEPT !.v = ApplyEdit(@, e.deleted, e.added), !.log = e.log,
             !.seek = {}]
\* Mutant: the descriptor is not synced before files are deleted.
Synced_Not == manifests
Synced == [manifests EXCEPT ![vs.man] = <<ReadState(@)>>]
BaseOf(c) == {f.num : f \in FilesOf(c.base)}

FinishFlush ==
  /\ bg.pc = "flushlog"
  /\ vs' = Install(Some(bg.edit))
  /\ imm' = {}
  /\ IF failed
       THEN /\ manifests' = Synced /\ UNCHANGED <<logs, tables>>
       ELSE DeleteObsolete(vs', pending \cup UNION {BaseOf(c) : c \in bg.c},
                           logs, tables, Synced)
  /\ EndFlush(imm', vs', failed)
  /\ UNCHANGED <<curfile, life, mem, lognum, queue, group, failed, pending, rd,
                 told, stops>>

(* manual_compaction_ is NULL while the range it named is still merged: its *)
(* caller gave up after an error.                                          *)
RangeLost == bg.manual /\ ~manual.armed

(* The descriptor cannot be written or synced: the edit may be in it or not. *)
EditFails ==
  /\ "manifest" \in Faults
  /\ \/ UNCHANGED manifests
     \/ manifests' = [manifests EXCEPT ![vs.man] = SubSeq(@, 1, Len(@) - 1)]
ManifestFails ==
  /\ \/ bg.pc \in {"flushlog", "movelog"}
     \/ bg.pc = "mergelog" /\ ~RangeLost
  /\ EditFails
  /\ failed' = TRUE
  /\ IF bg.pc = "flushlog"
       THEN EndFlush(imm, vs, TRUE) /\ UNCHANGED pending
       ELSE /\ EndCall(imm, IF bg.manual THEN [manual EXCEPT !.done = TRUE,
                                                             !.armed = FALSE]
                            ELSE manual, vs, TRUE)
            /\ pending' = {}
  /\ UNCHANGED <<logs, tables, curfile, life, mem, imm, lognum, vs, queue,
                 group, rd, told, stops>>

-----------------------------------------------------------------------------
(* Compactions. *)

CanCompact ==
  /\ scheduled /\ bg.pc = "idle" /\ ~failed /\ db # "closing" /\ imm = {}
Oldest == Min(UNION {rd[r].snap : r \in Readers} \cup {vs.last})
Begun(c) ==
  [level |-> c.level, in0 |-> c.in0, in1 |-> c.in1, base |-> c.base,
   last |-> c.last, end |-> c.end, done |-> <<>>, todo |-> Outputs(c, Oldest)]
(* SetupOtherInputs moves compact_pointer_ at once. *)
Pointed(c) == [vs EXCEPT !.after[c.level] = {c.last}]

(* PickCompaction, when the files are merged. *)
StartMerge ==
  /\ CanCompact /\ ~manual.armed
  /\ \E c \in PickCompaction(vs.v, vs.after, vs.seek) :
       /\ ~IsTrivialMove(c)
       /\ bg' = [bg EXCEPT !.pc = "merge", !.c = {Begun(c)}]
       /\ vs' = Pointed(c)
  /\ UNCHANGED <<disk, life, mem, imm, lognum, writing, scheduled, failed,
                 pending, manual, rd, told, stops>>

(* ... and when the only file just moves to the next level. *)
StartMove ==
  /\ CanCompact /\ ~manual.armed
  /\ \E c \in PickCompaction(vs.v, vs.after, vs.seek) :
       /\ IsTrivialMove(c)
       /\ LET e == Edit(InputDeletions(c),
                        {<<c.level + 1, f>> : f \in c.in0},
                        vs.log, vs.next, {<<c.level, c.last>>})
          IN /\ bg' = [bg EXCEPT !.pc = "movelog", !.edit = {e}]
             /\ manifests' = Added(e)
       /\ vs' = Pointed(c)
  /\ UNCHANGED <<logs, tables, curfile, life, mem, imm, lognum, writing,
                 scheduled, failed, pending, manual, rd, told, stops>>

FinishMove ==
  /\ bg.pc = "movelog"
  /\ vs' = Install(Some(bg.edit))
  /\ manifests' = Synced
  /\ EndCall(imm, manual, vs', failed)
  /\ UNCHANGED <<logs, tables, curfile, life, mem, imm, lognum, queue, group,
                 failed, pending, rd, told, stops>>

(* A range somebody asked to have compacted; done when nothing is in it. *)
StartManual ==
  /\ CanCompact /\ manual.armed
  /\ \E m \in manual.range :
       \E in0 \in {ManualInputs(vs.v, m.level, m.lo, m.hi)} :
         IF in0 = {}
           THEN /\ EndCall(imm, [manual EXCEPT !.done = TRUE, !.armed = FALSE],
                           vs, failed)
                /\ UNCHANGED vs
           ELSE /\ \E c \in Compactions(vs.v, m.level, in0) :
                     /\ bg' = [bg EXCEPT !.pc = "merge", !.manual = TRUE,
                                         !.c = {Begun(c)}]
                     /\ vs' = Pointed(c)
                /\ UNCHANGED <<scheduled, wr, manual>>
  /\ UNCHANGED <<disk, life, mem, imm, lognum, queue, group, failed, pending,
                 rd, told, stops>>

(* OpenCompactionOutputFile to FinishCompactionOutputFile for one output. *)
MergeOutput ==
  /\ bg.pc = "merge" /\ db # "closing"
  /\ LET c == Some(bg.c)
     IN /\ c.todo # <<>>
        /\ bg' = [bg EXCEPT !.c =
             {[c EXCEPT !.todo = Tail(@),
                        !.done = Append(@, [num |-> vs.next,
                                            ents |-> Head(c.todo)])]}]
        /\ tables' = With(tables, vs.next, Head(c.todo))
  /\ vs' = [vs EXCEPT !.next = @ + 1]
  /\ pending' = pending \cup {vs.next}
  /\ UNCHANGED <<logs, manifests, curfile, life, mem, imm, lognum, writing,
                 scheduled, failed, manual, rd, told, stops>>

(* The caller's request after one merge: the rest of the range, or an end.  *)
(* It is there only while the caller waits, see NullRange.                  *)
AfterMerge(ok) ==
  IF ~bg.manual THEN manual
  ELSE [manual EXCEPT !.armed = FALSE, !.done = ~ok,
          !.range = {[m EXCEPT !.lo = Some(bg.c).end.k] : m \in @}]

(* InstallCompactionResults: the outputs replace the inputs. *)
LogMerge ==
  /\ bg.pc = "merge" /\ Some(bg.c).todo = <<>>
  /\ LET c == Some(bg.c)
         e == Edit(InputDeletions(c),
                   {<<c.level + 1, f>> : f \in ToSet(c.done)},
                   vs.log, vs.next, {<<c.level, c.last>>})
     IN /\ bg' = [bg EXCEPT !.pc = "mergelog", !.edit = {e}]
        /\ manifests' = Added(e)
  /\ UNCHANGED <<logs, tables, curfile, life, mem, imm, lognum, vs, writing,
                 scheduled, failed, pending, manual, rd, told, stops>>

FinishMerge ==
  /\ bg.pc = "mergelog" /\ ~RangeLost
  /\ vs' = Install(Some(bg.edit))
  /\ pending' = {}
  /\ IF failed
       THEN /\ manifests' = Synced /\ UNCHANGED <<logs, tables>>
       ELSE DeleteObsolete(vs', {}, logs, tables, Synced)
  /\ EndCall(imm, AfterMerge(TRUE), vs', failed)
  /\ UNCHANGED <<curfile, life, mem, imm, lognum, queue, group, failed, rd,
                 told, stops>>

(* An output cannot be written, or the store is being closed. *)
MergeFails ==
  /\ bg.pc = "merge" /\ ~RangeLost
  /\ "table" \in Faults \/ db = "closing"
  /\ failed' = TRUE
  /\ pending' = {}
  /\ EndCall(imm, AfterMerge(FALSE), vs, TRUE)
  /\ UNCHANGED <<disk, life, mem, imm, lognum, vs, queue, group, rd, told,
                 stops>>

(* TEST_CompactRange: its caller sets manual_compaction_ until it is done. *)
CompactRange(range) ==
  /\ db = "open" /\ manual.pc = "idle"
  /\ stops < MaxStops  \* bound: its merge may end the process, see NullRange
  /\ manual' = [pc |-> "loop", range |-> {range}, armed |-> FALSE,
                done |-> FALSE]
  /\ UNCHANGED <<disk, life, mem, imm, lognum, vs, writing, scheduled, bg,
                 failed, pending, rd, told, stops>>

(* ... which returns when it is done, or on an error: manual_compaction_ is  *)
(* cleared then, whether or not the range is being merged.                 *)
ManualLoop ==
  /\ manual.pc = "loop"
  /\ manual' = IF manual.done \/ failed THEN IdleManual
               ELSE IF manual.armed THEN [manual EXCEPT !.pc = "wait"]
               ELSE [manual EXCEPT !.armed = TRUE]
  /\ MaybeSchedule(scheduled, imm, manual', vs, failed)
  /\ UNCHANGED <<disk, life, mem, imm, lognum, vs, writing, bg, failed, pending,
                 rd, told, stops>>

-----------------------------------------------------------------------------
(* Readers. *)

GetSnapshot(r) ==
  /\ db = "open" /\ rd[r].snap = {}
  /\ rd' = [rd EXCEPT ![r].snap = {vs.last}]
  /\ UNCHANGED <<disk, life, mem, imm, lognum, vs, writing, scheduled, bg,
                 failed, pending, manual, told, stops>>

ReleaseSnapshot(r) ==
  /\ rd[r].snap # {} /\ rd[r].get = {}
  /\ rd' = [rd EXCEPT ![r].snap = {}]
  /\ UNCHANGED <<disk, life, mem, imm, lognum, vs, writing, scheduled, bg,
                 failed, pending, manual, told, stops>>

(* Get and NewIterator: the memtables and the version are referenced under  *)
(* the mutex and read without it.                                          *)
StartGet(r) ==
  /\ db = "open" /\ rd[r].get = {}
  /\ rd' = [rd EXCEPT ![r].get =
       {[s |-> IF rd[r].snap = {} THEN vs.last ELSE Some(rd[r].snap),
         mem |-> mem, imm |-> imm, v |-> vs.v]}]
  /\ UNCHANGED <<disk, life, mem, imm, lognum, vs, writing, scheduled, bg,
                 failed, pending, manual, told, stops>>

(* The lookup ends: a file read in vain too often is to be compacted, if    *)
(* the version it belongs to is still the current one.                     *)
EndGet(r, k) ==
  /\ rd[r].get # {}
  /\ LET g == Some(rd[r].get)
         inMem == Newest(g.mem \cup UNION g.imm, k, g.s) # {}
         worn == IF inMem \/ g.v # vs.v \/ vs.seek # {} THEN {}
                 ELSE SeekFile(g.v, k, g.s)
     IN /\ \/ UNCHANGED <<vs, scheduled>>
           \/ /\ worn # {} /\ SeeksWearOut
              /\ vs' = [vs EXCEPT !.seek = worn]
              /\ MaybeSchedule(scheduled, imm, manual, vs', failed)
  /\ rd' = [rd EXCEPT ![r].get = {}]
  /\ UNCHANGED <<disk, life, mem, imm, lognum, writing, bg, failed, pending,
                 manual, told, stops>>

-----------------------------------------------------------------------------
(* Stopping and opening. *)

Volatile ==
  /\ db' = "closed" /\ recovery' = {}
  /\ mem' = {} /\ imm' = {} /\ lognum' = 0 /\ vs' = ClosedVs
  /\ queue' = <<>> /\ wr' = [w \in Writers |-> NoWriter] /\ group' = {}
  /\ scheduled' = FALSE /\ bg' = IdleBg /\ failed' = FALSE /\ pending' = {}
  /\ manual' = IdleManual /\ rd' = [r \in Readers |-> NoReader]

(* What the files hold of the groups that were written. *)
Survivors ==
  LET st == ReadState(manifests'[curfile])
      there(r) == r.log \in DOMAIN logs' /\ r.log >= st.log
                    /\ r.ents \in ToSet(logs'[r.log].recs)
  IN {r \in applied : r.log < st.log \/ there(r)} \cup {r \in limbo : there(r)}
Stopped ==
  /\ stops' = stops + 1
  /\ Volatile
  /\ applied' = IF curfile = 0 THEN {} ELSE Survivors
  /\ limbo' = {}
  /\ UNCHANGED <<durable, curfile, tables>>

(* Only the process stops: all it wrote is in the files. *)
Kill ==
  /\ "kill" \in Stops /\ stops < MaxStops /\ db # "closed"
  /\ UNCHANGED <<logs, manifests>>
  /\ Stopped

(* The machine stops: unsynced ends of the files may be lost. *)
PowerLoss ==
  /\ "power" \in Stops /\ stops < MaxStops /\ db # "closed"
  /\ \E cut \in [DOMAIN logs -> 0 .. MaxSeq] :
       /\ \A n \in DOMAIN logs :
            logs[n].synced <= cut[n] /\ cut[n] <= Len(logs[n].recs)
       /\ logs' = [n \in DOMAIN logs |->
                    [logs[n] EXCEPT !.recs = SubSeq(@, 1, cut[n])]]
  /\ IF curfile = 0 THEN UNCHANGED manifests
     ELSE \E i \in DOMAIN manifests[curfile] :
            manifests' = [manifests EXCEPT ![curfile] = SubSeq(@, 1, i)]
  /\ Stopped

(* ~DBImpl: nobody uses the store; the background work is given up first. *)
Close ==
  /\ "close" \in Stops /\ stops < MaxStops /\ db = "open"
  /\ queue = <<>> /\ manual.pc = "idle"
  /\ rd = [r \in Readers |-> NoReader]
  /\ db' = "closing"
  /\ UNCHANGED <<disk, recovery, mem, imm, lognum, vs, writing, scheduled, bg,
                 failed, pending, manual, rd, told, stops>>

Closed ==
  /\ db = "closing" /\ ~scheduled
  /\ UNCHANGED <<logs, manifests>>
  /\ Stopped

(* The merge of a range ends, well or not, after its caller gave up: the     *)
(* background thread goes through manual_compaction_, NULL, and the process *)
(* ends.  After an error no file was deleted.                              *)
NullRange ==
  /\ RangeLost
  /\ \/ bg.pc = "merge" /\ ("table" \in Faults \/ db = "closing")
          /\ UNCHANGED manifests
     \/ bg.pc = "mergelog" /\ (manifests' = Synced \/ EditFails)
  /\ UNCHANGED logs
  /\ Stopped

(* NewDB: an empty descriptor, and CURRENT naming it. *)
NewDB ==
  /\ db = "closed" /\ curfile = 0
  /\ manifests' = With(manifests, 1, <<NewState>>)
  /\ curfile' = 1
  /\ UNCHANGED <<logs, tables, life, mem, imm, lognum, vs, writing, scheduled,
                 bg, failed, pending, manual, rd, told, stops>>

(* DBImpl::Recover: the descriptor is read, its tables are looked for; a    *)
(* number is taken for the next descriptor.                                *)
Recover ==
  /\ db = "closed" /\ curfile # 0
  /\ LET st == ReadState(manifests[curfile])
     IN /\ {f.num : f \in FilesOf(st.v)} \subseteq DOMAIN tables
        /\ vs' = [v |-> st.v, log |-> st.log, next |-> st.next + 1,
                  last |-> st.last, man |-> st.next, after |-> st.after,
                  seek |-> {}]
        /\ recovery' = {[left |-> {n \in DOMAIN logs : n >= st.log}, at |-> 0,
                         added |-> {}, last |-> 0]}
  /\ db' = "recovering"
  /\ UNCHANGED <<disk, mem, imm, lognum, writing, scheduled, bg, failed,
                 pending, manual, rd, told, stops>>

(* RecoverLogFile: the records of the oldest log fill a memtable; a full    *)
(* one, and the last, becomes a table of level 0.                          *)
Filled(recs, at, n) == UNION {recs[i] : i \in at + 1 .. n}
Full(recs, at, n) == Cardinality(Filled(recs, at, n)) > WriteBufferSize
RecoverTable ==
  /\ db = "recovering"
  /\ \E c \in recovery : \E n \in c.left :
       /\ \A m \in c.left : n <= m
       /\ \E to \in c.at + 1 .. Len(logs[n].recs) :
            LET recs == logs[n].recs
                E == Filled(recs, c.at, to)
            IN /\ Full(recs, c.at, to) \/ to = Len(recs)
               /\ \A i \in c.at + 1 .. to - 1 : ~Full(recs, c.at, i)
               /\ tables' = With(tables, vs.next, E)
               /\ recovery' =
                    {[c EXCEPT !.at = to,
                               !.added = @ \cup {[num |-> vs.next, ents |-> E]},
                               !.last = Max({e.s : e \in E} \cup {@})]}
  /\ vs' = [vs EXCEPT !.next = @ + 1]
  /\ UNCHANGED <<logs, manifests, curfile, db, mem, imm, lognum, writing,
                 scheduled, bg, failed, pending, manual, rd, told, stops>>

(* A log is read through: MarkFileNumberUsed. *)
RecoverLog ==
  /\ db = "recovering"
  /\ \E c \in recovery : \E n \in c.left :
       /\ \A m \in c.left : n <= m
       /\ c.at = Len(logs[n].recs)
       /\ recovery' = {[c EXCEPT !.left = @ \ {n}, !.at = 0]}
       /\ vs' = [vs EXCEPT !.next = IF @ <= n THEN n + 1 ELSE @]
  /\ UNCHANGED <<disk, db, mem, imm, lognum, writing, scheduled, bg, failed,
                 pending, manual, rd, told, stops>>

(* DB::Open: a new log, and what was read goes to the new descriptor;       *)
(* CURRENT still names the old one.                                        *)
LogRecovery ==
  /\ db = "recovering"
  /\ \E c \in recovery :
       LET v == ApplyEdit(vs.v, {}, {<<0, f>> : f \in c.added})
           last == IF vs.last < c.last THEN c.last ELSE vs.last
           new == [v |-> v, log |-> vs.next, next |-> vs.next + 1,
                   last |-> last, after |-> vs.after]
       IN /\ c.left = {}
          /\ manifests' = With(manifests, vs.man, <<new>>)
          /\ vs' = [vs EXCEPT !.v = v, !.log = vs.next, !.next = @ + 1,
                              !.last = last]
  /\ lognum' = vs.next
  /\ logs' = With(logs, vs.next, EmptyLog)
  /\ db' = "opening" /\ recovery' = {}
  /\ UNCHANGED <<tables, curfile, mem, imm, writing, scheduled, bg, failed,
                 pending, manual, rd, told, stops>>

(* SetCurrentFile, then what the old descriptor alone needed is deleted. *)
Open ==
  /\ db = "opening"
  /\ db' = "open"
  /\ curfile' = vs.man
  /\ DeleteObsolete(vs, {}, logs, tables, manifests)
  /\ MaybeSchedule(FALSE, imm, manual, vs, failed)
  /\ UNCHANGED <<recovery, mem, imm, lognum, vs, writing, bg, failed, pending,
                 manual, rd, told, stops>>

-----------------------------------------------------------------------------
Init ==
  /\ logs = <<>> /\ tables = <<>> /\ manifests = <<>> /\ curfile = 0
  /\ db = "closed" /\ recovery = {} /\ mem = {} /\ imm = {} /\ lognum = 0
  /\ vs = ClosedVs
  /\ queue = <<>> /\ wr = [w \in Writers |-> NoWriter] /\ group = {}
  /\ scheduled = FALSE /\ bg = IdleBg /\ failed = FALSE /\ pending = {}
  /\ manual = IdleManual /\ rd = [r \in Readers |-> NoReader]
  /\ applied = {} /\ limbo = {} /\ durable = {} /\ stops = 0

Keys == UNION {{q.batch[i].k : i \in DOMAIN q.batch} : q \in Requests}
Calling == \E w \in Writers, q \in Requests : Write(w, q)
WriterStep(w) ==
  \/ RefuseWrite(w) \/ DelayWrite(w) \/ WaitForRoom(w) \/ SwitchMemTable(w)
  \/ NothingToWrite(w) \/ StartGroup(w) \/ AddRecord(w) \/ FinishWrite(w)
WriterFails(w) == SwitchFails(w) \/ AppendFails(w) \/ SyncFails(w)
Background ==
  \/ SkipWork \/ StartFlush \/ BuildTable \/ FinishFlush
  \/ StartMerge \/ StartMove \/ FinishMove \/ StartManual \/ MergeOutput
  \/ LogMerge \/ FinishMerge
BackgroundFails == BuildFails \/ ManifestFails \/ MergeFails
Compacting == ManualLoop \/ \E range \in Ranges : CompactRange(range)
Reading ==
  \E r \in Readers :
    \/ GetSnapshot(r) \/ ReleaseSnapshot(r) \/ StartGet(r)
    \/ \E k \in Keys : EndGet(r, k)
Stopping == Kill \/ PowerLoss \/ Close \/ Closed \/ NullRange
Opening ==
  NewDB \/ Recover \/ RecoverTable \/ RecoverLog \/ LogRecovery \/ Open

Next ==
  \/ Calling \/ \E w \in Writers : WriterStep(w) \/ WriterFails(w)
  \/ Background \/ BackgroundFails \/ Compacting \/ Reading
  \/ Stopping \/ Opening

Spec == Init /\ [][Next]_vars

-----------------------------------------------------------------------------
(* A thread that is ready to run for ever runs again, the background thread *)
(* among them: weak fairness, with what enables a thread written out.      *)
WriterReady(w) == wr[w].pc \in {"room", "logging", "inserting"}
BackgroundReady == scheduled /\ db # "closing"
Fairness ==
  /\ \A w \in Writers : []<>~WriterReady(w) \/ []<><<WriterStep(w)>>_vars
  /\ []<>~BackgroundReady \/ []<><<Background \/ NullRange>>_vars
  /\ WF_vars(ManualLoop)
FairSpec == Spec /\ Fairness

-----------------------------------------------------------------------------
(* The shape of the state. *)
TypeOK ==
  /\ db \in {"closed", "recovering", "opening", "open", "closing"}
  /\ curfile \in DOMAIN manifests \cup {0}
  /\ Cardinality(imm) <= 1 /\ Cardinality(group) <= 1
  /\ Cardinality(recovery) = IF db = "recovering" THEN 1 ELSE 0
  /\ scheduled \in BOOLEAN /\ failed \in BOOLEAN
  /\ bg.pc \in {"idle", "build", "flushlog", "merge", "mergelog", "movelog"}
  /\ ToSet(queue) = {w \in Writers : wr[w].st = "waiting"}
  /\ \A w \in Writers :
       wr[w].pc \in {"idle", "asleep", "room", "bgwait", "logging",
                     "inserting"}

Undeleted(E) == {e \in E : ~e.del}
Written == UNION {r.ents : r \in applied}
(* DBImpl::Get: memtable, old memtable, tables. *)
Lookup(m, im, v, k, s) ==
  LET a == Newest(m, k, s)
      b == Newest(UNION im, k, s)
  IN IF a # {} THEN a ELSE IF b # {} THEN b ELSE VersionGet(v, k, s)
Right(m, im, v, s) ==
  \A k \in Keys :
    Undeleted(Lookup(m, im, v, k, s)) = Undeleted(Newest(Written, k, s))

(* A read at the latest number, at any snapshot held, and by any lookup     *)
(* that took its references before other threads went on, gives what the   *)
(* last write before it put there, after crashes too.                      *)
ReadsRight ==
  db \in {"open", "closing"} =>
    /\ \A s \in {vs.last} \cup UNION {rd[r].snap : r \in Readers} :
         Right(mem, imm, vs.v, s)
    /\ \A r \in Readers : \A g \in rd[r].get : Right(g.mem, g.imm, g.v, g.s)

(* The tables of the current version, of every version somebody reads, of   *)
(* the merge and of the recovery under way are there, as they were written. *)
Intact(f) == f.num \in DOMAIN tables /\ tables[f.num] = f.ents
TablesIntact ==
  /\ \A f \in FilesOf(vs.v) : Intact(f)
  /\ \A r \in Readers : \A g \in rd[r].get : \A f \in FilesOf(g.v) : Intact(f)
  /\ \A c \in bg.c : \A f \in FilesOf(c.base) \cup ToSet(c.done) : Intact(f)
  /\ \A c \in recovery : \A f \in c.added : Intact(f)

(* Whatever edit of the descriptor a crash leaves as the last one, the      *)
(* tables it names are there: the store can be opened again.               *)
Reopens ==
  curfile # 0 =>
    \A i \in DOMAIN manifests[curfile] :
      \A f \in FilesOf(manifests[curfile][i].v) : Intact(f)

(* The files of a level above 0 do not overlap. *)
LevelsDisjoint ==
  \A l \in 1 .. NumLevels - 1 : \A f, g \in vs.v[l] :
    f # g => Before(Largest(f), Smallest(g)) \/ Before(Largest(g), Smallest(f))

(* Entries never hop across levels: what a smaller level has of a key is    *)
(* newer than what a larger one has.                                       *)
NewerAbove ==
  \A l, m \in Levels : l < m =>
    \A f \in vs.v[l], g \in vs.v[m] : \A a \in f.ents, b \in g.ents :
      a.k = b.k => a.s >= b.s

(* When only the process stops, however it comes to it, no write that was   *)
(* answered is lost.                                                       *)
KillLosesNothing ==
  [][Kill \/ Closed \/ NullRange => applied \subseteq applied']_vars

(* The store implements what its callers are promised. *)
Groups(R) == {r.ents : r \in R}
KV == INSTANCE KVStore WITH
        applied <- Groups(applied), limbo <- Groups(limbo),
        going <- {[ws |-> SubSeq(queue, 1, g.n), after |-> vs.last,
                   ents |-> g.ents] :
                    g \in {x \in group : (x.ok \/ x.bad)
                            /\ wr[queue[1]].pc = "inserting"}},
        calls <- [w \in Writers |-> [st |-> wr[w].st, batch |-> wr[w].batch,
                                     sync |-> wr[w].sync]]
KVSpec == KV!Spec

(* Every call returns, or the process ends with it: no writer and no manual *)
(* compaction is left waiting for a wake-up, whatever fails or stops        *)
(* (writers_, bg_cv_).                                                     *)
WritesReturn ==
  \A w \in Writers : wr[w].st = "waiting" ~> wr[w].st # "waiting"
RangesReturn == manual.pc # "idle" ~> manual.pc = "idle"
CallsReturn == WritesReturn /\ RangesReturn
=============================================================================
