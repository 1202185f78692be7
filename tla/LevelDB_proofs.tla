--------------------------- MODULE LevelDB_proofs ---------------------------
(***************************************************************************)
(* Proofs about module LevelDB, for any sets of writers and readers, any   *)
(* requests, any number of levels and any bound: the writers' queue is     *)
(* kept, no table that somebody needs is deleted or written over, and the  *)
(* store can be opened again after a stop at any step.                     *)
(***************************************************************************)
EXTENDS LevelDB, SequenceFacts, FiniteSetTheorems, TLAPS

-----------------------------------------------------------------------------
(* The inductive invariant.                                                *)

\* The edit of the background thread is in the descriptor, not yet synced.
Logging == bg.pc \in {"flushlog", "mergelog", "movelog"}
Running == db \in {"open", "closing"}

\* The fields of the records
VersionSetOf(s) ==
  [v |-> s.v, log |-> s.log, next |-> s.next, last |-> s.last, man |-> s.man,
   after |-> s.after, seek |-> s.seek]
ThreadOf(b) ==
  [pc |-> b.pc, edit |-> b.edit, c |-> b.c, num |-> b.num, manual |-> b.manual]
MergeOf(c) ==
  [level |-> c.level, in0 |-> c.in0, in1 |-> c.in1, base |-> c.base,
   last |-> c.last, end |-> c.end, done |-> c.done, todo |-> c.todo]

\* The background thread, its edit and its merge
Thread ==
  /\ bg = ThreadOf(bg)
  /\ bg.pc \in {"idle", "build", "flushlog", "merge", "mergelog", "movelog"}
  /\ bg.pc = "idle" => bg = IdleBg
  /\ bg.pc \in {"merge", "mergelog"} => bg.c # {}
  /\ Logging => \E e : bg.edit = {e}
  /\ \A c \in bg.c :
       /\ c = MergeOf(c)
       /\ c.done \in Seq(ToSet(c.done))

\* What has its fields, and numbers that are taken from the counters
Shape ==
  /\ db \in {"closed", "recovering", "opening", "open", "closing"}
  /\ scheduled \in BOOLEAN /\ failed \in BOOLEAN
  /\ DOMAIN logs \subseteq Nat
  /\ vs = VersionSetOf(vs)
  /\ vs.next \in Nat /\ vs.man \in Nat
  /\ Thread
  /\ rd = [r \in Readers |-> [snap |-> rd[r].snap, get |-> rd[r].get]]
  /\ \A p \in vs.seek : p.level \in Levels /\ p.file \in vs.v[p.level]
  /\ imm = {} \/ \E E : imm = {E}

\* Recover's work exists while it runs.
Recovering ==
  /\ db # "recovering" => recovery = {}
  /\ db = "recovering" => \E c : recovery = {c}
  /\ \A c \in recovery :
       /\ c = [left |-> c.left, at |-> c.at, added |-> c.added,
               last |-> c.last]
       /\ c.left \subseteq Nat

\* Nobody works unless the store is open.
Quiet ==
  ~Running =>
    /\ queue = <<>> /\ ~scheduled /\ ~failed /\ bg = IdleBg
    /\ manual = IdleManual /\ rd = [r \in Readers |-> NoReader]

\* The writers wait in the queue, each once; the first may be writing.
Queued ==
  /\ queue \in Seq(Writers)
  /\ \A i, j \in 1..Len(queue) : queue[i] = queue[j] => i = j
  /\ \A w \in Writers :
       (wr[w].st = "waiting") <=> (\E i \in 1..Len(queue) : queue[i] = w)
Call(c) == [pc |-> c.pc, batch |-> c.batch, sync |-> c.sync,
            delay |-> c.delay, force |-> c.force, st |-> c.st]
Calls ==
  /\ wr = [w \in Writers |-> Call(wr[w])]
  /\ \A w \in Writers :
       /\ wr[w].pc \in {"idle", "asleep", "room", "bgwait", "logging",
                        "inserting"}
       /\ (wr[w].pc = "idle") <=> (wr[w].st # "waiting")
       /\ wr[w].pc \in {"logging", "inserting"} =>
            Len(queue) > 0 /\ queue[1] = w /\ group # {}
BatchesOf(g) ==
  [n |-> g.n, ents |-> g.ents, last |-> g.last, ok |-> g.ok, bad |-> g.bad]
Group ==
  group # {} =>
    \E g : /\ group = {g} /\ g.n \in 1..Len(queue)
           /\ g = BatchesOf(g)
           /\ Len(queue) > 0 /\ wr[queue[1]].pc \in {"logging", "inserting"}
WInv == Queued /\ Calls /\ Group

\* The files something in memory names: the current version, the versions
\* read, the merge, the edit, what was recovered
ReadBy == UNION {UNION {FilesOf(g.v) : g \in rd[r].get} : r \in Readers}
Merging == UNION {FilesOf(c.base) \cup ToSet(c.done) : c \in bg.c}
Recorded == UNION {{a[2] : a \in e.added} : e \in bg.edit}
Recovered == UNION {c.added : c \in recovery}
Live == FilesOf(vs.v) \cup ReadBy \cup Merging \cup Recorded \cup Recovered

\* They are there, and their numbers are used up.
Sound(f) == Intact(f) /\ f.num \in Nat /\ f.num < vs.next
Stored == \A f \in Live : Sound(f)

\* The outputs of a merge are safe from the deletion after a flush.
Kept == \A c \in bg.c : \A f \in ToSet(c.done) : f.num \in pending

\* The descriptors that may be read: the one CURRENT names, and the next.
Known == {n \in {curfile} : n # 0} \cup {n \in {vs.man} : db = "opening"}
\* Every state a descriptor may be read back as names tables that are there,
\* by numbers that this state and the later ones know to be used; numbers are
\* never given back.
Descriptor(m) ==
  /\ m \in DOMAIN manifests
  /\ manifests[m] \in Seq(ToSet(manifests[m])) /\ Len(manifests[m]) > 0
  /\ \A i \in 1..Len(manifests[m]) :
       manifests[m][i].next \in Nat /\ m < manifests[m][i].next
  /\ \A i, j \in 1..Len(manifests[m]) : i <= j =>
       /\ manifests[m][i].next <= manifests[m][j].next
       /\ \A f \in FilesOf(manifests[m][i].v) :
            Intact(f) /\ f.num \in Nat /\ f.num < manifests[m][j].next
Descriptors ==
  /\ curfile \in Nat
  /\ \A m \in Known : Descriptor(m)
  /\ db # "closed" =>
       /\ curfile # 0
       /\ \A m \in Known : \A i \in 1..Len(manifests[m]) :
            manifests[m][i].next <= vs.next
  /\ db \in {"recovering", "opening"} => curfile < vs.man /\ vs.man < vs.next
  /\ db = "opening" =>
       Len(manifests[vs.man]) = 1 /\ manifests[vs.man][1].v = vs.v
  /\ Running => curfile = vs.man

\* The number of a table under way names nothing else.
Fresh ==
  bg.pc = "build" =>
    /\ bg.num \in Nat /\ bg.num < vs.next
    /\ \A f \in Live : f.num # bg.num
    /\ \A i \in 1..Len(manifests[curfile]) :
         \A f \in FilesOf(manifests[curfile][i].v) : f.num # bg.num

\* While no error is known, the descriptor is at most the edit under way
\* ahead of the current version.
Current ==
  Running =>
    /\ Logging => Len(manifests[vs.man]) > 1
    /\ ~failed =>
         /\ manifests[vs.man][1].v = vs.v
         /\ ~Logging => Len(manifests[vs.man]) = 1
         /\ Logging =>
              /\ Len(manifests[vs.man]) = 2
              /\ \A e \in bg.edit :
                   manifests[vs.man][2].v = ApplyEdit(vs.v, e.deleted, e.added)

DInv == Stored /\ Kept /\ Descriptors /\ Fresh /\ Current
Inv == Shape /\ Recovering /\ Quiet /\ WInv /\ DInv

-----------------------------------------------------------------------------
(* Operators.                                                              *)

LEMMA LevelZero == 0 \in Levels /\ Levels \subseteq Nat
  BY LevelsAssumption DEF Levels

\* The files a version has after an edit were there or are added by it.
LEMMA FilesAfterEdit ==
  ASSUME NEW v, NEW deleted, NEW added,
         NEW f \in FilesOf(ApplyEdit(v, deleted, added))
  PROVE  f \in FilesOf(v) \/ \E a \in added : a[2] = f
<1>1. PICK l \in Levels : f \in ApplyEdit(v, deleted, added)[l]
  BY DEF FilesOf
<1>2. ApplyEdit(v, deleted, added)[l] =
        {x \in v[l] : <<l, x.num>> \notin deleted}
          \cup {a[2] : a \in {x \in added : x[1] = l}}
  BY DEF ApplyEdit
<1>. QED
  BY <1>1, <1>2 DEF FilesOf

LEMMA NoFiles == FilesOf(EmptyVersion) = {}
  BY DEF FilesOf, EmptyVersion

LEMMA SomeOf == ASSUME NEW S, S # {} PROVE Some(S) \in S
  BY DEF Some
LEMMA SomeOfOne == ASSUME NEW x PROVE Some({x}) = x
  BY DEF Some

\* A sequence is one of its own elements.
LEMMA OwnElements ==
  ASSUME NEW S, NEW s \in Seq(S)
  PROVE  /\ s \in Seq(ToSet(s)) /\ Len(s) \in Nat /\ DOMAIN s = 1..Len(s)
         /\ \A i \in 1..Len(s) : s[i] \in ToSet(s)
         /\ \A x \in ToSet(s) : \E i \in 1..Len(s) : s[i] = x
<1>1. DOMAIN s = 1..Len(s) /\ Len(s) \in Nat /\ s = [i \in 1..Len(s) |-> s[i]]
  OBVIOUS
<1>2. \A i \in 1..Len(s) : s[i] \in ToSet(s)
  BY <1>1 DEF ToSet
<1>3. s \in Seq(ToSet(s))
  BY <1>1, <1>2, MapIsSeq
<1>. QED
  BY <1>1, <1>2, <1>3 DEF ToSet

\* The states of a descriptor when one is added
LEMMA OneMore ==
  ASSUME NEW S, NEW s \in Seq(S), NEW x
  PROVE  /\ Append(s, x) \in Seq(ToSet(Append(s, x)))
         /\ Len(Append(s, x)) = Len(s) + 1 /\ Len(s) \in Nat
         /\ \A i \in 1..Len(s) : Append(s, x)[i] = s[i]
         /\ Append(s, x)[Len(s) + 1] = x
         /\ ToSet(Append(s, x)) = ToSet(s) \cup {x}
<1>. DEFINE T == S \cup {x}
            t == Append(s, x)
<1>1. s \in Seq(T) /\ x \in T /\ Len(s) \in Nat /\ DOMAIN s = 1..Len(s)
  OBVIOUS
<1>2. /\ t \in Seq(T) /\ Len(t) = Len(s) + 1
      /\ \A i \in 1..Len(s) : t[i] = s[i]
      /\ t[Len(s) + 1] = x
  BY <1>1
<1>3. t \in Seq(ToSet(t)) /\ DOMAIN t = 1..(Len(s) + 1)
  BY <1>2, OwnElements
<1>4. 1..(Len(s) + 1) = 1..Len(s) \cup {Len(s) + 1}
  BY <1>1
<1>5. ToSet(t) = ToSet(s) \cup {x}
  BY <1>1, <1>2, <1>3, <1>4 DEF ToSet
<1>. QED
  BY <1>1, <1>2, <1>3, <1>5

\* ... and when the last ones are lost
LEMMA FirstOnes ==
  ASSUME NEW S, NEW s \in Seq(S), NEW n \in 0..Len(s)
  PROVE  /\ SubSeq(s, 1, n) \in Seq(ToSet(SubSeq(s, 1, n)))
         /\ Len(SubSeq(s, 1, n)) = n
         /\ \A i \in 1..n : SubSeq(s, 1, n)[i] = s[i]
<1>1. /\ SubSeq(s, 1, n) \in Seq(S) /\ Len(SubSeq(s, 1, n)) = n
      /\ \A i \in 1..n : SubSeq(s, 1, n)[i] = s[i]
  OBVIOUS
<1>. QED
  BY <1>1, OwnElements

LEMMA Alone ==
  ASSUME NEW x
  PROVE  <<x>> \in Seq(ToSet(<<x>>)) /\ Len(<<x>>) = 1 /\ <<x>>[1] = x
<1>1. <<x>> \in Seq({x})
  OBVIOUS
<1>. QED
  BY <1>1, OwnElements

-----------------------------------------------------------------------------
(* The files in use.                                                       *)

\* Where a live file is named, before and after a step
LEMMA InLive ==
  ASSUME NEW f
  PROVE  f \in Live <=>
           \/ f \in FilesOf(vs.v)
           \/ \E r \in Readers : \E g \in rd[r].get : f \in FilesOf(g.v)
           \/ \E c \in bg.c : f \in FilesOf(c.base) \/ f \in ToSet(c.done)
           \/ \E e \in bg.edit : \E a \in e.added : a[2] = f
           \/ \E c \in recovery : f \in c.added
<1>1. f \in ReadBy <=>
        \E r \in Readers : \E g \in rd[r].get : f \in FilesOf(g.v)
  BY DEF ReadBy
<1>2. f \in Merging <=>
        \E c \in bg.c : f \in FilesOf(c.base) \/ f \in ToSet(c.done)
  BY DEF Merging
<1>3. f \in Recorded <=> \E e \in bg.edit : \E a \in e.added : a[2] = f
  BY DEF Recorded
<1>4. f \in Recovered <=> \E c \in recovery : f \in c.added
  BY DEF Recovered
<1>5. f \in Live <=> f \in FilesOf(vs.v) \/ f \in ReadBy \/ f \in Merging
                       \/ f \in Recorded \/ f \in Recovered
  BY DEF Live
<1>. QED
  BY <1>1, <1>2, <1>3, <1>4, <1>5
LEMMA InLiveNext ==
  ASSUME NEW f
  PROVE  f \in Live' <=>
           \/ f \in FilesOf(vs'.v)
           \/ \E r \in Readers : \E g \in rd'[r].get : f \in FilesOf(g.v)
           \/ \E c \in bg'.c : f \in FilesOf(c.base) \/ f \in ToSet(c.done)
           \/ \E e \in bg'.edit : \E a \in e.added : a[2] = f
           \/ \E c \in recovery' : f \in c.added
<1>1. f \in ReadBy' <=>
        \E r \in Readers : \E g \in rd'[r].get : f \in FilesOf(g.v)
  BY DEF ReadBy
<1>2. f \in Merging' <=>
        \E c \in bg'.c : f \in FilesOf(c.base) \/ f \in ToSet(c.done)
  BY DEF Merging
<1>3. f \in Recorded' <=> \E e \in bg'.edit : \E a \in e.added : a[2] = f
  BY DEF Recorded
<1>4. f \in Recovered' <=> \E c \in recovery' : f \in c.added
  BY DEF Recovered
<1>5. f \in Live' <=> f \in FilesOf(vs'.v) \/ f \in ReadBy' \/ f \in Merging'
                       \/ f \in Recorded' \/ f \in Recovered'
  BY DEF Live
<1>. QED
  BY <1>1, <1>2, <1>3, <1>4, <1>5

\* The files a descriptor names
Named(m) == UNION {FilesOf(manifests[m][i].v) : i \in 1..Len(manifests[m])}

\* Nothing changes for the files when no file and no descriptor does, nothing
\* new is named, and numbers are only taken.
LEMMA FilesFrame ==
  ASSUME DInv, Shape, Live' \subseteq Live,
         tables' = tables, manifests' = manifests, curfile' = curfile,
         db' = db, vs'.v = vs.v, vs'.man = vs.man,
         vs'.next \in Nat, vs.next <= vs'.next,
         Logging' <=> Logging, Logging => bg'.edit = bg.edit,
         failed => failed', Kept', Fresh'
  PROVE  DInv'
<1>1. /\ Stored /\ Descriptors /\ Fresh /\ Current
      /\ vs.next \in Nat
  BY DEF DInv, Shape
<1>2. Stored'
  BY <1>1 DEF Stored, Sound, Intact
<1>3. Known' = Known
  BY DEF Known
<1>4. \A m : Descriptor(m) => Descriptor(m)'
  BY DEF Descriptor, Intact
<1>5. Descriptors'
  <2>1. ASSUME NEW m \in Known, db # "closed", NEW i \in 1..Len(manifests[m])
        PROVE  manifests[m][i].next <= vs'.next
    <3>1. manifests[m][i].next \in Nat /\ manifests[m][i].next <= vs.next
      BY <1>1, <2>1 DEF Descriptors, Descriptor
    <3>. QED
      BY <1>1, <3>1
  <2>. HIDE DEF Known
  <2>2. db \in {"recovering", "opening"} => curfile < vs'.man /\ vs'.man < vs'.next
    BY <1>1 DEF Descriptors, Shape
  <2>. QED
    BY <1>1, <1>3, <1>4, <2>1, <2>2 DEF Descriptors, Running
<1>6. Current'
  BY <1>1 DEF Current, Running
<1>. QED
  BY <1>2, <1>5, <1>6 DEF DInv

\* The same when the background thread and the readers go on as they were
LEMMA NothingNamed ==
  ASSUME DInv, Shape,
         tables' = tables, manifests' = manifests, curfile' = curfile,
         db' = db, vs'.v = vs.v, vs'.man = vs.man,
         vs'.next \in Nat, vs.next <= vs'.next,
         bg' = bg, rd' = rd, recovery' = recovery, pending' = pending,
         failed => failed'
  PROVE  DInv'
<1>1. Live' \subseteq Live
  BY DEF Live, ReadBy, Merging, Recorded, Recovered
<1>2. Kept'
  BY DEF DInv, Kept
<1>3. Logging' <=> Logging
  BY DEF Logging
<1>4. Fresh'
  BY <1>1 DEF DInv, Shape, Fresh
<1>. QED
  BY <1>1, <1>2, <1>3, <1>4, FilesFrame

-----------------------------------------------------------------------------
(* The writers' queue.                                                     *)

\* A set of positions that is not empty has a largest one.
LEMMA Largest_ ==
  ASSUME NEW n \in Nat, NEW S \in SUBSET (1..n), S # {}
  PROVE  Max(S) \in S
<1>. DEFINE T == {n - x : x \in S}
<1>1. T \subseteq Nat /\ T # {}
  <2>1. \A x \in S : n - x \in Nat
    OBVIOUS
  <2>2. PICK x \in S : TRUE
    OBVIOUS
  <2>3. n - x \in T
    BY <2>2
  <2>. QED
    BY <2>1, <2>3
<1>2. PICK t \in T : \A m \in T : t <= m
  BY <1>1, Least
<1>3. PICK x \in S : t = n - x
  OBVIOUS
<1>4. \A y \in S : n - y \in T
  OBVIOUS
<1>5. \A y \in S : n - x <= n - y
  BY <1>2, <1>3, <1>4
<1>6. \A y \in S : x >= y
  BY <1>5
<1>. QED
  BY <1>6, Zenon DEF Max

\* BuildBatchGroup takes some of the writers that wait, the first at least.
LEMMA GroupSize ==
  ASSUME NEW q \in Seq(Writers), Len(q) > 0
  PROVE  GroupOf(q) \in 1..Len(q)
<1>. DEFINE Len_(n) == FoldLeft(LAMBDA m, i : m + Len(wr[q[i]].batch), 0,
                                [i \in 1 .. n |-> i])
            Joins(i) == /\ wr[q[i]].sync => wr[q[1]].sync
                        /\ wr[q[i]].batch # <<>> => Len_(i) <= MaxGroup
            S == {n \in DOMAIN q : \A i \in 2 .. n : Joins(i)}
<1>1. GroupOf(q) = Max(S)
  BY Zenon DEF GroupOf
<1>. HIDE DEF Joins
<1>2. 2..1 = {} /\ DOMAIN q = 1..Len(q) /\ Len(q) \in Nat
  OBVIOUS
<1>3. 1 \in S
  BY <1>2
<1>4. S \in SUBSET (1..Len(q)) /\ S # {}
  BY <1>2, <1>3
<1>. HIDE DEF S
<1>. QED
  BY <1>1, <1>2, <1>4, Largest_

\* Waking those that wait for the background thread keeps the queue.
LEMMA WokenKeeps ==
  ASSUME WInv, wr' = Woken(wr), queue' = queue, group' = group
  PROVE  WInv'
<1>1. Queued /\ Calls /\ Group
  BY DEF WInv
<1>2. \A w \in Writers :
        /\ wr'[w] = Call(wr'[w]) /\ wr'[w].st = wr[w].st
        /\ wr'[w].pc = IF wr[w].pc = "bgwait" THEN "room" ELSE wr[w].pc
  <2>. SUFFICES ASSUME NEW w \in Writers
                PROVE  /\ wr'[w] = Call(wr'[w]) /\ wr'[w].st = wr[w].st
                       /\ wr'[w].pc = IF wr[w].pc = "bgwait" THEN "room"
                                      ELSE wr[w].pc
    OBVIOUS
  <2>1. wr[w] = Call(wr[w])
    BY <1>1 DEF Calls
  <2>2. wr'[w] = IF wr[w].pc = "bgwait" THEN [wr[w] EXCEPT !.pc = "room"]
                 ELSE wr[w]
    BY DEF Woken
  <2>3. CASE wr[w].pc = "bgwait"
    <3>1. wr'[w] = [pc |-> "room", batch |-> wr[w].batch,
                    sync |-> wr[w].sync, delay |-> wr[w].delay,
                    force |-> wr[w].force, st |-> wr[w].st]
      BY <2>1, <2>2, <2>3 DEF Call
    <3>. QED
      BY <2>3, <3>1 DEF Call
  <2>4. CASE wr[w].pc # "bgwait"
    BY <2>1, <2>2, <2>4
  <2>. QED
    BY <2>3, <2>4
<1>3. wr' = [w \in Writers |-> Call(wr'[w])]
  <2>1. wr' = [w \in Writers |-> wr'[w]]
    BY DEF Woken
  <2>. QED
    BY <1>2, <2>1, Zenon
<1>4. Queued'
  BY <1>1, <1>2 DEF Queued
<1>5. Calls'
  BY <1>1, <1>2, <1>3 DEF Calls
<1>6. Group'
  <2>1. Len(queue) > 0 => queue[1] \in Writers
    BY <1>1 DEF Queued
  <2>. QED
    BY <1>1, <1>2, <2>1 DEF Group
<1>. QED
  BY <1>4, <1>5, <1>6 DEF WInv

\* Another step of the front's call keeps it.
LEMMA FrontGoesOn ==
  ASSUME WInv, NEW w \in Writers, NEW c, Len(queue) > 0, queue[1] = w,
         wr' = [wr EXCEPT ![w] = c], queue' = queue,
         c = Call(c), c.st = wr[w].st,
         c.pc \in {"room", "bgwait", "logging", "inserting"},
         \/ c.pc \in {"logging", "inserting"} /\ group' # {}
         \/ group' = {},
         group' # {} => /\ c.pc \in {"logging", "inserting"}
                        /\ \E g : /\ group' = {g} /\ g.n \in 1..Len(queue)
                                  /\ g = BatchesOf(g),
         c.pc \in {"logging", "inserting"} => group' # {}
  PROVE  WInv'
<1>1. Queued /\ Calls /\ Group
  BY DEF WInv
<1>2. /\ wr'[w] = c
      /\ \A x \in Writers : x # w => wr'[x] = wr[x]
      /\ wr' = [x \in Writers |-> wr'[x]]
  <2>1. wr = [x \in Writers |-> wr[x]]
    BY <1>1 DEF Calls
  <2>. QED
    BY <2>1
<1>3. wr[w].st = "waiting" /\ Len(queue) \in Nat
  BY <1>1 DEF Queued
<1>4. Queued'
  BY <1>1, <1>2 DEF Queued
<1>5. Calls'
  <2>1. ASSUME NEW x \in Writers
        PROVE  /\ wr'[x] = Call(wr'[x])
               /\ wr'[x].pc \in {"idle", "asleep", "room", "bgwait",
                                 "logging", "inserting"}
               /\ wr'[x].pc = "idle" <=> wr'[x].st # "waiting"
               /\ wr'[x].pc \in {"logging", "inserting"} =>
                    Len(queue') > 0 /\ queue'[1] = x /\ group' # {}
    <3>1. CASE x = w
      BY <1>2, <1>3, <3>1
    <3>2. CASE x # w
      <4>1. wr'[x] = wr[x] /\ wr[x].pc \notin {"logging", "inserting"}
        BY <1>1, <1>2, <3>2 DEF Calls
      <4>2. wr[x] = Call(wr[x])
        BY <1>1 DEF Calls
      <4>3. /\ wr[x].pc \in {"idle", "asleep", "room", "bgwait",
                             "logging", "inserting"}
            /\ wr[x].pc = "idle" <=> wr[x].st # "waiting"
        BY <1>1 DEF Calls
      <4>. QED
        BY <4>1, <4>2, <4>3
    <3>. QED
      BY <3>1, <3>2
  <2>2. wr' = [x \in Writers |-> Call(wr'[x])]
    BY <1>2, <2>1, Zenon
  <2>. QED
    BY <2>1, <2>2 DEF Calls
<1>6. Group'
  BY <1>2, <1>3 DEF Group
<1>. QED
  BY <1>4, <1>5, <1>6 DEF WInv

\* What is left of the queue when the first n leave
LEMMA LastOnes ==
  ASSUME NEW S, NEW s \in Seq(S), NEW n \in 0..Len(s)
  PROVE  /\ SubSeq(s, n + 1, Len(s)) \in Seq(S)
         /\ Len(SubSeq(s, n + 1, Len(s))) = Len(s) - n
         /\ \A i \in 1..(Len(s) - n) :
              SubSeq(s, n + 1, Len(s))[i] = s[n + i]
<1>1. Len(s) \in Nat /\ n \in Nat /\ n <= Len(s)
  OBVIOUS
<1>. DEFINE t == SubSeq(s, n + 1, Len(s))
<1>2. t = [i \in 1..(Len(s) - n) |-> s[n + i]]
  BY <1>1
<1>3. \A i \in 1..(Len(s) - n) : n + i \in 1..Len(s)
  BY <1>1
<1>4. \A i \in 1..(Len(s) - n) : s[n + i] \in S
  BY <1>3
<1>5. Len(s) - n \in Nat
  BY <1>1
<1>. HIDE DEF t
<1>6. /\ \A i \in 1..(Len(s) - n) : t[i] = s[n + i]
      /\ t = [i \in 1..(Len(s) - n) |-> t[i]]
  BY <1>2
<1>7. t \in Seq(S) /\ Len(t) = Len(s) - n
  <2>. DEFINE k == Len(s) - n
  <2>1. k \in Nat /\ t = [i \in 1..k |-> t[i]] /\ \A i \in 1..k : t[i] \in S
    BY <1>4, <1>5, <1>6
  <2>. HIDE DEF k
  <2>2. t \in Seq(S) /\ Len(t) = k
    BY <2>1, MapIsSeq
  <2>. QED
    BY <2>2 DEF k
<1>. QED
  BY <1>6, <1>7 DEF t

\* Answering the first writers, with nobody left who writes, keeps the queue.
LEMMA Popped ==
  ASSUME WInv, NEW n \in 1..Len(queue), NEW st, st # "waiting",
         PopWriters(n, st), group' = {}
  PROVE  WInv'
<1>. DEFINE out == {queue[i] : i \in 1 .. n}
            rest == SubSeq(queue, n + 1, Len(queue))
<1>1. Queued /\ Calls
  BY DEF WInv
<1>2. /\ queue' = rest
      /\ wr' = [w \in Writers |->
                  IF w \in out THEN [NoWriter EXCEPT !.st = st]
                  ELSE IF rest # <<>> /\ w = rest[1]
                    THEN [wr[w] EXCEPT !.pc = "room"] ELSE wr[w]]
  BY DEF PopWriters
<1>3. /\ queue \in Seq(Writers) /\ Len(queue) \in Nat /\ n \in Nat /\ n >= 1
      /\ n <= Len(queue)
  BY <1>1 DEF Queued
<1>4. /\ rest \in Seq(Writers) /\ Len(rest) = Len(queue) - n
      /\ \A i \in 1..(Len(queue) - n) : rest[i] = queue[n + i]
  BY <1>3, LastOnes
<1>. HIDE DEF rest
<1>5. ASSUME NEW w \in Writers
      PROVE  /\ w \in out => /\ wr'[w] = Call(wr'[w])
                             /\ wr'[w].pc = "idle" /\ wr'[w].st = st
             /\ w \notin out =>
                  /\ wr'[w] = Call(wr'[w]) /\ wr'[w].st = wr[w].st
                  /\ wr'[w].pc = wr[w].pc \/ (wr'[w].pc = "room" /\ rest # <<>>
                                                /\ w = rest[1])
  <2>1. wr[w] = Call(wr[w])
    BY <1>1 DEF Calls
  <2>. DEFINE c == wr[w]
  <2>2. wr'[w] = IF w \in out THEN [NoWriter EXCEPT !.st = st]
                 ELSE IF rest # <<>> /\ w = rest[1]
                    THEN [c EXCEPT !.pc = "room"] ELSE c
    BY <1>2
  <2>3. CASE w \in out
    <3>1. wr'[w] = [pc |-> "idle", batch |-> <<>>, sync |-> FALSE,
                    delay |-> FALSE, force |-> FALSE, st |-> st]
      BY <2>2, <2>3 DEF NoWriter
    <3>. QED
      BY <2>3, <3>1 DEF Call
  <2>4. CASE w \notin out /\ rest # <<>> /\ w = rest[1]
    <3>1. wr'[w] = [pc |-> "room", batch |-> wr[w].batch,
                    sync |-> wr[w].sync, delay |-> wr[w].delay,
                    force |-> wr[w].force, st |-> wr[w].st]
      BY <2>1, <2>2, <2>4 DEF Call
    <3>. QED
      BY <2>4, <3>1 DEF Call
  <2>5. CASE w \notin out /\ ~(rest # <<>> /\ w = rest[1])
    BY <2>1, <2>2, <2>5
  <2>. QED
    BY <2>3, <2>4, <2>5
<1>6. \A i \in 1..Len(queue) : queue[i] \in out <=> i <= n
  BY <1>1, <1>3 DEF Queued
<1>7. ASSUME NEW w \in Writers
      PROVE  (wr'[w].st = "waiting") <=> (\E i \in 1..Len(rest) : rest[i] = w)
  <2>1. CASE w \in out
    <3>1. ASSUME NEW i \in 1..Len(rest), rest[i] = w
          PROVE  FALSE
      <4>1. n + i \in 1..Len(queue) /\ ~(n + i <= n) /\ queue[n + i] = w
        BY <1>3, <1>4, <3>1
      <4>. QED
        BY <1>6, <2>1, <4>1
    <3>2. wr'[w].st # "waiting"
      BY <1>5, <2>1
    <3>. QED
      BY <3>1, <3>2
  <2>2. CASE w \notin out
    <3>1. (wr'[w].st = "waiting") <=> (\E i \in 1..Len(queue) : queue[i] = w)
      BY <1>1, <1>5, <2>2 DEF Queued
    <3>2. ASSUME NEW i \in 1..Len(queue), queue[i] = w
          PROVE  i - n \in 1..Len(rest) /\ rest[i - n] = w
      <4>1. ~(i <= n)
        BY <1>6, <2>2, <3>2
      <4>2. i - n \in 1..(Len(queue) - n) /\ n + (i - n) = i
        BY <1>3, <4>1
      <4>. QED
        BY <1>4, <3>2, <4>2
    <3>3. \A i \in 1..Len(rest) : n + i \in 1..Len(queue)
                                  /\ queue[n + i] = rest[i]
      BY <1>3, <1>4
    <3>. QED
      BY <3>1, <3>2, <3>3
  <2>. QED
    BY <2>1, <2>2
<1>8. \A i, j \in 1..Len(rest) : rest[i] = rest[j] => i = j
  <2>. SUFFICES ASSUME NEW i \in 1..Len(rest), NEW j \in 1..Len(rest),
                       rest[i] = rest[j]
                PROVE  i = j
    OBVIOUS
  <2>1. /\ n + i \in 1..Len(queue) /\ n + j \in 1..Len(queue)
        /\ queue[n + i] = queue[n + j]
    BY <1>3, <1>4
  <2>2. n + i = n + j
    BY <1>1, <2>1 DEF Queued
  <2>. QED
    BY <1>3, <1>4, <2>2
<1>9. Queued'
  BY <1>2, <1>4, <1>7, <1>8 DEF Queued
<1>10. Calls'
  <2>1. ASSUME NEW w \in Writers
        PROVE  wr'[w].pc \in {"idle", "asleep", "room", "bgwait"}
    <3>1. CASE w \in out
      BY <1>5, <3>1
    <3>2. CASE w \notin out
      <4>1. wr[w].pc \notin {"logging", "inserting"}
        <5>1. 1 \in 1..Len(queue) /\ queue[1] \in out
          BY <1>3, <1>6
        <5>. QED
          BY <1>1, <3>2, <5>1 DEF Calls
      <4>2. wr[w].pc \in {"idle", "asleep", "room", "bgwait"}
        BY <1>1, <4>1 DEF Calls
      <4>. QED
        BY <1>5, <3>2, <4>2
    <3>. QED
      BY <3>1, <3>2
  <2>2. ASSUME NEW w \in Writers
        PROVE  (wr'[w].pc = "idle") <=> (wr'[w].st # "waiting")
    <3>1. CASE w \in out
      BY <1>5, <3>1
    <3>2. CASE w \notin out /\ wr'[w].pc = wr[w].pc
      BY <1>1, <1>5, <3>2 DEF Calls
    <3>3. CASE w \notin out /\ wr'[w].pc = "room" /\ rest # <<>> /\ w = rest[1]
      <4>1. 1 \in 1..Len(rest)
        BY <1>4, <3>3
      <4>. QED
        BY <1>7, <3>3, <4>1
    <3>. QED
      BY <1>5, <3>1, <3>2, <3>3
  <2>3. wr' = [w \in Writers |-> wr'[w]] /\ \A w \in Writers : wr'[w] = Call(wr'[w])
    <3>1. wr' = [w \in Writers |-> wr'[w]]
      BY <1>2, Zenon
    <3>. QED
      BY <1>5, <3>1
  <2>4. wr' = [w \in Writers |-> Call(wr'[w])]
    BY <2>3, Zenon
  <2>. QED
    BY <2>1, <2>2, <2>4 DEF Calls
<1>11. Group'
  BY DEF Group
<1>. QED
  BY <1>9, <1>10, <1>11 DEF WInv

\* A call joins the end of the queue.
LEMMA CallJoins ==
  ASSUME WInv, NEW w \in Writers, NEW q, Write(w, q)
  PROVE  WInv'
<1>. DEFINE c == [pc |-> IF queue = <<>> THEN "room" ELSE "asleep",
                  batch |-> q.batch, sync |-> q.sync,
                  delay |-> q.batch # <<>>, force |-> q.batch = <<>>,
                  st |-> "waiting"]
<1>1. Queued /\ Calls /\ Group
  BY DEF WInv
<1>2. /\ queue' = Append(queue, w) /\ wr' = [wr EXCEPT ![w] = c]
      /\ group' = group /\ wr[w].pc = "idle"
  BY DEF Write, writing
<1>3. c = Call(c) /\ c.st = "waiting" /\ c.pc \in {"room", "asleep"}
  BY DEF Call
<1>. HIDE DEF c
<1>4. /\ wr'[w] = c
      /\ \A x \in Writers : x # w => wr'[x] = wr[x]
      /\ wr' = [x \in Writers |-> wr'[x]]
  <2>1. wr = [x \in Writers |-> wr[x]]
    BY <1>1, Zenon DEF Calls
  <2>. QED
    BY <1>2, <2>1
<1>5. queue \in Seq(Writers) /\ Len(queue) \in Nat
  BY <1>1 DEF Queued
<1>6. /\ queue' \in Seq(Writers) /\ Len(queue') = Len(queue) + 1
      /\ \A i \in 1..Len(queue) : queue'[i] = queue[i]
      /\ queue'[Len(queue) + 1] = w
      /\ \A i \in 1..Len(queue') : i \in 1..Len(queue) \/ i = Len(queue) + 1
  BY <1>2, <1>5
<1>7. \A i \in 1..Len(queue) : queue[i] # w
  <2>1. wr[w].st # "waiting"
    BY <1>1, <1>2 DEF Calls
  <2>. QED
    BY <1>1, <2>1 DEF Queued
<1>8. Queued'
  <2>1. ASSUME NEW x \in Writers
        PROVE  (wr'[x].st = "waiting") <=> (\E i \in 1..Len(queue') : queue'[i] = x)
    <3>1. CASE x = w
      <4>1. Len(queue) + 1 \in 1..Len(queue')
        BY <1>5, <1>6
      <4>. QED
        BY <1>3, <1>4, <1>6, <3>1, <4>1
    <3>2. CASE x # w
      <4>1. wr'[x].st = wr[x].st
        BY <1>4, <3>2
      <4>2. (\E i \in 1..Len(queue') : queue'[i] = x)
              <=> (\E i \in 1..Len(queue) : queue[i] = x)
        BY <1>5, <1>6, <3>2
      <4>. QED
        BY <1>1, <4>1, <4>2 DEF Queued
    <3>. QED
      BY <3>1, <3>2
  <2>2. \A i, j \in 1..Len(queue') : queue'[i] = queue'[j] => i = j
    <3>1. \A i, j \in 1..Len(queue) : queue[i] = queue[j] => i = j
      BY <1>1 DEF Queued
    <3>. QED
      BY <1>5, <1>6, <1>7, <3>1
  <2>. QED
    BY <1>6, <2>1, <2>2 DEF Queued
<1>9. Calls'
  <2>1. ASSUME NEW x \in Writers
        PROVE  /\ wr'[x] = Call(wr'[x])
               /\ wr'[x].pc \in {"idle", "asleep", "room", "bgwait",
                                 "logging", "inserting"}
               /\ (wr'[x].pc = "idle") <=> (wr'[x].st # "waiting")
               /\ wr'[x].pc \in {"logging", "inserting"} =>
                    Len(queue') > 0 /\ queue'[1] = x /\ group' # {}
    <3>1. CASE x = w
      BY <1>3, <1>4, <3>1
    <3>2. CASE x # w
      <4>1. wr'[x] = wr[x]
        BY <1>4, <3>2
      <4>2. wr[x] = Call(wr[x])
        BY <1>1, Zenon DEF Calls
      <4>3. /\ wr[x].pc \in {"idle", "asleep", "room", "bgwait",
                             "logging", "inserting"}
            /\ (wr[x].pc = "idle") <=> (wr[x].st # "waiting")
            /\ wr[x].pc \in {"logging", "inserting"} =>
                 Len(queue) > 0 /\ queue[1] = x /\ group # {}
        BY <1>1 DEF Calls
      <4>4. Len(queue) > 0 => queue'[1] = queue[1]
        BY <1>5, <1>6
      <4>. QED
        BY <1>2, <1>5, <1>6, <4>1, <4>2, <4>3, <4>4
    <3>. QED
      BY <3>1, <3>2
  <2>2. wr' = [x \in Writers |-> Call(wr'[x])]
    BY <1>4, <2>1, Zenon
  <2>. QED
    BY <2>1, <2>2 DEF Calls
<1>10. Group'
  <2>1. CASE group = {}
    BY <1>2, <2>1 DEF Group
  <2>2. CASE group # {}
    <3>1. PICK g : /\ group = {g} /\ g.n \in 1..Len(queue)
                   /\ g = BatchesOf(g)
                   /\ Len(queue) > 0
                   /\ wr[queue[1]].pc \in {"logging", "inserting"}
      BY <1>1, <2>2 DEF Group
    <3>2. queue'[1] = queue[1] /\ queue[1] \in Writers /\ queue[1] # w
      BY <1>5, <1>6, <1>7, <3>1
    <3>3. wr'[queue'[1]] = wr[queue[1]]
      BY <1>4, <3>2
    <3>4. g.n \in 1..Len(queue') /\ Len(queue') > 0
      BY <1>5, <1>6, <3>1
    <3>. QED
      BY <1>2, <3>1, <3>3, <3>4 DEF Group
  <2>. QED
    BY <2>1, <2>2
<1>. QED
  BY <1>8, <1>9, <1>10 DEF WInv

-----------------------------------------------------------------------------
(* The steps of the writers.                                               *)

\* The first writer that looks for room: nobody is writing.
LEMMA FrontFacts ==
  ASSUME Inv, NEW w \in Writers, AtRoom(w)
  PROVE  /\ Len(queue) > 0 /\ queue[1] = w /\ group = {} /\ 1 \in 1..Len(queue)
         /\ queue \in Seq(Writers) /\ Running
         /\ wr[w] = Call(wr[w]) /\ wr[w].st = "waiting"
<1>1. Queued /\ Calls /\ Group /\ Quiet
  BY DEF Inv, WInv
<1>2. queue \in Seq(Writers) /\ queue # <<>> /\ queue[1] = w /\ wr[w].pc = "room"
  BY <1>1 DEF AtRoom, Queued
<1>3. Len(queue) > 0 /\ 1 \in 1..Len(queue)
  BY <1>2
<1>. QED
  BY <1>1, <1>2, <1>3 DEF Group, Quiet, Calls

\* The writer that writes: it is the first, and its group is in the queue.
LEMMA WritingFacts ==
  ASSUME Inv, NEW w \in Writers, wr[w].pc \in {"logging", "inserting"}
  PROVE  /\ Len(queue) > 0 /\ queue[1] = w /\ Running
         /\ wr[w] = Call(wr[w]) /\ wr[w].st = "waiting"
         /\ \E g : /\ group = {g} /\ g.n \in 1..Len(queue)
                   /\ g = BatchesOf(g)
<1>1. Queued /\ Calls /\ Group /\ Quiet
  BY DEF Inv, WInv
<1>2. Len(queue) > 0 /\ queue[1] = w /\ group # {} /\ wr[w].st = "waiting"
  BY <1>1 DEF Calls
<1>3. wr[w] = Call(wr[w])
  BY <1>1, Zenon DEF Calls
<1>4. queue # <<>>
  BY <1>1, <1>2
<1>. QED
  BY <1>1, <1>2, <1>3, <1>4 DEF Group, Quiet

\* A step that only takes numbers and changes the calls, the memtables, the
\* log files' contents or an error keeps the rest.
LEMMA OthersStay ==
  ASSUME Inv, WInv', Running,
         tables' = tables, manifests' = manifests, curfile' = curfile,
         db' = db, recovery' = recovery, bg' = bg, rd' = rd,
         pending' = pending, failed => failed', failed' \in BOOLEAN,
         scheduled' \in BOOLEAN, DOMAIN logs' \subseteq Nat,
         vs' = VersionSetOf(vs'), vs'.v = vs.v, vs'.man = vs.man,
         vs'.seek = vs.seek,
         vs'.next \in Nat, vs.next <= vs'.next,
         imm' = imm \/ \E E : imm' = {E}
  PROVE  Inv'
<1>1. Shape /\ Recovering /\ Quiet /\ DInv
  BY DEF Inv
<1>3. Logging' <=> Logging
  BY DEF Logging
<1>5. Shape'
  <2>1. DOMAIN logs' \subseteq Nat /\ db' = db
    OBVIOUS
  <2>2. Thread'
    BY <1>1, <1>3 DEF Shape, Thread
  <2>. QED
    BY <1>1, <2>1, <2>2 DEF Shape
<1>6. Recovering'
  BY <1>1 DEF Recovering
<1>7. Quiet'
  BY DEF Quiet, Running
<1>8. DInv'
  BY <1>1, NothingNamed
<1>. QED
  BY <1>5, <1>6, <1>7, <1>8 DEF Inv

\* The front's call goes on, alone or with its group.
LEMMA FrontWaits ==
  ASSUME Inv, NEW w \in Writers, AtRoom(w), NEW c, c = Call(c),
         c.st = "waiting", c.pc \in {"room", "bgwait"},
         wr' = [wr EXCEPT ![w] = c], queue' = queue, group' = group
  PROVE  WInv'
<1>1. /\ Len(queue) > 0 /\ queue[1] = w /\ group = {} /\ wr[w].st = "waiting"
      /\ WInv
  BY FrontFacts DEF Inv
<1>. QED
  BY <1>1, FrontGoesOn

LEMMA FrontWrites ==
  ASSUME WInv, NEW w \in Writers, NEW c, Len(queue) > 0, queue[1] = w,
         c = Call(c), c.st = wr[w].st, c.pc \in {"logging", "inserting"},
         wr' = [wr EXCEPT ![w] = c], queue' = queue,
         NEW g, group' = {g}, g.n \in 1..Len(queue),
         g = BatchesOf(g)
  PROVE  WInv'
<1>1. group' # {}
  OBVIOUS
<1>. QED
  BY <1>1, FrontGoesOn

LEMMA WriteKeeps ==
  ASSUME Inv, NEW w \in Writers, NEW q, Write(w, q)
  PROVE  Inv'
<1>1. WInv'
  BY CallJoins DEF Inv
<1>2. Running
  BY DEF Write, Running
<1>3. /\ vs' = vs /\ logs' = logs /\ imm' = imm /\ failed' = failed
      /\ scheduled' = scheduled
      /\ tables' = tables /\ manifests' = manifests /\ curfile' = curfile
      /\ db' = db /\ recovery' = recovery /\ bg' = bg /\ rd' = rd
      /\ pending' = pending
  BY DEF Write, disk, life
<1>4. Shape
  BY DEF Inv
<1>. QED
  BY <1>1, <1>2, <1>3, <1>4, OthersStay DEF Shape

\* An answer without a group, all else unchanged
LEMMA FrontAnswered ==
  ASSUME Inv, NEW w \in Writers, AtRoom(w), NEW st, st # "waiting",
         PopWriters(1, st),
         UNCHANGED <<disk, life, mem, imm, lognum, vs, group, scheduled, bg,
                     failed, pending, manual, rd, told, stops>>
  PROVE  Inv'
<1>1. Running /\ group' = {} /\ 1 \in 1..Len(queue)
  BY FrontFacts
<1>2. WInv'
  BY <1>1, Popped DEF Inv
<1>3. /\ vs' = vs /\ logs' = logs /\ imm' = imm /\ failed' = failed
      /\ scheduled' = scheduled
      /\ tables' = tables /\ manifests' = manifests /\ curfile' = curfile
      /\ db' = db /\ recovery' = recovery /\ bg' = bg /\ rd' = rd
      /\ pending' = pending
  BY DEF disk, life
<1>4. Shape
  BY DEF Inv
<1>. QED
  BY <1>1, <1>2, <1>3, <1>4, OthersStay DEF Shape

\* Setting one field of a call, of a group
LEMMA CallSet ==
  ASSUME NEW c, c = Call(c), NEW x
  PROVE  /\ [c EXCEPT !.delay = x] = Call([c EXCEPT !.delay = x])
         /\ [c EXCEPT !.delay = x].st = c.st /\ [c EXCEPT !.delay = x].pc = c.pc
         /\ [c EXCEPT !.force = x] = Call([c EXCEPT !.force = x])
         /\ [c EXCEPT !.force = x].st = c.st /\ [c EXCEPT !.force = x].pc = c.pc
         /\ [c EXCEPT !.pc = x] = Call([c EXCEPT !.pc = x])
         /\ [c EXCEPT !.pc = x].st = c.st /\ [c EXCEPT !.pc = x].pc = x
<1>1. [c EXCEPT !.delay = x] =
        [pc |-> c.pc, batch |-> c.batch, sync |-> c.sync, delay |-> x,
         force |-> c.force, st |-> c.st]
  BY DEF Call
<1>2. [c EXCEPT !.force = x] =
        [pc |-> c.pc, batch |-> c.batch, sync |-> c.sync, delay |-> c.delay,
         force |-> x, st |-> c.st]
  BY DEF Call
<1>3. [c EXCEPT !.pc = x] =
        [pc |-> x, batch |-> c.batch, sync |-> c.sync, delay |-> c.delay,
         force |-> c.force, st |-> c.st]
  BY DEF Call
<1>. QED
  BY <1>1, <1>2, <1>3 DEF Call

LEMMA GroupSet ==
  ASSUME NEW g, g = BatchesOf(g), NEW x
  PROVE  /\ [g EXCEPT !.ok = x] = BatchesOf([g EXCEPT !.ok = x])
         /\ [g EXCEPT !.ok = x].n = g.n
         /\ [g EXCEPT !.bad = x] = BatchesOf([g EXCEPT !.bad = x])
         /\ [g EXCEPT !.bad = x].n = g.n
<1>1. [g EXCEPT !.ok = x] =
        [n |-> g.n, ents |-> g.ents, last |-> g.last, ok |-> x, bad |-> g.bad]
  BY DEF BatchesOf
<1>2. [g EXCEPT !.bad = x] =
        [n |-> g.n, ents |-> g.ents, last |-> g.last, ok |-> g.ok, bad |-> x]
  BY DEF BatchesOf
<1>. QED
  BY <1>1, <1>2 DEF BatchesOf

LEMMA WriterKeeps ==
  ASSUME Inv, NEW w \in Writers, WriterStep(w) \/ WriterFails(w)
  PROVE  Inv'
<1>1. /\ Shape /\ WInv
      /\ vs = VersionSetOf(vs) /\ vs.next \in Nat
      /\ DOMAIN logs \subseteq Nat
  BY DEF Inv, Shape
<1>2. CASE RefuseWrite(w)
  BY <1>2, FrontAnswered, Zenon DEF RefuseWrite
<1>3. CASE SwitchFails(w)
  BY <1>3, FrontAnswered, Zenon DEF SwitchFails
<1>4. CASE NothingToWrite(w)
  BY <1>4, FrontAnswered, Zenon DEF NothingToWrite
<1>5. CASE DelayWrite(w)
  <2>1. AtRoom(w) /\ wr' = [wr EXCEPT ![w].delay = FALSE] /\ queue' = queue
        /\ group' = group
    BY <1>5 DEF DelayWrite
  <2>2. Running /\ wr[w] = Call(wr[w]) /\ wr[w].st = "waiting"
    BY <2>1, FrontFacts
  <2>. DEFINE c == [wr[w] EXCEPT !.delay = FALSE]
  <2>3. c = Call(c) /\ c.st = "waiting" /\ c.pc = "room"
    <3>1. wr[w].pc = "room"
      BY <2>1 DEF AtRoom
    <3>. QED
      BY <2>2, <3>1, CallSet, Zenon
  <2>4. wr' = [wr EXCEPT ![w] = c]
    BY <2>1
  <2>. HIDE DEF c
  <2>5. WInv'
    BY <2>1, <2>3, <2>4, FrontWaits
  <2>6. /\ vs' = vs /\ logs' = logs /\ imm' = imm /\ failed' = failed
        /\ scheduled' = scheduled
        /\ tables' = tables /\ manifests' = manifests /\ curfile' = curfile
        /\ db' = db /\ recovery' = recovery /\ bg' = bg /\ rd' = rd
        /\ pending' = pending
    BY <1>5 DEF DelayWrite, disk, life
  <2>. QED
    BY <1>1, <2>2, <2>5, <2>6, OthersStay DEF Shape
<1>6. CASE WaitForRoom(w)
  <2>1. AtRoom(w) /\ wr' = [wr EXCEPT ![w].pc = "bgwait"] /\ queue' = queue
        /\ group' = group
    BY <1>6 DEF WaitForRoom
  <2>2. Running /\ wr[w] = Call(wr[w]) /\ wr[w].st = "waiting"
    BY <2>1, FrontFacts
  <2>. DEFINE c == [wr[w] EXCEPT !.pc = "bgwait"]
  <2>3. c = Call(c) /\ c.st = "waiting" /\ c.pc = "bgwait"
    <3>1. c = [pc |-> "bgwait", batch |-> wr[w].batch, sync |-> wr[w].sync,
               delay |-> wr[w].delay, force |-> wr[w].force, st |-> wr[w].st]
      BY <2>2 DEF Call
    <3>. QED
      BY <2>2, <3>1 DEF Call
  <2>4. wr' = [wr EXCEPT ![w] = c]
    BY <2>1
  <2>. HIDE DEF c
  <2>5. WInv'
    BY <2>1, <2>3, <2>4, FrontWaits
  <2>6. /\ vs' = vs /\ logs' = logs /\ imm' = imm /\ failed' = failed
        /\ scheduled' = scheduled
        /\ tables' = tables /\ manifests' = manifests /\ curfile' = curfile
        /\ db' = db /\ recovery' = recovery /\ bg' = bg /\ rd' = rd
        /\ pending' = pending
    BY <1>6 DEF WaitForRoom, disk, life
  <2>. QED
    BY <1>1, <2>2, <2>5, <2>6, OthersStay DEF Shape
<1>7. CASE SwitchMemTable(w)
  <2>1. AtRoom(w) /\ wr' = [wr EXCEPT ![w].force = FALSE] /\ queue' = queue
        /\ group' = group
    BY <1>7 DEF SwitchMemTable
  <2>2. Running /\ wr[w] = Call(wr[w]) /\ wr[w].st = "waiting"
    BY <2>1, FrontFacts
  <2>. DEFINE c == [wr[w] EXCEPT !.force = FALSE]
  <2>3. c = Call(c) /\ c.st = "waiting" /\ c.pc = "room"
    <3>1. wr[w].pc = "room"
      BY <2>1 DEF AtRoom
    <3>. QED
      BY <2>2, <3>1, CallSet, Zenon
  <2>4. wr' = [wr EXCEPT ![w] = c]
    BY <2>1
  <2>. HIDE DEF c
  <2>5. WInv'
    BY <2>1, <2>3, <2>4, FrontWaits
  <2>6. /\ imm' = {mem} /\ failed' = failed
        /\ tables' = tables /\ manifests' = manifests /\ curfile' = curfile
        /\ db' = db /\ recovery' = recovery /\ bg' = bg /\ rd' = rd
        /\ pending' = pending
        /\ logs' = With(logs, vs.next, EmptyLog)
        /\ vs' = [vs EXCEPT !.next = @ + 1]
    BY <1>7 DEF SwitchMemTable, life
  <2>7. scheduled' \in BOOLEAN
    BY <1>7 DEF SwitchMemTable, MaybeSchedule
  <2>8. DOMAIN logs' \subseteq Nat
    <3>1. DOMAIN logs' = DOMAIN logs \cup {vs.next}
      BY <2>6 DEF With
    <3>. QED
      BY <1>1, <3>1
  <2>9. /\ vs' = VersionSetOf(vs') /\ vs'.v = vs.v /\ vs'.man = vs.man
        /\ vs'.seek = vs.seek /\ vs'.next = vs.next + 1
    <3>1. vs' = [v |-> vs.v, log |-> vs.log, next |-> vs.next + 1,
                 last |-> vs.last, man |-> vs.man, after |-> vs.after,
                 seek |-> vs.seek]
      BY <1>1, <2>6 DEF VersionSetOf
    <3>. QED
      BY <3>1 DEF VersionSetOf
  <2>10. vs'.next \in Nat /\ vs.next <= vs'.next
    BY <1>1, <2>9
  <2>11. failed' \in BOOLEAN
    BY <1>1, <2>6 DEF Shape
  <2>. QED
    BY <2>2, <2>5, <2>6, <2>7, <2>8, <2>9, <2>10, <2>11, OthersStay
<1>8. CASE StartGroup(w)
  <2>. DEFINE n == GroupOf(queue)
              g == [n |-> n,
                    ents |-> Numbered(FlattenSeq([i \in 1 .. n |->
                                        wr[queue[i]].batch]), vs.last),
                    last |-> vs.last + Len(FlattenSeq([i \in 1 .. n |->
                                             wr[queue[i]].batch])),
                    ok |-> TRUE, bad |-> FALSE]
              c == [wr[w] EXCEPT !.pc = "logging"]
  <2>1. AtRoom(w) /\ group' = {g} /\ wr' = [wr EXCEPT ![w].pc = "logging"]
        /\ queue' = queue
    BY <1>8, Zenon DEF StartGroup
  <2>2. /\ Running /\ wr[w] = Call(wr[w]) /\ wr[w].st = "waiting"
        /\ Len(queue) > 0 /\ queue[1] = w /\ queue \in Seq(Writers)
    BY <2>1, FrontFacts
  <2>3. n \in 1..Len(queue)
    BY <2>2, GroupSize
  <2>4. g = BatchesOf(g) /\ g.n = n
    BY Zenon DEF BatchesOf
  <2>5. c = Call(c) /\ c.st = wr[w].st /\ c.pc = "logging"
    <3>1. c = [pc |-> "logging", batch |-> wr[w].batch, sync |-> wr[w].sync,
               delay |-> wr[w].delay, force |-> wr[w].force, st |-> wr[w].st]
      BY <2>2 DEF Call
    <3>. QED
      BY <2>2, <3>1 DEF Call
  <2>6. wr' = [wr EXCEPT ![w] = c]
    BY <2>1
  <2>. HIDE DEF c, g, n
  <2>7. WInv'
    BY <1>1, <2>1, <2>2, <2>3, <2>4, <2>5, <2>6, FrontWrites
  <2>8. /\ vs' = vs /\ logs' = logs /\ imm' = imm /\ failed' = failed
        /\ scheduled' = scheduled
        /\ tables' = tables /\ manifests' = manifests /\ curfile' = curfile
        /\ db' = db /\ recovery' = recovery /\ bg' = bg /\ rd' = rd
        /\ pending' = pending
    BY <1>8 DEF StartGroup, disk, life
  <2>. QED
    BY <1>1, <2>2, <2>7, <2>8, OthersStay DEF Shape
<1>9. CASE AddRecord(w) \/ AppendFails(w) \/ SyncFails(w)
  <2>1. /\ wr[w].pc = "logging" /\ wr' = [wr EXCEPT ![w].pc = "inserting"]
        /\ queue' = queue
        /\ \/ group' = group
           \/ group' = {[g EXCEPT !.ok = FALSE] : g \in group}
           \/ group' = {[n |-> g.n, ents |-> g.ents, last |-> g.last, ok |-> FALSE,
                         bad |-> TRUE] : g \in group}
    BY <1>9 DEF AddRecord, AppendFails, SyncFails
  <2>2. /\ Running /\ wr[w] = Call(wr[w]) /\ Len(queue) > 0 /\ queue[1] = w
        /\ \E g : /\ group = {g} /\ g.n \in 1..Len(queue)
                  /\ g = BatchesOf(g)
    BY <2>1, WritingFacts
  <2>3. PICK g : /\ group = {g} /\ g.n \in 1..Len(queue)
                 /\ g = BatchesOf(g)
    BY <2>2
  <2>4. \E h : /\ group' = {h} /\ h.n \in 1..Len(queue)
               /\ h = BatchesOf(h)
    <3>1. CASE group' = group
      BY <2>3, <3>1
    <3>2. CASE group' = {[x EXCEPT !.ok = FALSE] : x \in group}
      <4>. DEFINE h == [g EXCEPT !.ok = FALSE]
      <4>1. group' = {h}
        BY <2>3, <3>2
      <4>2. h.n = g.n /\ h = BatchesOf(h)
        BY <2>3, GroupSet
      <4>. HIDE DEF h
      <4>. QED
        BY <2>3, <4>1, <4>2
    <3>3. CASE group' = {[n |-> x.n, ents |-> x.ents, last |-> x.last, ok |-> FALSE,
                          bad |-> TRUE] : x \in group}
      <4>. DEFINE h == [n |-> g.n, ents |-> g.ents, last |-> g.last, ok |-> FALSE,
                        bad |-> TRUE]
      <4>1. group' = {h}
        BY <2>3, <3>3
      <4>2. h = BatchesOf(h) /\ h.n = g.n
        BY Zenon DEF BatchesOf
      <4>. HIDE DEF h
      <4>. QED
        BY <2>3, <4>1, <4>2
    <3>. QED
      BY <2>1, <3>1, <3>2, <3>3
  <2>5. PICK h : /\ group' = {h} /\ h.n \in 1..Len(queue)
                 /\ h = BatchesOf(h)
    BY <2>4
  <2>. DEFINE c == [wr[w] EXCEPT !.pc = "inserting"]
  <2>6. c = Call(c) /\ c.st = wr[w].st /\ c.pc = "inserting"
    <3>1. c = [pc |-> "inserting", batch |-> wr[w].batch, sync |-> wr[w].sync,
               delay |-> wr[w].delay, force |-> wr[w].force, st |-> wr[w].st]
      BY <2>2 DEF Call
    <3>. QED
      BY <2>2, <3>1 DEF Call
  <2>7. wr' = [wr EXCEPT ![w] = c]
    BY <2>1
  <2>. HIDE DEF c
  <2>8. WInv'
    BY <1>1, <2>1, <2>2, <2>5, <2>6, <2>7, FrontWrites
  <2>9. /\ vs' = vs /\ imm' = imm /\ failed' = failed
        /\ scheduled' = scheduled
        /\ tables' = tables /\ manifests' = manifests /\ curfile' = curfile
        /\ db' = db /\ recovery' = recovery /\ bg' = bg /\ rd' = rd
        /\ pending' = pending
    BY <1>9 DEF AddRecord, AppendFails, SyncFails, life
  <2>10. DOMAIN logs' = DOMAIN logs
    BY <1>9 DEF AddRecord, AppendFails, SyncFails
  <2>. QED
    BY <1>1, <2>2, <2>8, <2>9, <2>10, OthersStay DEF Shape
<1>10. CASE FinishWrite(w)
  <2>1. /\ wr[w].pc = "inserting" /\ group' = {}
        /\ PopWriters(Some(group).n, IF Some(group).ok THEN "ok" ELSE "failed")
        /\ vs' = [vs EXCEPT !.last = Some(group).last]
        /\ failed' = (failed \/ Some(group).bad)
    BY <1>10 DEF FinishWrite
  <2>2. /\ Running
        /\ \E g : /\ group = {g} /\ g.n \in 1..Len(queue)
                  /\ g = BatchesOf(g)
    BY <2>1, WritingFacts
  <2>3. Some(group).n \in 1..Len(queue)
    BY <2>2, SomeOfOne
  <2>4. WInv'
    <3>. DEFINE st == IF Some(group).ok THEN "ok" ELSE "failed"
                n == Some(group).n
    <3>1. st # "waiting" /\ PopWriters(n, st) /\ n \in 1..Len(queue)
      BY <2>1, <2>3
    <3>. HIDE DEF st, n
    <3>. QED
      BY <1>1, <2>1, <3>1, Popped
  <2>5. /\ logs' = logs /\ imm' = imm
        /\ scheduled' = scheduled
        /\ tables' = tables /\ manifests' = manifests /\ curfile' = curfile
        /\ db' = db /\ recovery' = recovery /\ bg' = bg /\ rd' = rd
        /\ pending' = pending
    BY <1>10 DEF FinishWrite, disk, life
  <2>6. /\ vs' = VersionSetOf(vs') /\ vs'.v = vs.v /\ vs'.man = vs.man
        /\ vs'.seek = vs.seek /\ vs'.next = vs.next
    <3>1. vs' = [v |-> vs.v, log |-> vs.log, next |-> vs.next,
                 last |-> Some(group).last, man |-> vs.man,
                 after |-> vs.after, seek |-> vs.seek]
      BY <1>1, <2>1 DEF VersionSetOf
    <3>. QED
      BY <3>1 DEF VersionSetOf
  <2>7. failed' \in BOOLEAN /\ (failed => failed') /\ scheduled' \in BOOLEAN
    BY <1>1, <2>1, <2>5 DEF Shape
  <2>8. vs'.next \in Nat /\ vs.next <= vs'.next /\ DOMAIN logs' \subseteq Nat
    BY <1>1, <2>5, <2>6
  <2>. QED
    BY <2>2, <2>4, <2>5, <2>6, <2>7, <2>8, OthersStay
<1>. QED
  BY <1>2, <1>3, <1>4, <1>5, <1>6, <1>7, <1>8, <1>9, <1>10
     DEF WriterStep, WriterFails

LEMMA QueueSame ==
  ASSUME WInv, wr' = wr, queue' = queue, group' = group
  PROVE  WInv'
<1>1. Queued'
  BY DEF WInv, Queued
<1>2. Calls'
  BY DEF WInv, Calls
<1>3. Group'
  BY DEF WInv, Group
<1>. QED
  BY <1>1, <1>2, <1>3 DEF WInv

LEMMA CompactingKeeps ==
  ASSUME Inv, Compacting
  PROVE  Inv'
<1>1. Shape /\ Quiet /\ WInv
  BY DEF Inv
<1>2. Running
  <2>1. CASE ManualLoop
    BY <1>1, <2>1 DEF ManualLoop, Quiet, IdleManual
  <2>2. CASE \E range \in Ranges : CompactRange(range)
    BY <2>2 DEF CompactRange, Running
  <2>. QED
    BY <2>1, <2>2 DEF Compacting
<1>3. /\ vs' = vs /\ logs' = logs /\ imm' = imm /\ failed' = failed
      /\ wr' = wr /\ queue' = queue /\ group' = group
      /\ tables' = tables /\ manifests' = manifests /\ curfile' = curfile
      /\ db' = db /\ recovery' = recovery /\ bg' = bg /\ rd' = rd
      /\ pending' = pending
      /\ scheduled' \in BOOLEAN
  <2>1. CASE ManualLoop
    BY <2>1 DEF ManualLoop, MaybeSchedule, disk, life, writing
  <2>2. CASE \E range \in Ranges : CompactRange(range)
    BY <1>1, <2>2 DEF CompactRange, disk, life, writing, Shape
  <2>. QED
    BY <2>1, <2>2 DEF Compacting
<1>4. WInv'
  BY <1>1, <1>3, QueueSame
<1>. QED
  BY <1>1, <1>2, <1>3, <1>4, OthersStay DEF Shape

-----------------------------------------------------------------------------
(* The steps of the readers.                                               *)

\* The file that wears out is one of its level.
LEMMA SeekFound ==
  ASSUME NEW v, NEW k, NEW s, NEW p \in SeekFile(v, k, s)
  PROVE  p.level \in Levels /\ p.file \in v[p.level]
<1>. DEFINE fs == ReadOrder(v, k, s)
            missed(f) == Len(fs) > 1 /\ fs[1] = f /\ Newest(f.ents, k, s) = {}
            Of(l) == {[level |-> l, file |-> f] : f \in {x \in v[l] : missed(x)}}
<1>1. SeekFile(v, k, s) = UNION {Of(l) : l \in Levels}
  BY DEF SeekFile
<1>. HIDE DEF missed
<1>2. PICK l \in Levels : p \in Of(l)
  BY <1>1
<1>. QED
  BY <1>2

\* A step of a reader that names nothing new
LEMMA ReaderFrame ==
  ASSUME Inv, Running, NEW r \in Readers, NEW snap, NEW get,
         rd' = [rd EXCEPT ![r] = [snap |-> snap, get |-> get]],
         \A g \in get : FilesOf(g.v) \subseteq Live,
         UNCHANGED <<disk, life, mem, imm, lognum, writing, bg, failed,
                     pending, manual, told, stops>>,
         scheduled' \in BOOLEAN,
         vs' = VersionSetOf(vs'), vs'.v = vs.v, vs'.man = vs.man,
         vs'.next = vs.next,
         \A p \in vs'.seek : p.level \in Levels /\ p.file \in vs.v[p.level]
  PROVE  Inv'
<1>1. Shape /\ Recovering /\ Quiet /\ WInv /\ DInv
  BY DEF Inv
<1>2. /\ logs' = logs /\ imm' = imm /\ failed' = failed
      /\ wr' = wr /\ queue' = queue /\ group' = group
      /\ tables' = tables /\ manifests' = manifests /\ curfile' = curfile
      /\ db' = db /\ recovery' = recovery /\ bg' = bg
      /\ pending' = pending
  BY DEF disk, life, writing
<1>3. /\ rd'[r] = [snap |-> snap, get |-> get]
      /\ \A x \in Readers : x # r => rd'[x] = rd[x]
      /\ rd' = [x \in Readers |-> rd'[x]]
  <2>1. rd = [x \in Readers |-> rd[x]]
    BY <1>1, Zenon DEF Shape
  <2>. QED
    BY <2>1
<1>4. rd' = [x \in Readers |-> [snap |-> rd'[x].snap, get |-> rd'[x].get]]
  <2>1. \A x \in Readers : rd'[x] = [snap |-> rd'[x].snap, get |-> rd'[x].get]
    <3>1. \A x \in Readers : rd[x] = [snap |-> rd[x].snap, get |-> rd[x].get]
      BY <1>1, Zenon DEF Shape
    <3>2. rd'[r] = [snap |-> rd'[r].snap, get |-> rd'[r].get]
      BY <1>3
    <3>. QED
      BY <1>3, <3>1, <3>2, Zenon
  <2>. QED
    BY <1>3, <2>1, Zenon
<1>5. WInv'
  BY <1>1, <1>2, QueueSame
<1>6. Logging' <=> Logging
  BY <1>2 DEF Logging
<1>7. Shape'
  <2>1. vs'.next \in Nat /\ vs'.man \in Nat
    BY <1>1 DEF Shape
  <2>2. Thread'
    BY <1>1, <1>2, <1>6 DEF Shape, Thread
  <2>. QED
    BY <1>1, <1>2, <1>4, <2>1, <2>2 DEF Shape
<1>8. Recovering'
  BY <1>1, <1>2 DEF Recovering
<1>9. Quiet'
  BY <1>2 DEF Quiet, Running
<1>10. Live' \subseteq Live
  <2>1. ASSUME NEW f \in Live'
        PROVE  f \in Live
    <3>1. \/ f \in FilesOf(vs'.v)
          \/ \E x \in Readers : \E g \in rd'[x].get : f \in FilesOf(g.v)
          \/ \E c \in bg'.c : f \in FilesOf(c.base) \/ f \in ToSet(c.done)
          \/ \E e \in bg'.edit : \E a \in e.added : a[2] = f
          \/ \E c \in recovery' : f \in c.added
      BY <2>1, InLiveNext
    <3>2. CASE \E x \in Readers : \E g \in rd'[x].get : f \in FilesOf(g.v)
      <4>1. PICK x \in Readers : \E g \in rd'[x].get : f \in FilesOf(g.v)
        BY <3>2
      <4>2. CASE x = r
        BY <1>3, <4>1, <4>2
      <4>3. CASE x # r
        BY <1>3, <4>1, <4>3, InLive
      <4>. QED
        BY <4>2, <4>3
    <3>. QED
      BY <1>2, <3>1, <3>2, InLive
  <2>. QED
    BY <2>1
<1>11. DInv'
  <2>1. Kept'
    BY <1>1, <1>2 DEF DInv, Kept
  <2>2. vs'.next \in Nat /\ vs.next <= vs'.next
    BY <1>1 DEF Shape
  <2>3. Fresh'
    BY <1>1, <1>2, <1>10 DEF DInv, Fresh
  <2>. QED
    BY <1>1, <1>2, <1>6, <1>10, <2>1, <2>2, <2>3, FilesFrame
<1>. QED
  BY <1>5, <1>7, <1>8, <1>9, <1>11 DEF Inv

LEMMA ReadingKeeps ==
  ASSUME Inv, Reading
  PROVE  Inv'
<1>1. Shape /\ Quiet
  BY DEF Inv
<1>2. PICK r \in Readers : \/ GetSnapshot(r) \/ ReleaseSnapshot(r) \/ StartGet(r)
                           \/ \E k \in Keys : EndGet(r, k)
  BY DEF Reading
<1>3. rd[r] = [snap |-> rd[r].snap, get |-> rd[r].get]
  BY <1>1, Zenon DEF Shape
<1>4. Running
  <2>1. ~Running => rd[r] = NoReader
    BY <1>1 DEF Quiet
  <2>2. ~Running => rd[r].snap = {} /\ rd[r].get = {}
    BY <2>1 DEF NoReader
  <2>. QED
    BY <1>2, <2>2 DEF GetSnapshot, ReleaseSnapshot, StartGet, EndGet, Running
<1>5. vs = VersionSetOf(vs) /\ scheduled \in BOOLEAN
      /\ \A p \in vs.seek : p.level \in Levels /\ p.file \in vs.v[p.level]
  BY <1>1 DEF Shape
<1>6. \A g \in rd[r].get : FilesOf(g.v) \subseteq Live
  BY InLive
<1>7. CASE GetSnapshot(r)
  <2>1. rd' = [rd EXCEPT ![r].snap = {vs.last}]
    BY <1>7 DEF GetSnapshot
  <2>2. [rd[r] EXCEPT !.snap = {vs.last}] = [snap |-> {vs.last}, get |-> rd[r].get]
    BY <1>3
  <2>3. rd' = [rd EXCEPT ![r] = [snap |-> {vs.last}, get |-> rd[r].get]]
    BY <2>1, <2>2, Zenon
  <2>4. /\ UNCHANGED <<disk, life, mem, imm, lognum, writing, bg, failed,
                       pending, manual, told, stops>>
        /\ vs' = vs /\ scheduled' = scheduled
    BY <1>7 DEF GetSnapshot
  <2>. QED
    BY <1>4, <1>5, <1>6, <2>3, <2>4, ReaderFrame
<1>8. CASE ReleaseSnapshot(r)
  <2>1. rd' = [rd EXCEPT ![r].snap = {}]
    BY <1>8 DEF ReleaseSnapshot
  <2>2. [rd[r] EXCEPT !.snap = {}] = [snap |-> {}, get |-> rd[r].get]
    BY <1>3
  <2>3. rd' = [rd EXCEPT ![r] = [snap |-> {}, get |-> rd[r].get]]
    BY <2>1, <2>2, Zenon
  <2>4. /\ UNCHANGED <<disk, life, mem, imm, lognum, writing, bg, failed,
                       pending, manual, told, stops>>
        /\ vs' = vs /\ scheduled' = scheduled
    BY <1>8 DEF ReleaseSnapshot
  <2>. QED
    BY <1>4, <1>5, <1>6, <2>3, <2>4, ReaderFrame
<1>9. CASE StartGet(r)
  <2>. DEFINE get == {[s |-> IF rd[r].snap = {} THEN vs.last ELSE Some(rd[r].snap),
                       mem |-> mem, imm |-> imm, v |-> vs.v]}
  <2>1. rd' = [rd EXCEPT ![r].get = get]
    BY <1>9, Zenon DEF StartGet
  <2>2. \A g \in get : FilesOf(g.v) \subseteq Live
    BY InLive
  <2>. HIDE DEF get
  <2>3. [rd[r] EXCEPT !.get = get] = [snap |-> rd[r].snap, get |-> get]
    BY <1>3
  <2>4. rd' = [rd EXCEPT ![r] = [snap |-> rd[r].snap, get |-> get]]
    BY <2>1, <2>3, Zenon
  <2>5. /\ UNCHANGED <<disk, life, mem, imm, lognum, writing, bg, failed,
                       pending, manual, told, stops>>
        /\ vs' = vs /\ scheduled' = scheduled
    BY <1>9 DEF StartGet
  <2>. QED
    BY <1>4, <1>5, <2>2, <2>4, <2>5, ReaderFrame
<1>10. ASSUME NEW k \in Keys, EndGet(r, k)
       PROVE  Inv'
  <2>. DEFINE g == Some(rd[r].get)
              inMem == Newest(g.mem \cup UNION g.imm, k, g.s) # {}
              worn == IF inMem \/ g.v # vs.v \/ vs.seek # {} THEN {}
                      ELSE SeekFile(g.v, k, g.s)
  <2>1. /\ rd' = [rd EXCEPT ![r].get = {}]
        /\ \/ vs' = vs /\ scheduled' = scheduled
           \/ vs' = [vs EXCEPT !.seek = worn]
              /\ MaybeSchedule(scheduled, imm, manual, vs', failed)
    BY <1>10, Zenon DEF EndGet
  <2>2. \A p \in worn : p.level \in Levels /\ p.file \in vs.v[p.level]
    BY SeekFound
  <2>. HIDE DEF worn
  <2>3. [rd[r] EXCEPT !.get = {}] = [snap |-> rd[r].snap, get |-> {}]
    BY <1>3
  <2>4. rd' = [rd EXCEPT ![r] = [snap |-> rd[r].snap, get |-> {}]]
    BY <2>1, <2>3, Zenon
  <2>5. UNCHANGED <<disk, life, mem, imm, lognum, writing, bg, failed,
                    pending, manual, told, stops>>
    BY <1>10 DEF EndGet
  <2>6. /\ vs' = VersionSetOf(vs') /\ vs'.v = vs.v /\ vs'.man = vs.man
        /\ vs'.next = vs.next
        /\ \A p \in vs'.seek : p.level \in Levels /\ p.file \in vs.v[p.level]
        /\ scheduled' \in BOOLEAN
    <3>1. CASE vs' = vs /\ scheduled' = scheduled
      BY <1>5, <3>1
    <3>2. CASE /\ vs' = [vs EXCEPT !.seek = worn]
               /\ MaybeSchedule(scheduled, imm, manual, vs', failed)
      <4>1. vs' = [v |-> vs.v, log |-> vs.log, next |-> vs.next,
                   last |-> vs.last, man |-> vs.man, after |-> vs.after,
                   seek |-> worn]
        BY <1>5, <3>2 DEF VersionSetOf
      <4>2. scheduled' \in BOOLEAN
        BY <3>2 DEF MaybeSchedule
      <4>. QED
        BY <2>2, <4>1, <4>2 DEF VersionSetOf
    <3>. QED
      BY <2>1, <3>1, <3>2
  <2>7. PICK none : none = {}
    OBVIOUS
  <2>8. /\ rd' = [rd EXCEPT ![r] = [snap |-> rd[r].snap, get |-> none]]
        /\ \A x \in none : FilesOf(x.v) \subseteq Live
    BY <2>4, <2>7
  <2>. HIDE DEF g, inMem
  <2>. QED
    BY <1>4, <2>5, <2>6, <2>8, ReaderFrame
<1>. QED
  BY <1>2, <1>7, <1>8, <1>9, <1>10

-----------------------------------------------------------------------------
(* The steps of the background thread.                                     *)

\* Setting fields of the thread's record
LEMMA ThreadNum ==
  ASSUME NEW b, b = ThreadOf(b), NEW x, NEW y
  PROVE  [b EXCEPT !.pc = x, !.num = y] = [pc |-> x, edit |-> b.edit, c |-> b.c,
            num |-> y, manual |-> b.manual]
<1>. DEFINE k == [b EXCEPT !.pc = x]
<1>1. [b EXCEPT !.pc = x, !.num = y] = [k EXCEPT !.num = y]
  BY Zenon
<1>2. k = [pc |-> x, edit |-> b.edit, c |-> b.c, num |-> b.num,
           manual |-> b.manual]
  BY DEF ThreadOf
<1>. HIDE DEF k
<1>3. [k EXCEPT !.num = y] = [pc |-> x, edit |-> b.edit, c |-> b.c,
            num |-> y, manual |-> b.manual]
  BY <1>2
<1>. QED
  BY <1>1, <1>3, Zenon
LEMMA ThreadEdit ==
  ASSUME NEW b, b = ThreadOf(b), NEW x, NEW y
  PROVE  [b EXCEPT !.pc = x, !.edit = y] = [pc |-> x, edit |-> y, c |-> b.c,
            num |-> b.num, manual |-> b.manual]
<1>. DEFINE k == [b EXCEPT !.pc = x]
<1>1. [b EXCEPT !.pc = x, !.edit = y] = [k EXCEPT !.edit = y]
  BY Zenon
<1>2. k = [pc |-> x, edit |-> b.edit, c |-> b.c, num |-> b.num,
           manual |-> b.manual]
  BY DEF ThreadOf
<1>. HIDE DEF k
<1>3. [k EXCEPT !.edit = y] = [pc |-> x, edit |-> y, c |-> b.c,
            num |-> b.num, manual |-> b.manual]
  BY <1>2
<1>. QED
  BY <1>1, <1>3, Zenon
LEMMA ThreadMerge ==
  ASSUME NEW b, b = ThreadOf(b), NEW x, NEW y
  PROVE  [b EXCEPT !.pc = x, !.c = y] = [pc |-> x, edit |-> b.edit, c |-> y,
            num |-> b.num, manual |-> b.manual]
<1>. DEFINE k == [b EXCEPT !.pc = x]
<1>1. [b EXCEPT !.pc = x, !.c = y] = [k EXCEPT !.c = y]
  BY Zenon
<1>2. k = [pc |-> x, edit |-> b.edit, c |-> b.c, num |-> b.num,
           manual |-> b.manual]
  BY DEF ThreadOf
<1>. HIDE DEF k
<1>3. [k EXCEPT !.c = y] = [pc |-> x, edit |-> b.edit, c |-> y,
            num |-> b.num, manual |-> b.manual]
  BY <1>2
<1>. QED
  BY <1>1, <1>3, Zenon
LEMMA ThreadBack ==
  ASSUME NEW b, b = ThreadOf(b), NEW x, NEW y, NEW z
  PROVE  [b EXCEPT !.pc = x, !.edit = y, !.num = z] = [pc |-> x, edit |-> y, c |-> b.c,
            num |-> z, manual |-> b.manual]
<1>. DEFINE k == [b EXCEPT !.pc = x, !.edit = y]
<1>1. [b EXCEPT !.pc = x, !.edit = y, !.num = z] = [k EXCEPT !.num = z]
  BY Zenon
<1>2. k = [pc |-> x, edit |-> y, c |-> b.c,
            num |-> b.num, manual |-> b.manual]
  BY ThreadEdit, Zenon
<1>. HIDE DEF k
<1>3. [k EXCEPT !.num = z] = [pc |-> x, edit |-> y, c |-> b.c,
            num |-> z, manual |-> b.manual]
  BY <1>2
<1>. QED
  BY <1>1, <1>3, Zenon
LEMMA ThreadManual ==
  ASSUME NEW b, b = ThreadOf(b), NEW x, NEW y, NEW z
  PROVE  [b EXCEPT !.pc = x, !.manual = y, !.c = z] = [pc |-> x, edit |-> b.edit, c |-> z,
            num |-> b.num, manual |-> y]
<1>. DEFINE k == [b EXCEPT !.pc = x, !.manual = y]
<1>1. [b EXCEPT !.pc = x, !.manual = y, !.c = z] = [k EXCEPT !.c = z]
  BY Zenon
<1>2. k = [pc |-> x, edit |-> b.edit, c |-> b.c,
            num |-> b.num, manual |-> y]
  <2>. DEFINE l == [b EXCEPT !.pc = x]
  <2>1. k = [l EXCEPT !.manual = y]
    BY Zenon
  <2>2. l = [pc |-> x, edit |-> b.edit, c |-> b.c, num |-> b.num,
             manual |-> b.manual]
    BY DEF ThreadOf
  <2>. HIDE DEF k, l
  <2>. QED
    BY <2>1, <2>2
<1>. HIDE DEF k
<1>3. [k EXCEPT !.c = z] = [pc |-> x, edit |-> b.edit, c |-> z,
            num |-> b.num, manual |-> y]
  BY <1>2
<1>. QED
  BY <1>1, <1>3, Zenon

\* ... of the version set's
LEMMA NumberTaken ==
  ASSUME NEW s, s = VersionSetOf(s), NEW x
  PROVE  [s EXCEPT !.next = x] =
           [v |-> s.v, log |-> s.log, next |-> x, last |-> s.last,
            man |-> s.man, after |-> s.after, seek |-> s.seek]
  BY DEF VersionSetOf
LEMMA PointerMoved ==
  ASSUME NEW s, s = VersionSetOf(s), NEW l, NEW x,
         NEW t, t = [s EXCEPT !.after[l] = x]
  PROVE  /\ t = VersionSetOf(t) /\ t.v = s.v /\ t.next = s.next
         /\ t.man = s.man /\ t.seek = s.seek
<1>. DEFINE a == [s.after EXCEPT ![l] = x]
<1>1. [s EXCEPT !.after[l] = x] = [s EXCEPT !.after = a]
  BY Zenon
<1>. HIDE DEF a
<1>2. [s EXCEPT !.after = a] =
        [v |-> s.v, log |-> s.log, next |-> s.next, last |-> s.last,
         man |-> s.man, after |-> a, seek |-> s.seek]
  BY DEF VersionSetOf
<1>3. t = [v |-> s.v, log |-> s.log, next |-> s.next, last |-> s.last,
           man |-> s.man, after |-> a, seek |-> s.seek]
  BY <1>1, <1>2, Zenon
<1>. QED
  BY <1>3 DEF VersionSetOf
LEMMA VersionInstalled ==
  ASSUME NEW s, s = VersionSetOf(s), NEW x, NEW y, NEW z
  PROVE  [s EXCEPT !.v = x, !.log = y, !.seek = z] =
           [v |-> x, log |-> y, next |-> s.next, last |-> s.last,
            man |-> s.man, after |-> s.after, seek |-> z]
<1>. DEFINE k == [s EXCEPT !.v = x]
            l == [k EXCEPT !.log = y]
<1>2. k = [v |-> x, log |-> s.log, next |-> s.next, last |-> s.last,
           man |-> s.man, after |-> s.after, seek |-> s.seek]
  BY DEF VersionSetOf
<1>3. [s EXCEPT !.v = x, !.log = y, !.seek = z] = [l EXCEPT !.seek = z]
  BY Zenon
<1>. HIDE DEF k
<1>4. l = [v |-> x, log |-> y, next |-> s.next, last |-> s.last,
           man |-> s.man, after |-> s.after, seek |-> s.seek]
  BY <1>2
<1>. HIDE DEF l
<1>5. [l EXCEPT !.seek = z] = [v |-> x, log |-> y, next |-> s.next,
           last |-> s.last, man |-> s.man, after |-> s.after, seek |-> z]
  BY <1>4
<1>. QED
  BY <1>3, <1>5, Zenon

\* What is left to show of a step of the background thread: the records it
\* changes keep their fields, and the files are in order.
LEMMA BackgroundStep ==
  ASSUME Inv, Running,
         UNCHANGED <<curfile, life, queue, group, rd>>,
         wr' = wr \/ wr' = Woken(wr),
         DOMAIN logs' \subseteq Nat,
         imm' = imm \/ imm' = {},
         failed' \in BOOLEAN, scheduled' \in BOOLEAN,
         vs' = VersionSetOf(vs'), vs'.next \in Nat, vs'.man = vs.man,
         vs'.seek = {} \/ (vs'.seek = vs.seek /\ vs'.v = vs.v),
         Thread', DInv'
  PROVE  Inv'
<1>1. Shape /\ Recovering /\ WInv
  BY DEF Inv
<1>2. Running' /\ db' = db /\ recovery' = recovery
  BY DEF life, Running
<1>3. WInv'
  BY <1>1, QueueSame, WokenKeeps DEF writing
<1>4. Quiet'
  BY <1>2 DEF Quiet
<1>5. Recovering'
  BY <1>1, <1>2 DEF Recovering
<1>6. Shape'
  <2>1. rd' = [r \in Readers |-> [snap |-> rd'[r].snap, get |-> rd'[r].get]]
    BY <1>1, Zenon DEF Shape
  <2>2. \A p \in vs'.seek : p.level \in Levels /\ p.file \in vs'.v[p.level]
    BY <1>1 DEF Shape
  <2>3. imm' = {} \/ \E E : imm' = {E}
    BY <1>1 DEF Shape
  <2>. QED
    BY <1>1, <1>2, <2>1, <2>2, <2>3 DEF Shape
<1>. QED
  BY <1>3, <1>4, <1>5, <1>6 DEF Inv

\* The end of a call of the thread ...
LEMMA CallEnds ==
  ASSUME NEW im, NEW mn, NEW s, NEW f, EndCall(im, mn, s, f)
  PROVE  /\ bg' = IdleBg /\ wr' = Woken(wr) /\ scheduled' \in BOOLEAN
         /\ bg'.pc = "idle" /\ bg'.edit = {} /\ bg'.c = {}
         /\ Thread' /\ ~(Logging')
<1>1. bg' = IdleBg /\ wr' = Woken(wr) /\ scheduled' \in BOOLEAN
  BY Zenon DEF EndCall, MaybeSchedule
<1>2. /\ bg'.pc = "idle" /\ bg'.edit = {} /\ bg'.c = {}
      /\ bg' = ThreadOf(bg')
  BY <1>1 DEF IdleBg, ThreadOf
<1>. QED
  BY <1>1, <1>2 DEF Thread, Logging

\* ... and of a flush, in the middle of a merge or not
LEMMA FlushEnds ==
  ASSUME NEW im, NEW s, NEW f, Shape, EndFlush(im, s, f)
  PROVE  /\ wr' = Woken(wr) /\ scheduled' \in BOOLEAN
         /\ bg'.pc \in {"idle", "merge"} /\ bg'.edit = {} /\ bg'.c = bg.c
         /\ Thread' /\ ~(Logging')
<1>1. CASE bg.c # {}
  <2>1. /\ bg' = [bg EXCEPT !.pc = "merge", !.edit = {}, !.num = 0]
        /\ wr' = Woken(wr) /\ scheduled' = scheduled
    BY <1>1, Zenon DEF EndFlush
  <2>2. Thread /\ bg = ThreadOf(bg) /\ scheduled \in BOOLEAN
    BY DEF Shape, Thread
  <2>. DEFINE pc == "merge"
              edit == {}
              num == 0
  <2>3. bg' = [bg EXCEPT !.pc = pc, !.edit = edit, !.num = num]
    BY <2>1
  <2>. HIDE DEF pc, edit, num
  <2>6. bg' = [pc |-> pc, edit |-> edit, c |-> bg.c, num |-> num,
               manual |-> bg.manual]
    BY <2>2, <2>3, ThreadBack, Zenon
  <2>. QED
    BY <1>1, <2>1, <2>2, <2>6 DEF Thread, ThreadOf, Logging, pc, edit
<1>2. CASE bg.c = {}
  <2>1. EndCall(im, manual, s, f)
    BY <1>2, Zenon DEF EndFlush
  <2>. QED
    BY <1>2, <2>1, CallEnds
<1>. QED
  BY <1>1, <1>2

\* The thread works while the store is open only.
LEMMA Works ==
  ASSUME Inv, scheduled \/ bg.pc # "idle"
  PROVE  Running
  BY DEF Inv, Quiet, IdleBg

\* The next number names nothing yet.
LEMMA NewNumber ==
  ASSUME Inv, db # "closed"
  PROVE  /\ vs.next \in Nat /\ \A f \in Live : f.num # vs.next
         /\ \A i \in 1..Len(manifests[curfile]) :
              \A f \in FilesOf(manifests[curfile][i].v) : f.num # vs.next
<1>1. vs.next \in Nat /\ Stored /\ Descriptors
  BY DEF Inv, Shape, DInv
<1>2. \A f \in Live : f.num # vs.next
  BY <1>1 DEF Stored, Sound
<1>3. curfile \in Known /\ db # "closed"
  BY <1>1 DEF Descriptors, Known
<1>4. ASSUME NEW i \in 1..Len(manifests[curfile]),
             NEW f \in FilesOf(manifests[curfile][i].v)
      PROVE  f.num # vs.next
  <2>1. /\ f.num \in Nat /\ f.num < manifests[curfile][i].next
        /\ manifests[curfile][i].next \in Nat
    BY <1>1, <1>3, <1>4 DEF Descriptors, Descriptor
  <2>2. manifests[curfile][i].next <= vs.next
    BY <1>1, <1>3, <1>4 DEF Descriptors
  <2>. QED
    BY <1>1, <2>1, <2>2
<1>. QED
  BY <1>1, <1>2, <1>4

\* A step that names no new file and leaves the disk alone
LEMMA NothingWritten ==
  ASSUME Inv, Running, UNCHANGED <<disk, life, mem, imm, lognum, queue, group,
                                   rd, told, stops>>,
         wr' = wr \/ wr' = Woken(wr),
         failed' \in BOOLEAN, failed => failed', scheduled' \in BOOLEAN,
         vs' = VersionSetOf(vs'), vs'.v = vs.v, vs'.man = vs.man,
         vs'.seek = vs.seek, vs'.next \in Nat, vs.next <= vs'.next,
         ~Logging, ~(Logging'), Thread', Kept',
         bg'.pc = "build" => bg'.num = vs.next /\ vs.next < vs'.next,
         \A e \in bg'.edit : e \in bg.edit,
         \A c \in bg'.c : FilesOf(c.base) \cup ToSet(c.done) \subseteq Live
  PROVE  Inv'
<1>1. /\ curfile' = curfile /\ tables' = tables /\ manifests' = manifests
      /\ logs' = logs /\ db' = db /\ recovery' = recovery /\ imm' = imm
      /\ rd' = rd /\ queue' = queue /\ group' = group
  BY DEF disk, life
<1>2. Shape /\ DInv /\ DOMAIN logs \subseteq Nat
  BY DEF Inv, Shape
<1>3. Live' \subseteq Live
  <2>1. ASSUME NEW f \in Live'
        PROVE  f \in Live
    <3>1. \/ f \in FilesOf(vs'.v)
          \/ \E r \in Readers : \E g \in rd'[r].get : f \in FilesOf(g.v)
          \/ \E c \in bg'.c : f \in FilesOf(c.base) \/ f \in ToSet(c.done)
          \/ \E e \in bg'.edit : \E a \in e.added : a[2] = f
          \/ \E c \in recovery' : f \in c.added
      BY <2>1, InLiveNext
    <3>. QED
      BY <1>1, <3>1, InLive
  <2>. QED
    BY <2>1
<1>4. Fresh'
  BY <1>1, <1>3, NewNumber DEF Fresh, Running
<1>5. DInv'
  BY <1>1, <1>2, <1>3, <1>4, FilesFrame
<1>. QED
  BY <1>1, <1>2, <1>5, BackgroundStep DEF life

LEMMA SkipWorkKeeps ==
  ASSUME Inv, SkipWork
  PROVE  Inv'
<1>1. /\ scheduled /\ bg.pc = "idle" /\ EndCall(imm, manual, vs, failed)
      /\ UNCHANGED <<disk, life, mem, imm, lognum, vs, queue, group, failed,
                     pending, rd, told, stops>>
  BY DEF SkipWork
<1>2. /\ wr' = Woken(wr) /\ scheduled' \in BOOLEAN /\ bg'.pc = "idle"
      /\ bg'.edit = {} /\ bg'.c = {} /\ Thread' /\ ~(Logging')
  BY <1>1, CallEnds
<1>3. Kept' /\ ~Logging
  BY <1>1, <1>2 DEF Kept, Logging
<1>4. Shape /\ Running
  BY <1>1, Works DEF Inv
<1>. QED
  BY <1>1, <1>2, <1>3, <1>4, NothingWritten DEF Shape

LEMMA BuildFailsKeeps ==
  ASSUME Inv, BuildFails
  PROVE  Inv'
<1>1. /\ bg.pc = "build" /\ failed' = TRUE /\ pending' = pending \ {bg.num}
      /\ EndFlush(imm, vs, TRUE)
      /\ UNCHANGED <<disk, life, mem, imm, lognum, vs, queue, group, rd, told,
                     stops>>
  BY DEF BuildFails
<1>2. Shape /\ Running /\ DInv
  BY <1>1, Works DEF Inv
<1>3. /\ wr' = Woken(wr) /\ scheduled' \in BOOLEAN /\ bg'.edit = {}
      /\ bg'.pc \in {"idle", "merge"} /\ bg'.c = bg.c /\ Thread' /\ ~(Logging')
  BY <1>1, <1>2, FlushEnds
<1>4. Kept'
  <2>1. ASSUME NEW c \in bg.c, NEW f \in ToSet(c.done)
        PROVE  f.num \in pending /\ f.num # bg.num
    <3>1. f \in Live
      BY <2>1, InLive
    <3>. QED
      BY <1>1, <1>2, <2>1, <3>1 DEF DInv, Kept, Fresh
  <2>. QED
    BY <1>1, <1>3, <2>1 DEF Kept
<1>5. ~Logging
  BY <1>1 DEF Logging
<1>6. \A c \in bg'.c : FilesOf(c.base) \cup ToSet(c.done) \subseteq Live
  BY <1>3, InLive
<1>7. vs' = VersionSetOf(vs') /\ vs'.next \in Nat /\ vs.next <= vs'.next
  BY <1>1, <1>2 DEF Shape
<1>. QED
  BY <1>1, <1>2, <1>3, <1>4, <1>5, <1>6, <1>7, NothingWritten

LEMMA MergeFailsKeeps ==
  ASSUME Inv, MergeFails
  PROVE  Inv'
<1>1. /\ bg.pc = "merge" /\ failed' = TRUE
      /\ EndCall(imm, AfterMerge(FALSE), vs, TRUE)
      /\ UNCHANGED <<disk, life, mem, imm, lognum, vs, queue, group, rd, told,
                     stops>>
  BY DEF MergeFails
<1>2. /\ wr' = Woken(wr) /\ scheduled' \in BOOLEAN /\ bg'.pc = "idle"
      /\ bg'.edit = {} /\ bg'.c = {} /\ Thread' /\ ~(Logging')
  BY <1>1, CallEnds
<1>3. Kept' /\ ~Logging
  BY <1>1, <1>2 DEF Kept, Logging
<1>4. Shape /\ Running
  BY <1>1, Works DEF Inv
<1>. QED
  BY <1>1, <1>2, <1>3, <1>4, NothingWritten DEF Shape

LEMMA StartFlushKeeps ==
  ASSUME Inv, StartFlush
  PROVE  Inv'
<1>1. /\ scheduled /\ imm # {} /\ bg.pc \in {"idle", "merge"}
      /\ bg' = [bg EXCEPT !.pc = "build", !.num = vs.next]
      /\ vs' = [vs EXCEPT !.next = @ + 1]
      /\ pending' = pending \cup {vs.next}
      /\ UNCHANGED <<disk, life, mem, imm, lognum, writing, scheduled, failed,
                     manual, rd, told, stops>>
  BY DEF StartFlush
<1>2. Shape /\ Running /\ DInv
  BY <1>1, Works DEF Inv
<1>3. /\ vs = VersionSetOf(vs) /\ bg = ThreadOf(bg) /\ Thread
      /\ vs.next \in Nat
  BY <1>2 DEF Shape, Thread
<1>. DEFINE pc == "build"
<1>9. bg' = [bg EXCEPT !.pc = pc, !.num = vs.next]
  BY <1>1
<1>. HIDE DEF pc
<1>10. bg' = [pc |-> pc, edit |-> bg.edit, c |-> bg.c, num |-> vs.next,
             manual |-> bg.manual]
  BY <1>3, <1>9, ThreadNum, Zenon
<1>4. bg' = [pc |-> "build", edit |-> bg.edit, c |-> bg.c, num |-> vs.next,
             manual |-> bg.manual]
  BY <1>10 DEF pc
<1>5. /\ vs' = VersionSetOf(vs') /\ vs'.v = vs.v /\ vs'.man = vs.man
      /\ vs'.seek = vs.seek /\ vs'.next = vs.next + 1
  BY <1>1, <1>3, NumberTaken DEF VersionSetOf
<1>6. Thread' /\ ~(Logging') /\ ~Logging
  BY <1>1, <1>3, <1>4 DEF Thread, ThreadOf, Logging
<1>7. Kept'
  BY <1>1, <1>2, <1>4 DEF DInv, Kept
<1>8. \A c \in bg'.c : FilesOf(c.base) \cup ToSet(c.done) \subseteq Live
  BY <1>4, InLive
<1>11. vs'.next \in Nat /\ vs.next < vs'.next /\ vs.next <= vs'.next
  BY <1>3, <1>5
<1>12. /\ \A e \in bg'.edit : e \in bg.edit
       /\ bg'.pc = "build" => bg'.num = vs.next /\ vs.next < vs'.next
       /\ failed' \in BOOLEAN /\ (failed => failed') /\ scheduled' \in BOOLEAN
  BY <1>1, <1>2, <1>4, <1>11 DEF Shape
<1>13. UNCHANGED <<disk, life, mem, imm, lognum, queue, group, rd, told, stops>>
       /\ wr' = wr
  BY <1>1 DEF writing
<1>. QED
  BY <1>2, <1>5, <1>6, <1>7, <1>8, <1>11, <1>12, <1>13, NothingWritten

\* While the store is open, the descriptor in use is the one CURRENT names.
LEMMA InUse ==
  ASSUME Inv, Running
  PROVE  /\ curfile = vs.man /\ curfile # 0 /\ curfile \in Nat
         /\ Descriptor(vs.man)
         /\ \A i \in 1..Len(manifests[vs.man]) :
              manifests[vs.man][i].next <= vs.next
<1>1. Descriptors /\ db # "closed"
  BY DEF Inv, DInv, Running
<1>2. curfile = vs.man /\ curfile # 0 /\ curfile \in Nat
  BY <1>1 DEF Descriptors
<1>3. vs.man \in Known
  BY <1>2 DEF Known
<1>. QED
  BY <1>1, <1>2, <1>3 DEF Descriptors
LEMMA StillInUse ==
  ASSUME Inv, Running, curfile' = curfile, db' = db, vs'.man = vs.man,
         Descriptor(vs.man)',
         \A i \in 1..Len(manifests'[vs'.man]) :
           manifests'[vs'.man][i].next <= vs'.next
  PROVE  Descriptors'
<1>1. /\ curfile' = vs'.man /\ curfile' # 0 /\ curfile' \in Nat
      /\ db' # "closed" /\ db' \notin {"recovering", "opening"}
  BY InUse DEF Running
<1>2. Known' = {vs'.man}
  BY <1>1 DEF Known
<1>3. Known' = {vs.man}
  BY <1>2
<1>. QED
  BY <1>1, <1>2, <1>3 DEF Descriptors

\* An edit whose new tables are there is added to the descriptor.
LEMMA DescriptorGrows ==
  ASSUME Inv, Running, NEW e, manifests' = Added(e), e.next = vs.next,
         curfile' = curfile, db' = db,
         vs'.next = vs.next, vs'.man = vs.man,
         \A a \in e.added : Intact(a[2])' /\ a[2].num \in Nat
                              /\ a[2].num < vs.next,
         \A i \in 1..Len(manifests[vs.man]) :
           \A f \in FilesOf(manifests[vs.man][i].v) : Intact(f)'
  PROVE  /\ Descriptors'
         /\ Len(manifests[vs.man]) \in Nat /\ Len(manifests[vs.man]) > 0
         /\ Len(manifests'[vs.man]) = Len(manifests[vs.man]) + 1
         /\ \A i \in 1..Len(manifests[vs.man]) :
              manifests'[vs.man][i] = manifests[vs.man][i]
         /\ manifests'[vs.man][Len(manifests[vs.man]) + 1] =
              AfterEdit(ReadState(manifests[vs.man]), e)
<1>. DEFINE m == vs.man
            old == manifests[m]
            new == manifests'[m]
            n == Len(old)
            last == AfterEdit(ReadState(old), e)
<1>1. /\ Descriptor(m) /\ \A i \in 1..n : old[i].next <= vs.next
      /\ vs.next \in Nat /\ vs.man \in Nat
  BY InUse DEF Inv, Shape
<1>2. m \in DOMAIN manifests /\ old \in Seq(ToSet(old)) /\ n > 0
  BY <1>1 DEF Descriptor
<1>3. n \in Nat
  BY <1>2
<1>4. DOMAIN manifests' = DOMAIN manifests /\ new = Append(old, last)
  BY <1>2 DEF Added
<1>5. /\ new \in Seq(ToSet(new)) /\ Len(new) = n + 1
      /\ \A i \in 1..n : new[i] = old[i]
      /\ new[n + 1] = last
  BY <1>2, <1>4, OneMore
<1>6. last.next = vs.next /\ last.v = ApplyEdit(old[n].v, e.deleted, e.added)
  BY DEF AfterEdit, ReadState
<1>7. \A i \in 1..(n + 1) : i \in 1..n \/ i = n + 1
  BY <1>3
<1>8. n \in 1..n
  BY <1>2, <1>3
<1>9. \A i \in 1..n : old[i].next \in Nat /\ m < old[i].next
  BY <1>1 DEF Descriptor
<1>10. \A i, j \in 1..n : i <= j =>
         /\ old[i].next <= old[j].next
         /\ \A f \in FilesOf(old[i].v) :
              Intact(f) /\ f.num \in Nat /\ f.num < old[j].next
  BY <1>1 DEF Descriptor
<1>11. m < vs.next
  BY <1>1, <1>8, <1>9
<1>12. ASSUME NEW i \in 1..n, NEW f \in FilesOf(old[i].v)
       PROVE  f.num \in Nat /\ f.num < vs.next
  <2>1. i <= i /\ f.num \in Nat /\ f.num < old[i].next /\ old[i].next \in Nat
    BY <1>9, <1>10, <1>12
  <2>2. old[i].next <= vs.next
    BY <1>1
  <2>. QED
    BY <1>1, <2>1, <2>2
<1>13. \A f \in FilesOf(last.v) :
         Intact(f)' /\ f.num \in Nat /\ f.num < vs.next
  BY <1>6, <1>8, <1>12, FilesAfterEdit
<1>. HIDE DEF last, new, old, n, m
<1>14. \A i \in 1..(n + 1) :
         /\ new[i].next \in Nat /\ m < new[i].next /\ new[i].next <= vs.next
  <2>1. ASSUME NEW i \in 1..(n + 1)
        PROVE  /\ new[i].next \in Nat /\ m < new[i].next
               /\ new[i].next <= vs.next
    BY <1>1, <1>5, <1>6, <1>7, <1>9, <1>11
  <2>. QED
    BY <2>1
<1>18. ASSUME NEW i \in 1..(n + 1), NEW j \in 1..(n + 1), i <= j
       PROVE  new[i].next <= new[j].next
  <2>1. CASE j = n + 1
    BY <1>1, <1>5, <1>6, <1>14, <1>18, <2>1
  <2>2. CASE j \in 1..n
    <3>1. i \in 1..n
      BY <1>3, <1>18, <2>2
    <3>. QED
      BY <1>5, <1>10, <1>18, <2>2, <3>1
  <2>. QED
    BY <1>7, <2>1, <2>2
<1>15. ASSUME NEW i \in 1..(n + 1), NEW j \in 1..(n + 1), i <= j,
              NEW f \in FilesOf(new[i].v)
       PROVE  Intact(f)' /\ f.num \in Nat /\ f.num < new[j].next
  <2>1. CASE i = n + 1
    <3>1. j = n + 1
      BY <1>3, <1>15, <2>1
    <3>. QED
      BY <1>5, <1>6, <1>13, <1>15, <2>1, <3>1
  <2>2. CASE i \in 1..n
    <3>1. f \in FilesOf(old[i].v)
      BY <1>5, <1>15, <2>2
    <3>2. Intact(f)' /\ f.num \in Nat /\ f.num < vs.next
      BY <1>12, <2>2, <3>1 DEF old, n, m
    <3>3. CASE j = n + 1
      BY <1>5, <1>6, <3>2, <3>3
    <3>4. CASE j \in 1..n
      <4>1. f.num < old[j].next
        BY <1>10, <1>15, <2>2, <3>1, <3>4
      <4>. QED
        BY <1>5, <3>2, <3>4, <4>1
    <3>. QED
      BY <1>7, <3>3, <3>4
  <2>. QED
    BY <1>7, <2>1, <2>2
<1>16. Descriptor(m)'
  BY <1>2, <1>3, <1>4, <1>5, <1>14, <1>15, <1>18 DEF Descriptor, new, m
<1>17. Descriptors'
  BY <1>5, <1>14, <1>16, StillInUse DEF new, m
<1>. QED
  BY <1>2, <1>3, <1>5, <1>17 DEF last, new, old, n, m

\* The background thread has written an edit to the descriptor.
LEMMA EditWritten ==
  ASSUME Inv, Running, ~Logging, NEW e, manifests' = Added(e),
         e.next = vs.next, Logging', bg'.edit = {e}, bg'.c = bg.c,
         vs'.v = vs.v, vs'.next = vs.next, vs'.man = vs.man,
         curfile' = curfile, db' = db, rd' = rd, recovery' = recovery,
         failed' = failed,
         \A a \in e.added : Intact(a[2])' /\ a[2].num \in Nat
                              /\ a[2].num < vs.next,
         \A f \in Live : Intact(f)',
         \A i \in 1..Len(manifests[vs.man]) :
           \A f \in FilesOf(manifests[vs.man][i].v) : Intact(f)',
         Kept'
  PROVE  DInv'
<1>1. /\ Descriptors'
      /\ Len(manifests[vs.man]) \in Nat /\ Len(manifests[vs.man]) > 0
      /\ Len(manifests'[vs.man]) = Len(manifests[vs.man]) + 1
      /\ \A i \in 1..Len(manifests[vs.man]) :
           manifests'[vs.man][i] = manifests[vs.man][i]
      /\ manifests'[vs.man][Len(manifests[vs.man]) + 1] =
           AfterEdit(ReadState(manifests[vs.man]), e)
  BY DescriptorGrows
<1>2. Stored /\ Current
  BY DEF Inv, DInv
<1>3. Stored'
  <2>1. ASSUME NEW f \in Live'
        PROVE  Sound(f)'
    <3>1. \/ f \in FilesOf(vs'.v)
          \/ \E r \in Readers : \E g \in rd'[r].get : f \in FilesOf(g.v)
          \/ \E c \in bg'.c : f \in FilesOf(c.base) \/ f \in ToSet(c.done)
          \/ \E x \in bg'.edit : \E a \in x.added : a[2] = f
          \/ \E c \in recovery' : f \in c.added
      BY <2>1, InLiveNext
    <3>2. CASE \E a \in e.added : a[2] = f
      BY <3>2 DEF Sound
    <3>3. CASE f \in Live
      BY <1>2, <3>3 DEF Stored, Sound
    <3>. QED
      BY <3>1, <3>2, <3>3, InLive
  <2>. QED
    BY <2>1 DEF Stored
<1>4. Fresh'
  BY DEF Fresh, Logging
<1>5. Current'
  <2>1. Len(manifests'[vs'.man]) > 1
    BY <1>1
  <2>2. ASSUME ~failed
        PROVE  /\ manifests'[vs'.man][1].v = vs'.v
               /\ Len(manifests'[vs'.man]) = 2
               /\ manifests'[vs'.man][2].v = ApplyEdit(vs'.v, e.deleted, e.added)
    <3>1. Len(manifests[vs.man]) = 1 /\ manifests[vs.man][1].v = vs.v
      BY <1>2, <2>2 DEF Current
    <3>2. 1 \in 1..1
      OBVIOUS
    <3>3. manifests'[vs.man][1] = manifests[vs.man][1]
      BY <1>1, <3>1, <3>2
    <3>4. manifests'[vs.man][2] = AfterEdit(ReadState(manifests[vs.man]), e)
      BY <1>1, <3>1
    <3>5. manifests'[vs.man][2].v = ApplyEdit(vs.v, e.deleted, e.added)
      BY <3>1, <3>4 DEF AfterEdit, ReadState
    <3>. QED
      BY <1>1, <3>1, <3>3, <3>5
  <2>. QED
    BY <2>1, <2>2 DEF Current
<1>. QED
  BY <1>1, <1>3, <1>4, <1>5 DEF DInv

\* What DeleteObsoleteFiles leaves
LEMMA Obsolete ==
  ASSUME NEW s, NEW keep, NEW mf, DeleteObsolete(s, keep, logs, tables, mf)
  PROVE  /\ DOMAIN logs' \subseteq DOMAIN logs
         /\ \A n \in DOMAIN mf :
              n >= s.man => n \in DOMAIN manifests' /\ manifests'[n] = mf[n]
         /\ \A f : /\ Intact(f)
                   /\ \/ f.num \in keep \/ f \in FilesOf(s.v)
                      \/ \E r \in Readers : \E g \in rd[r].get : f \in FilesOf(g.v)
                   => Intact(f)'
<1>. DEFINE heldBy(r) == UNION {FilesOf(g.v) : g \in rd[r].get}
            held == UNION {heldBy(r) : r \in Readers}
            live == {f.num : f \in FilesOf(s.v) \cup held} \cup keep
<1>1. /\ logs' = [n \in {x \in DOMAIN logs : x >= s.log} |-> logs[n]]
      /\ tables' = [n \in DOMAIN tables \cap live |-> tables[n]]
      /\ manifests' = [n \in {x \in DOMAIN mf : x >= s.man} |-> mf[n]]
  BY Zenon DEF DeleteObsolete
<1>2. ASSUME NEW f, Intact(f),
             \/ f.num \in keep \/ f \in FilesOf(s.v)
             \/ \E r \in Readers : \E g \in rd[r].get : f \in FilesOf(g.v)
      PROVE  Intact(f)'
  <2>1. f.num \in live
    BY <1>2
  <2>. HIDE DEF live
  <2>. QED
    BY <1>1, <1>2, <2>1 DEF Intact
<1>3. DOMAIN logs' \subseteq DOMAIN logs
  BY <1>1
<1>4. \A n \in DOMAIN mf :
        n >= s.man => n \in DOMAIN manifests' /\ manifests'[n] = mf[n]
  BY <1>1
<1>. QED
  BY <1>2, <1>3, <1>4

LEMMA SyncedStates ==
  ASSUME Inv, Running
  PROVE  /\ vs.man \in DOMAIN manifests
         /\ DOMAIN Synced = DOMAIN manifests
         /\ Synced[vs.man] = <<ReadState(manifests[vs.man])>>
<1>1. vs.man \in DOMAIN manifests
  BY InUse DEF Descriptor
<1>. QED
  BY <1>1 DEF Synced

\* LogAndApply is through: the edit is the current version, and the only
\* state of the descriptor.
LEMMA EditInstalled ==
  ASSUME Inv, Running, NEW e, Logging, bg.edit = {e},
         vs'.v = ApplyEdit(vs.v, e.deleted, e.added),
         vs'.next = vs.next, vs'.man = vs.man,
         curfile' = curfile, db' = db, rd' = rd, recovery' = recovery,
         failed' = failed,
         ~(Logging'), bg'.edit = {}, bg'.pc # "build",
         bg'.c = {} \/ (bg'.c = bg.c /\ pending' = pending),
         vs.man \in DOMAIN manifests',
         manifests'[vs.man] = <<ReadState(manifests[vs.man])>>,
         failed => tables' = tables,
         \A f \in Live' : Intact(f) => Intact(f)'
  PROVE  DInv'
<1>. DEFINE m == vs.man
            old == manifests[m]
            n == Len(old)
<1>1. /\ Stored /\ Kept /\ Current /\ vs.next \in Nat /\ vs.man \in Nat
  BY DEF Inv, DInv, Shape
<1>2. /\ Descriptor(m) /\ \A i \in 1..n : old[i].next <= vs.next
  BY InUse
<1>3. old \in Seq(ToSet(old)) /\ n > 0
  BY <1>2 DEF Descriptor
<1>4. n \in Nat /\ n \in 1..n /\ n <= n
  BY <1>3
<1>5. /\ old[n].next \in Nat /\ m < old[n].next /\ old[n].next <= vs.next
      /\ \A f \in FilesOf(old[n].v) :
           Intact(f) /\ f.num \in Nat /\ f.num < old[n].next
  BY <1>2, <1>4 DEF Descriptor
<1>6. Live' \subseteq Live
  <2>1. ASSUME NEW f \in Live'
        PROVE  f \in Live
    <3>1. \/ f \in FilesOf(vs'.v)
          \/ \E r \in Readers : \E g \in rd'[r].get : f \in FilesOf(g.v)
          \/ \E c \in bg'.c : f \in FilesOf(c.base) \/ f \in ToSet(c.done)
          \/ \E x \in bg'.edit : \E a \in x.added : a[2] = f
          \/ \E c \in recovery' : f \in c.added
      BY <2>1, InLiveNext
    <3>2. CASE f \in FilesOf(vs'.v)
      <4>1. f \in FilesOf(vs.v) \/ \E a \in e.added : a[2] = f
        BY <3>2, FilesAfterEdit
      <4>. QED
        BY <4>1, InLive
    <3>. QED
      BY <3>1, <3>2, InLive
  <2>. QED
    BY <2>1
<1>7. Stored'
  BY <1>1, <1>6 DEF Stored, Sound
<1>8. Kept'
  BY <1>1 DEF Kept
<1>9. /\ manifests'[m] \in Seq(ToSet(manifests'[m])) /\ Len(manifests'[m]) = 1
      /\ manifests'[m][1] = old[n]
  BY Alone DEF ReadState
<1>10. ~failed => old[n].v = vs'.v
  BY <1>1 DEF Current
<1>11. \A f \in FilesOf(old[n].v) : Intact(f)'
  <2>1. ASSUME NEW f \in FilesOf(old[n].v), ~failed
        PROVE  f \in Live'
    BY <1>10, <2>1, InLiveNext
  <2>2. ASSUME NEW f \in FilesOf(old[n].v)
        PROVE  Intact(f)'
    <3>1. Intact(f)
      BY <1>5, <2>2
    <3>2. CASE failed
      BY <3>1, <3>2 DEF Intact
    <3>3. CASE ~failed
      BY <2>1, <2>2, <3>1, <3>3
    <3>. QED
      BY <3>2, <3>3
  <2>. QED
    BY <2>2
<1>. HIDE DEF n, old
<1>12. \A i \in 1..Len(manifests'[m]) : i = 1
  BY <1>9
<1>13. Descriptor(m)'
  BY <1>5, <1>9, <1>11, <1>12 DEF Descriptor
<1>14. Descriptors'
  <2>1. \A i \in 1..Len(manifests'[vs'.man]) : manifests'[vs'.man][i].next <= vs'.next
    BY <1>5, <1>9, <1>12
  <2>. QED
    BY <1>13, <2>1, StillInUse
<1>15. Fresh'
  BY DEF Fresh
<1>16. Current'
  <2>1. failed' <=> failed
    OBVIOUS
  <2>. QED
    BY <1>9, <1>10, <2>1 DEF Current
<1>. QED
  BY <1>7, <1>8, <1>14, <1>15, <1>16 DEF DInv

\* The descriptor loses the edit, or keeps it: no more is written to it.
LEMMA EditLost ==
  ASSUME Inv, Running, Logging,
         vs'.v = vs.v, vs'.next = vs.next, vs'.man = vs.man,
         curfile' = curfile, db' = db, rd' = rd, recovery' = recovery,
         tables' = tables, failed' = TRUE,
         ~(Logging'), bg'.edit = {}, bg'.pc # "build",
         bg'.c = {} \/ (bg'.c = bg.c /\ pending' = pending),
         \/ manifests' = manifests
         \/ manifests' = [manifests EXCEPT ![vs.man] = SubSeq(@, 1, Len(@) - 1)]
  PROVE  DInv'
<1>. DEFINE m == vs.man
            old == manifests[m]
            new == manifests'[m]
            n == Len(old)
<1>1. /\ Stored /\ Kept /\ Current /\ vs.next \in Nat /\ vs.man \in Nat
  BY DEF Inv, DInv, Shape
<1>2. /\ Descriptor(m) /\ \A i \in 1..n : old[i].next <= vs.next
  BY InUse
<1>3. m \in DOMAIN manifests /\ old \in Seq(ToSet(old)) /\ n > 1
  BY <1>1, <1>2 DEF Descriptor, Current
<1>4. n \in Nat
  BY <1>3
<1>5. Live' \subseteq Live
  <2>1. ASSUME NEW f \in Live'
        PROVE  f \in Live
    <3>1. \/ f \in FilesOf(vs'.v)
          \/ \E r \in Readers : \E g \in rd'[r].get : f \in FilesOf(g.v)
          \/ \E c \in bg'.c : f \in FilesOf(c.base) \/ f \in ToSet(c.done)
          \/ \E x \in bg'.edit : \E a \in x.added : a[2] = f
          \/ \E c \in recovery' : f \in c.added
      BY <2>1, InLiveNext
    <3>. QED
      BY <3>1, InLive
  <2>. QED
    BY <2>1
<1>6. Stored'
  BY <1>1, <1>5 DEF Stored, Sound, Intact
<1>7. Kept'
  BY <1>1 DEF Kept
<1>8. /\ m \in DOMAIN manifests' /\ new \in Seq(ToSet(new)) /\ Len(new) > 0
      /\ Len(new) \in Nat /\ Len(new) <= n
      /\ \A i \in 1..Len(new) : new[i] = old[i]
  <2>1. CASE manifests' = manifests
    BY <1>3, <1>4, <2>1
  <2>2. CASE manifests' = [manifests EXCEPT ![m] = SubSeq(@, 1, Len(@) - 1)]
    <3>1. new = SubSeq(old, 1, n - 1) /\ DOMAIN manifests' = DOMAIN manifests
      BY <1>3, <2>2
    <3>2. n - 1 \in 0..n /\ n - 1 > 0 /\ n - 1 <= n
      BY <1>3, <1>4
    <3>. HIDE DEF new, old, n
    <3>3. /\ SubSeq(old, 1, n - 1) \in Seq(ToSet(SubSeq(old, 1, n - 1)))
          /\ Len(SubSeq(old, 1, n - 1)) = n - 1
          /\ \A i \in 1..(n - 1) : SubSeq(old, 1, n - 1)[i] = old[i]
      BY <1>3, <3>2, FirstOnes DEF n
    <3>. QED
      BY <1>3, <3>1, <3>2, <3>3
  <2>. QED
    BY <2>1, <2>2
<1>9. \A i \in 1..n :
        old[i].next \in Nat /\ m < old[i].next /\ old[i].next <= vs.next
  BY <1>2 DEF Descriptor
<1>10. \A i, j \in 1..n : i <= j =>
         /\ old[i].next <= old[j].next
         /\ \A f \in FilesOf(old[i].v) :
              Intact(f) /\ f.num \in Nat /\ f.num < old[j].next
  BY <1>2 DEF Descriptor
<1>. HIDE DEF n, old, new
<1>11. \A i \in 1..Len(new) : i \in 1..n
  BY <1>4, <1>8
<1>12. Descriptor(m)'
  <2>1. \A f : Intact(f) => Intact(f)'
    BY DEF Intact
  <2>2. \A i \in 1..Len(new) : new[i].next \in Nat /\ m < new[i].next
    BY <1>8, <1>9, <1>11
  <2>3. \A i, j \in 1..Len(new) : i <= j =>
          /\ new[i].next <= new[j].next
          /\ \A f \in FilesOf(new[i].v) :
               Intact(f)' /\ f.num \in Nat /\ f.num < new[j].next
    BY <1>8, <1>10, <1>11, <2>1
  <2>. QED
    BY <1>8, <2>2, <2>3 DEF Descriptor, new
<1>13. Descriptors'
  <2>1. \A i \in 1..Len(manifests'[vs'.man]) : manifests'[vs'.man][i].next <= vs'.next
    BY <1>8, <1>9, <1>11 DEF new
  <2>. QED
    BY <1>12, <2>1, StillInUse
<1>14. Fresh' /\ Current'
  BY DEF Fresh, Current
<1>. QED
  BY <1>6, <1>7, <1>13, <1>14 DEF DInv

\* A compaction takes files of the version it is made for.
LEMMA Overlapping ==
  ASSUME NEW v, NEW l \in Nat, NEW lo, NEW hi
  PROVE  GetOverlappingInputs(v, l, lo, hi) \subseteq v[l]
<1>. DEFINE Complete(F) ==
              /\ Meeting(v[0], lo, hi) \subseteq F
              /\ F # {} =>
                   Meeting(v[0], Min({lo, Lo(F)}), Max({hi, Hi(F)})) \subseteq F
<1>1. GetOverlappingInputs(v, l, lo, hi) =
        IF l > 0 THEN Meeting(v[l], lo, hi)
        ELSE {f \in v[0] : \A F \in SUBSET v[0] : Complete(F) => f \in F}
  BY Zenon DEF GetOverlappingInputs
<1>. HIDE DEF Complete
<1>2. Meeting(v[l], lo, hi) \subseteq v[l]
  BY DEF Meeting
<1>. QED
  BY <1>1, <1>2
LEMMA CompactionFiles ==
  ASSUME NEW v, NEW l, NEW in0, NEW c \in Compactions(v, l, in0)
  PROVE  c.base = v /\ (c.in0 = in0 \/ \E A : c.in0 = Wide(v, A, l))
<1>. DEFINE One(in1, more0, more1) ==
              IF Grows(in0, in1, more0, more1) THEN CompactionOf(v, l, more0, more1)
              ELSE CompactionOf(v, l, in0, in1)
            Some0(in1, more0) ==
              {One(in1, more0, more1) : more1 \in {Wide(v, more0, l + 1)}}
            Some1(in1) ==
              UNION {Some0(in1, more0) : more0 \in {Wide(v, in0 \cup in1, l)}}
<1>1. c \in UNION {Some1(in1) : in1 \in {Wide(v, in0, l + 1)}}
  BY Zenon DEF Compactions
<1>. HIDE DEF One
<1>7. PICK in1 : c \in Some1(in1)
  <2>. HIDE DEF Some1
  <2>. QED
    BY <1>1
<1>8. PICK more0 : more0 = Wide(v, in0 \cup in1, l) /\ c \in Some0(in1, more0)
  <2>. HIDE DEF Some0
  <2>. QED
    BY <1>7
<1>9. PICK more1 : c = One(in1, more0, more1)
  BY <1>8
<1>2. \/ c = CompactionOf(v, l, more0, more1) \/ c = CompactionOf(v, l, in0, in1)
  BY <1>9 DEF One
<1>3. \A a, b : CompactionOf(v, l, a, b).base = v /\ CompactionOf(v, l, a, b).in0 = a
  BY DEF CompactionOf
<1>4. c.base = v /\ (c.in0 = more0 \/ c.in0 = in0)
  BY <1>2, <1>3, Zenon
<1>. QED
  BY <1>4, <1>8
LEMMA CompactionTakes ==
  ASSUME NEW v, NEW l \in Levels, NEW in0, in0 \subseteq v[l],
         NEW c \in Compactions(v, l, in0)
  PROVE  c.base = v /\ c.in0 \subseteq FilesOf(v)
<1>1. c.base = v /\ (c.in0 = in0 \/ \E A : c.in0 = Wide(v, A, l))
  BY CompactionFiles
<1>2. l \in Nat
  BY LevelZero
<1>3. \A A : Wide(v, A, l) \subseteq v[l]
  BY <1>2, Overlapping, Zenon DEF Wide
<1>4. v[l] \subseteq FilesOf(v)
  BY DEF FilesOf
<1>. QED
  BY <1>1, <1>3, <1>4
LEMMA PickTakes ==
  ASSUME NEW v, NEW after, NEW seek,
         \A p \in seek : p.level \in Levels /\ p.file \in v[p.level],
         NEW c \in PickCompaction(v, after, seek)
  PROVE  c.base = v /\ c.in0 \subseteq FilesOf(v)
<1>1. \E p \in Picked(v, after, seek) :
        c \in Compactions(v, p.level,
                IF p.level > 0 THEN {p.file}
                ELSE GetOverlappingInputs(v, 0, Smallest(p.file).k,
                                          Largest(p.file).k))
  BY Zenon DEF PickCompaction
<1>2. PICK p \in Picked(v, after, seek) :
        c \in Compactions(v, p.level,
                IF p.level > 0 THEN {p.file}
                ELSE GetOverlappingInputs(v, 0, Smallest(p.file).k,
                                          Largest(p.file).k))
  BY <1>1, Zenon
<1>3. p.level \in Levels /\ p.file \in v[p.level]
  <2>1. CASE p \in seek
    BY <2>1
  <2>2. CASE \E l \in CompactionLevel(v) : \E f \in Chosen(v[l], after[l]) :
               p = [level |-> l, file |-> f]
    <3>1. PICK l \in CompactionLevel(v) : \E f \in Chosen(v[l], after[l]) :
               p = [level |-> l, file |-> f]
      BY <2>2
    <3>2. PICK f \in Chosen(v[l], after[l]) : p = [level |-> l, file |-> f]
      BY <3>1
    <3>3. l \in 0 .. NumLevels - 2
      BY <3>1, Zenon DEF CompactionLevel
    <3>4. l \in Levels
      BY <3>3, LevelsAssumption DEF Levels
    <3>5. f \in v[l]
      BY <3>2 DEF Chosen
    <3>. QED
      BY <3>2, <3>4, <3>5
  <2>3. \/ p \in seek
        \/ \E l \in CompactionLevel(v) : \E f \in Chosen(v[l], after[l]) :
             p = [level |-> l, file |-> f]
    BY <1>2, Zenon DEF Picked
  <2>. QED
    BY <2>1, <2>2, <2>3
<1>. DEFINE in0 == IF p.level > 0 THEN {p.file}
                   ELSE GetOverlappingInputs(v, 0, Smallest(p.file).k,
                                             Largest(p.file).k)
<1>4. in0 \subseteq v[p.level]
  <2>1. p.level \in Nat
    BY <1>3, LevelZero
  <2>2. CASE p.level > 0
    BY <1>3, <2>2
  <2>3. CASE ~(p.level > 0)
    <3>1. p.level = 0
      BY <2>1, <2>3
    <3>2. GetOverlappingInputs(v, 0, Smallest(p.file).k, Largest(p.file).k)
            \subseteq v[0]
      BY Overlapping
    <3>. QED
      BY <2>3, <3>1, <3>2
  <2>. QED
    BY <2>2, <2>3
<1>5. c \in Compactions(v, p.level, in0)
  BY <1>2
<1>. HIDE DEF in0
<1>. QED
  BY <1>3, <1>4, <1>5, CompactionTakes

\* The merge of a compaction has its fields, and no output yet.
LEMMA MergeBegins ==
  ASSUME NEW c
  PROVE  /\ Begun(c) = MergeOf(Begun(c)) /\ Begun(c).base = c.base
         /\ Begun(c).done = <<>> /\ ToSet(Begun(c).done) = {}
         /\ Begun(c).done \in Seq(ToSet(Begun(c).done))
<1>. DEFINE todo == Outputs(c, Oldest)
<1>1. Begun(c) = [level |-> c.level, in0 |-> c.in0, in1 |-> c.in1,
                  base |-> c.base, last |-> c.last, end |-> c.end,
                  done |-> <<>>, todo |-> todo]
  BY Zenon DEF Begun
<1>. HIDE DEF todo
<1>2. ToSet(<<>>) = {}
  BY DEF ToSet
<1>. QED
  BY <1>1, <1>2 DEF MergeOf

LEMMA MergeStarts ==
  ASSUME Inv, Running, bg.pc = "idle", NEW c, c.base = vs.v, NEW ismanual,
         bg' = [pc |-> "merge", edit |-> bg.edit, c |-> {Begun(c)},
                num |-> bg.num, manual |-> ismanual],
         vs' = Pointed(c),
         UNCHANGED <<disk, life, mem, imm, lognum, writing, scheduled, failed,
                     pending, rd, told, stops>>
  PROVE  Inv'
<1>1. Shape /\ vs = VersionSetOf(vs) /\ vs.next \in Nat
  BY DEF Inv, Shape
<1>2. /\ vs' = VersionSetOf(vs') /\ vs'.v = vs.v /\ vs'.next = vs.next
      /\ vs'.man = vs.man /\ vs'.seek = vs.seek
  <2>1. vs' = [vs EXCEPT !.after[c.level] = {c.last}]
    BY Zenon DEF Pointed
  <2>. QED
    BY <1>1, <2>1, PointerMoved
<1>. DEFINE b == Begun(c)
<1>3. /\ b = MergeOf(b) /\ b.base = vs.v /\ ToSet(b.done) = {}
      /\ b.done \in Seq(ToSet(b.done))
  BY MergeBegins
<1>. HIDE DEF b
<1>4. /\ bg'.pc = "merge" /\ bg'.edit = bg.edit /\ bg'.c = {b}
      /\ bg' = ThreadOf(bg')
  BY DEF ThreadOf, b
<1>5. Thread' /\ ~Logging /\ ~(Logging') /\ Kept'
  BY <1>3, <1>4 DEF Thread, Logging, Kept
<1>6. \A x \in bg'.c : FilesOf(x.base) \cup ToSet(x.done) \subseteq Live
  BY <1>3, <1>4, InLive
<1>7. vs'.next \in Nat /\ vs.next <= vs'.next
  BY <1>1, <1>2
<1>8. /\ scheduled' \in BOOLEAN /\ failed' \in BOOLEAN /\ (failed => failed')
      /\ wr' = wr /\ queue' = queue /\ group' = group
      /\ \A e \in bg'.edit : e \in bg.edit
      /\ bg'.pc = "build" => bg'.num = vs.next /\ vs.next < vs'.next
      /\ UNCHANGED <<disk, life, mem, imm, lognum, queue, group, rd, told, stops>>
  BY <1>1, <1>4 DEF Shape, writing
<1>. QED
  BY <1>2, <1>5, <1>6, <1>7, <1>8, NothingWritten

LEMMA StartMergeKeeps ==
  ASSUME Inv, StartMerge
  PROVE  Inv'
<1>1. /\ scheduled /\ bg.pc = "idle"
      /\ UNCHANGED <<disk, life, mem, imm, lognum, writing, scheduled, failed,
                     pending, manual, rd, told, stops>>
  BY DEF StartMerge, CanCompact
<1>2. PICK c \in PickCompaction(vs.v, vs.after, vs.seek) :
        /\ bg' = [bg EXCEPT !.pc = "merge", !.c = {Begun(c)}]
        /\ vs' = Pointed(c)
  BY DEF StartMerge
<1>3. Running /\ Shape /\ bg = ThreadOf(bg)
  BY <1>1, Works DEF Inv, Shape, Thread
<1>4. c.base = vs.v
  BY <1>3, PickTakes DEF Shape
<1>. DEFINE pc == "merge"
<1>5. bg' = [bg EXCEPT !.pc = pc, !.c = {Begun(c)}]
  BY <1>2
<1>. HIDE DEF pc
<1>6. bg' = [pc |-> pc, edit |-> bg.edit, c |-> {Begun(c)}, num |-> bg.num,
             manual |-> bg.manual]
  BY <1>3, <1>5, ThreadMerge, Zenon
<1>7. bg' = [pc |-> "merge", edit |-> bg.edit, c |-> {Begun(c)},
             num |-> bg.num, manual |-> bg.manual]
  BY <1>6 DEF pc
<1>8. UNCHANGED <<disk, life, mem, imm, lognum, writing, scheduled, failed,
                  pending, rd, told, stops>>
  BY <1>1
<1>. QED
  BY <1>1, <1>2, <1>3, <1>4, <1>7, <1>8, MergeStarts

LEMMA StartManualKeeps ==
  ASSUME Inv, StartManual
  PROVE  Inv'
<1>1. /\ scheduled /\ bg.pc = "idle"
      /\ UNCHANGED <<disk, life, mem, imm, lognum, queue, group, failed,
                     pending, rd, told, stops>>
  BY DEF StartManual, CanCompact
<1>3. Running /\ Shape /\ bg = ThreadOf(bg)
  BY <1>1, Works DEF Inv, Shape, Thread
<1>2. PICK m \in manual.range :
       \E in0 \in {ManualInputs(vs.v, m.level, m.lo, m.hi)} :
         IF in0 = {}
           THEN /\ EndCall(imm, [manual EXCEPT !.done = TRUE, !.armed = FALSE],
                           vs, failed)
                /\ UNCHANGED vs
           ELSE /\ \E c \in Compactions(vs.v, m.level, in0) :
                     /\ bg' = [bg EXCEPT !.pc = "merge", !.manual = TRUE,
                                         !.c = {Begun(c)}]
                     /\ vs' = Pointed(c)
                /\ UNCHANGED <<scheduled, wr, manual>>
  BY Zenon DEF StartManual
<1>4. CASE \E mn : EndCall(imm, mn, vs, failed) /\ UNCHANGED vs
  <2>1. PICK mn : EndCall(imm, mn, vs, failed) /\ UNCHANGED vs
    BY <1>4
  <2>2. /\ wr' = Woken(wr) /\ scheduled' \in BOOLEAN /\ bg'.pc = "idle"
        /\ bg'.edit = {} /\ bg'.c = {} /\ Thread' /\ ~(Logging')
    BY <2>1, CallEnds
  <2>3. Kept' /\ ~Logging
    BY <1>1, <2>2 DEF Kept, Logging
  <2>. QED
    BY <1>1, <1>3, <2>1, <2>2, <2>3, NothingWritten DEF Shape
<1>5. CASE \E in0 : \E c \in Compactions(vs.v, m.level, in0) :
             /\ bg' = [bg EXCEPT !.pc = "merge", !.manual = TRUE,
                                 !.c = {Begun(c)}]
             /\ vs' = Pointed(c)
             /\ UNCHANGED <<scheduled, wr, manual>>
  <2>1. PICK in0 : \E c \in Compactions(vs.v, m.level, in0) :
             /\ bg' = [bg EXCEPT !.pc = "merge", !.manual = TRUE,
                                 !.c = {Begun(c)}]
             /\ vs' = Pointed(c)
             /\ UNCHANGED <<scheduled, wr, manual>>
    BY <1>5
  <2>2. PICK c \in Compactions(vs.v, m.level, in0) :
             /\ bg' = [bg EXCEPT !.pc = "merge", !.manual = TRUE,
                                 !.c = {Begun(c)}]
             /\ vs' = Pointed(c)
             /\ UNCHANGED <<scheduled, wr, manual>>
    BY <2>1
  <2>3. c.base = vs.v
    BY <2>2, CompactionFiles
  <2>. DEFINE pc == "merge"
              yes == TRUE
  <2>4. bg' = [bg EXCEPT !.pc = pc, !.manual = yes, !.c = {Begun(c)}]
    BY <2>2
  <2>. HIDE DEF pc, yes
  <2>5. bg' = [pc |-> pc, edit |-> bg.edit, c |-> {Begun(c)}, num |-> bg.num,
               manual |-> yes]
    BY <1>3, <2>4, ThreadManual, Zenon
  <2>6. bg' = [pc |-> "merge", edit |-> bg.edit, c |-> {Begun(c)},
               num |-> bg.num, manual |-> yes]
    BY <2>5 DEF pc
  <2>7. UNCHANGED <<disk, life, mem, imm, lognum, writing, scheduled, failed,
                    pending, rd, told, stops>>
    BY <1>1, <2>2 DEF writing
  <2>. QED
    BY <1>1, <1>3, <2>2, <2>3, <2>6, <2>7, MergeStarts
<1>. QED
  BY <1>2, <1>4, <1>5, Zenon

LEMMA InstallSets ==
  ASSUME Shape, NEW e, vs' = Install(e)
  PROVE  /\ vs' = VersionSetOf(vs') /\ vs'.v = ApplyEdit(vs.v, e.deleted, e.added)
         /\ vs'.next = vs.next /\ vs'.man = vs.man /\ vs'.seek = {}
<1>. DEFINE none == {}
            v == ApplyEdit(vs.v, e.deleted, e.added)
<1>1. vs' = [vs EXCEPT !.v = v, !.log = e.log, !.seek = none]
  BY Zenon DEF Install
<1>. HIDE DEF none, v
<1>2. vs = VersionSetOf(vs)
  BY DEF Shape
<1>3. vs' = [v |-> v, log |-> e.log, next |-> vs.next, last |-> vs.last,
             man |-> vs.man, after |-> vs.after, seek |-> none]
  BY <1>1, <1>2, VersionInstalled, Zenon
<1>. QED
  BY <1>3 DEF VersionSetOf, v, none

\* The edit of the background thread while it is logged
LEMMA EditOf ==
  ASSUME Inv, Logging
  PROVE  bg.edit = {Some(bg.edit)} /\ Running /\ Shape
<1>1. \E e : bg.edit = {e}
  BY DEF Inv, Shape, Thread
<1>2. Running
  BY Works DEF Logging
<1>. QED
  BY <1>1, <1>2, SomeOfOne DEF Inv

LEMMA FinishMoveKeeps ==
  ASSUME Inv, FinishMove
  PROVE  Inv'
<1>. DEFINE e == Some(bg.edit)
<1>1. /\ bg.pc = "movelog" /\ vs' = Install(e) /\ manifests' = Synced
      /\ EndCall(imm, manual, vs', failed)
      /\ UNCHANGED <<logs, tables, curfile, life, mem, imm, lognum, queue, group,
                     failed, pending, rd, told, stops>>
  BY DEF FinishMove
<1>2. Logging
  BY <1>1 DEF Logging
<1>3. bg.edit = {e} /\ Running /\ Shape
  BY <1>2, EditOf
<1>. HIDE DEF e
<1>4. /\ vs' = VersionSetOf(vs') /\ vs'.v = ApplyEdit(vs.v, e.deleted, e.added)
      /\ vs'.next = vs.next /\ vs'.man = vs.man /\ vs'.seek = {}
  BY <1>1, <1>3, InstallSets
<1>5. /\ wr' = Woken(wr) /\ scheduled' \in BOOLEAN
      /\ bg'.pc = "idle" /\ bg'.edit = {} /\ bg'.c = {}
      /\ Thread' /\ ~(Logging')
  BY <1>1, CallEnds
<1>6. /\ vs.man \in DOMAIN manifests'
      /\ manifests'[vs.man] = <<ReadState(manifests[vs.man])>>
  BY <1>1, <1>3, SyncedStates
<1>7. /\ curfile' = curfile /\ db' = db /\ rd' = rd /\ recovery' = recovery
      /\ failed' = failed /\ tables' = tables /\ logs' = logs /\ imm' = imm
      /\ \A f \in Live' : Intact(f) => Intact(f)'
  BY <1>1 DEF life, Intact
<1>8. DInv'
  BY <1>2, <1>3, <1>4, <1>5, <1>6, <1>7, EditInstalled
<1>9. vs'.next \in Nat /\ DOMAIN logs' \subseteq Nat /\ failed' \in BOOLEAN
  BY <1>3, <1>4, <1>7 DEF Shape
<1>. QED
  BY <1>1, <1>3, <1>4, <1>5, <1>7, <1>8, <1>9, BackgroundStep

\* The end of a flush or a merge: what is obsolete is deleted, unless an error
\* is known.
LEMMA FilesCleaned ==
  ASSUME Inv, Running, NEW e, Logging, bg.edit = {e}, vs' = Install(e),
         NEW keep,
         IF failed THEN manifests' = Synced /\ UNCHANGED <<logs, tables>>
         ELSE DeleteObsolete(vs', keep, logs, tables, Synced),
         curfile' = curfile, db' = db, rd' = rd, recovery' = recovery,
         failed' = failed,
         ~(Logging'), bg'.edit = {}, bg'.pc # "build",
         \/ bg'.c = {}
         \/ /\ bg'.c = bg.c /\ pending' = pending
            /\ keep = pending \cup UNION {BaseOf(c) : c \in bg.c}
  PROVE  DInv' /\ DOMAIN logs' \subseteq Nat
<1>1. Shape /\ Kept /\ Recovering /\ DOMAIN logs \subseteq Nat /\ vs.man \in Nat
  BY DEF Inv, DInv, Shape
<1>2. /\ vs'.v = ApplyEdit(vs.v, e.deleted, e.added)
      /\ vs'.next = vs.next /\ vs'.man = vs.man
  BY <1>1, InstallSets
<1>3. /\ vs.man \in DOMAIN manifests /\ DOMAIN Synced = DOMAIN manifests
      /\ Synced[vs.man] = <<ReadState(manifests[vs.man])>>
  BY SyncedStates
<1>. HIDE DEF Synced
<1>4. CASE failed
  <2>1. manifests' = Synced /\ logs' = logs /\ tables' = tables
    BY <1>4
  <2>2. \A f \in Live' : Intact(f) => Intact(f)'
    BY <2>1 DEF Intact
  <2>3. DInv'
    BY <1>2, <1>3, <2>1, <2>2, EditInstalled
  <2>. QED
    BY <1>1, <2>1, <2>3
<1>5. CASE ~failed
  <2>1. DeleteObsolete(vs', keep, logs, tables, Synced)
    BY <1>5
  <2>2. /\ DOMAIN logs' \subseteq DOMAIN logs
        /\ \A n \in DOMAIN Synced :
             n >= vs'.man => n \in DOMAIN manifests' /\ manifests'[n] = Synced[n]
        /\ \A f : /\ Intact(f)
                  /\ \/ f.num \in keep \/ f \in FilesOf(vs'.v)
                     \/ \E r \in Readers : \E g \in rd[r].get : f \in FilesOf(g.v)
                  => Intact(f)'
    BY <2>1, Obsolete
  <2>3. vs.man >= vs'.man
    BY <1>1, <1>2
  <2>4. /\ vs.man \in DOMAIN manifests'
        /\ manifests'[vs.man] = <<ReadState(manifests[vs.man])>>
    BY <1>3, <2>2, <2>3
  <2>5. ASSUME NEW f \in Live', Intact(f)
        PROVE  Intact(f)'
    <3>1. \/ f \in FilesOf(vs'.v)
          \/ \E r \in Readers : \E g \in rd'[r].get : f \in FilesOf(g.v)
          \/ \E c \in bg'.c : f \in FilesOf(c.base) \/ f \in ToSet(c.done)
          \/ \E x \in bg'.edit : \E a \in x.added : a[2] = f
          \/ \E c \in recovery' : f \in c.added
      BY <2>5, InLiveNext
    <3>2. recovery' = {}
      BY <1>1 DEF Recovering, Running
    <3>3. CASE \E c \in bg'.c : f \in FilesOf(c.base) \/ f \in ToSet(c.done)
      <4>1. PICK c \in bg'.c : f \in FilesOf(c.base) \/ f \in ToSet(c.done)
        BY <3>3
      <4>2. c \in bg.c /\ keep = pending \cup UNION {BaseOf(x) : x \in bg.c}
        BY <4>1
      <4>3. f.num \in keep
        <5>1. CASE f \in FilesOf(c.base)
          <6>1. f.num \in BaseOf(c)
            BY <5>1 DEF BaseOf
          <6>. HIDE DEF BaseOf
          <6>. QED
            BY <4>2, <6>1
        <5>2. CASE f \in ToSet(c.done)
          <6>1. f.num \in pending
            BY <1>1, <4>2, <5>2 DEF Kept
          <6>. QED
            BY <4>2, <6>1
        <5>. QED
          BY <4>1, <5>1, <5>2
      <4>. QED
        BY <2>2, <2>5, <4>3
    <3>. QED
      BY <2>2, <2>5, <3>1, <3>2, <3>3
  <2>6. \A f \in Live' : Intact(f) => Intact(f)'
    BY <2>5
  <2>7. DInv'
    BY <1>2, <1>5, <2>4, <2>6, EditInstalled
  <2>. QED
    BY <1>1, <2>2, <2>7
<1>. QED
  BY <1>4, <1>5

LEMMA FinishFlushKeeps ==
  ASSUME Inv, FinishFlush
  PROVE  Inv'
<1>. DEFINE e == Some(bg.edit)
            keep == pending \cup UNION {BaseOf(c) : c \in bg.c}
<1>1. /\ bg.pc = "flushlog" /\ vs' = Install(e) /\ imm' = {}
      /\ IF failed THEN manifests' = Synced /\ UNCHANGED <<logs, tables>>
         ELSE DeleteObsolete(vs', keep, logs, tables, Synced)
      /\ EndFlush(imm', vs', failed)
      /\ UNCHANGED <<curfile, life, mem, lognum, queue, group, failed, pending,
                     rd, told, stops>>
  BY DEF FinishFlush
<1>2. Logging
  BY <1>1 DEF Logging
<1>3. bg.edit = {e} /\ Running /\ Shape
  BY <1>2, EditOf
<1>. HIDE DEF e
<1>4. /\ vs' = VersionSetOf(vs') /\ vs'.next = vs.next /\ vs'.man = vs.man
      /\ vs'.seek = {}
  BY <1>1, <1>3, InstallSets
<1>5. /\ wr' = Woken(wr) /\ scheduled' \in BOOLEAN
      /\ bg'.pc \in {"idle", "merge"} /\ bg'.edit = {} /\ bg'.c = bg.c
      /\ Thread' /\ ~(Logging')
  BY <1>1, <1>3, FlushEnds
<1>6. /\ curfile' = curfile /\ db' = db /\ rd' = rd /\ recovery' = recovery
      /\ failed' = failed /\ pending' = pending
  BY <1>1 DEF life
<1>7. PICK kept : kept = keep
  OBVIOUS
<1>8. IF failed THEN manifests' = Synced /\ UNCHANGED <<logs, tables>>
      ELSE DeleteObsolete(vs', kept, logs, tables, Synced)
  BY <1>1, <1>7
<1>9. DInv' /\ DOMAIN logs' \subseteq Nat
  BY <1>1, <1>2, <1>3, <1>5, <1>6, <1>7, <1>8, FilesCleaned
<1>10. vs'.next \in Nat /\ failed' \in BOOLEAN
  BY <1>3, <1>4, <1>6 DEF Shape
<1>. QED
  BY <1>1, <1>3, <1>4, <1>5, <1>6, <1>9, <1>10, BackgroundStep DEF life

LEMMA FinishMergeKeeps ==
  ASSUME Inv, FinishMerge
  PROVE  Inv'
<1>. DEFINE e == Some(bg.edit)
<1>1. /\ bg.pc = "mergelog" /\ vs' = Install(e)
      /\ IF failed THEN manifests' = Synced /\ UNCHANGED <<logs, tables>>
         ELSE DeleteObsolete(vs', {}, logs, tables, Synced)
      /\ EndCall(imm, AfterMerge(TRUE), vs', failed)
      /\ UNCHANGED <<curfile, life, mem, imm, lognum, queue, group, failed, rd,
                     told, stops>>
  BY DEF FinishMerge
<1>2. Logging
  BY <1>1 DEF Logging
<1>3. bg.edit = {e} /\ Running /\ Shape
  BY <1>2, EditOf
<1>. HIDE DEF e
<1>4. /\ vs' = VersionSetOf(vs') /\ vs'.next = vs.next /\ vs'.man = vs.man
      /\ vs'.seek = {}
  BY <1>1, <1>3, InstallSets
<1>5. /\ wr' = Woken(wr) /\ scheduled' \in BOOLEAN
      /\ bg'.pc = "idle" /\ bg'.edit = {} /\ bg'.c = {}
      /\ Thread' /\ ~(Logging')
  BY <1>1, CallEnds
<1>6. /\ curfile' = curfile /\ db' = db /\ rd' = rd /\ recovery' = recovery
      /\ failed' = failed
  BY <1>1 DEF life
<1>7. PICK kept : kept = {}
  OBVIOUS
<1>8. IF failed THEN manifests' = Synced /\ UNCHANGED <<logs, tables>>
      ELSE DeleteObsolete(vs', kept, logs, tables, Synced)
  BY <1>1, <1>7
<1>9. DInv' /\ DOMAIN logs' \subseteq Nat
  BY <1>1, <1>2, <1>3, <1>5, <1>6, <1>8, FilesCleaned
<1>10. vs'.next \in Nat /\ failed' \in BOOLEAN
  BY <1>3, <1>4, <1>6 DEF Shape
<1>. QED
  BY <1>1, <1>3, <1>4, <1>5, <1>6, <1>9, <1>10, BackgroundStep DEF life

LEMMA ManifestFailsKeeps ==
  ASSUME Inv, ManifestFails
  PROVE  Inv'
<1>1. /\ Logging
      /\ \/ manifests' = manifests
         \/ manifests' = [manifests EXCEPT ![vs.man] = SubSeq(@, 1, Len(@) - 1)]
      /\ failed' = TRUE
      /\ UNCHANGED <<logs, tables, curfile, life, mem, imm, lognum, vs, queue,
                     group, rd, told, stops>>
  BY DEF ManifestFails, EditFails, Logging
<1>2. /\ wr' = Woken(wr) /\ scheduled' \in BOOLEAN
      /\ bg'.pc \in {"idle", "merge"} /\ bg'.edit = {}
      /\ bg'.c = {} \/ (bg'.c = bg.c /\ pending' = pending)
      /\ Thread' /\ ~(Logging')
  <2>1. CASE EndFlush(imm, vs, TRUE) /\ UNCHANGED pending
    BY <2>1, FlushEnds DEF Inv
  <2>2. CASE \E mn : EndCall(imm, mn, vs, TRUE)
    BY <2>2, CallEnds
  <2>3. \/ EndFlush(imm, vs, TRUE) /\ UNCHANGED pending
        \/ \E mn : EndCall(imm, mn, vs, TRUE)
    BY Zenon DEF ManifestFails
  <2>. QED
    BY <2>1, <2>2, <2>3
<1>3. Running /\ Shape
  BY <1>1, EditOf
<1>4. /\ vs' = VersionSetOf(vs') /\ vs'.v = vs.v /\ vs'.next = vs.next
      /\ vs'.man = vs.man /\ vs'.seek = vs.seek /\ vs'.next \in Nat
  BY <1>1, <1>3 DEF Shape
<1>5. /\ curfile' = curfile /\ db' = db /\ rd' = rd /\ recovery' = recovery
      /\ tables' = tables /\ logs' = logs /\ imm' = imm
      /\ queue' = queue /\ group' = group
  BY <1>1 DEF life
<1>6. DInv'
  BY <1>1, <1>2, <1>3, <1>4, <1>5, EditLost
<1>7. DOMAIN logs' \subseteq Nat /\ failed' \in BOOLEAN
  BY <1>1, <1>3 DEF Shape
<1>. QED
  BY <1>2, <1>3, <1>4, <1>5, <1>6, <1>7, BackgroundStep DEF life

\* The fields of an edit
LEMMA EditSets ==
  ASSUME NEW deleted, NEW added, NEW log, NEW next, NEW after,
         NEW e, e = Edit(deleted, added, log, next, after)
  PROVE  e.next = next /\ e.added = added
  BY DEF Edit

LEMMA StartMoveKeeps ==
  ASSUME Inv, StartMove
  PROVE  Inv'
<1>1. /\ scheduled /\ bg.pc = "idle"
      /\ UNCHANGED <<logs, tables, curfile, life, mem, imm, lognum, writing,
                     scheduled, failed, pending, manual, rd, told, stops>>
  BY DEF StartMove, CanCompact
<1>2. PICK c \in PickCompaction(vs.v, vs.after, vs.seek) :
        \E e : /\ e = Edit(InputDeletions(c), {<<c.level + 1, f>> : f \in c.in0},
                           vs.log, vs.next, {<<c.level, c.last>>})
               /\ bg' = [bg EXCEPT !.pc = "movelog", !.edit = {e}]
               /\ manifests' = Added(e)
               /\ vs' = Pointed(c)
  BY DEF StartMove
<1>3. PICK e : /\ e = Edit(InputDeletions(c), {<<c.level + 1, f>> : f \in c.in0},
                           vs.log, vs.next, {<<c.level, c.last>>})
               /\ bg' = [bg EXCEPT !.pc = "movelog", !.edit = {e}]
               /\ manifests' = Added(e)
               /\ vs' = Pointed(c)
  BY <1>2
<1>4. Running /\ Shape /\ bg = ThreadOf(bg) /\ DInv
  BY <1>1, Works DEF Inv, Shape, Thread
<1>5. c.in0 \subseteq FilesOf(vs.v)
  BY <1>4, PickTakes DEF Shape
<1>6. e.next = vs.next /\ e.added = {<<c.level + 1, f>> : f \in c.in0}
  BY <1>3, EditSets
<1>. DEFINE pc == "movelog"
            edit == {e}
<1>7. bg' = [bg EXCEPT !.pc = pc, !.edit = edit]
  BY <1>3
<1>. HIDE DEF pc, edit
<1>8. bg' = [pc |-> pc, edit |-> edit, c |-> bg.c, num |-> bg.num,
             manual |-> bg.manual]
  BY <1>4, <1>7, ThreadEdit, Zenon
<1>9. /\ bg'.pc = "movelog" /\ bg'.edit = {e} /\ bg'.c = bg.c
      /\ bg' = ThreadOf(bg')
  BY <1>8 DEF pc, edit, ThreadOf
<1>10. Thread' /\ ~Logging /\ Logging'
  BY <1>1, <1>4, <1>9 DEF Shape, Thread, Logging
<1>11. /\ vs' = VersionSetOf(vs') /\ vs'.v = vs.v /\ vs'.next = vs.next
       /\ vs'.man = vs.man /\ vs'.seek = vs.seek
  <2>1. vs' = [vs EXCEPT !.after[c.level] = {c.last}]
    BY <1>3, Zenon DEF Pointed
  <2>2. vs = VersionSetOf(vs)
    BY <1>4 DEF Shape
  <2>. QED
    BY <2>1, <2>2, PointerMoved
<1>12. /\ curfile' = curfile /\ db' = db /\ rd' = rd /\ recovery' = recovery
       /\ failed' = failed /\ tables' = tables /\ logs' = logs /\ imm' = imm
       /\ pending' = pending /\ scheduled' = scheduled
       /\ wr' = wr /\ queue' = queue /\ group' = group
  BY <1>1 DEF life, writing
<1>13. \A f : Intact(f) => Intact(f)'
  BY <1>12 DEF Intact
<1>14. ASSUME NEW a \in e.added
       PROVE  Intact(a[2])' /\ a[2].num \in Nat /\ a[2].num < vs.next
  <2>1. a[2] \in FilesOf(vs.v)
    BY <1>5, <1>6, <1>14
  <2>2. Sound(a[2])
    BY <1>4, <2>1, InLive DEF DInv, Stored
  <2>. QED
    BY <1>13, <2>2 DEF Sound
<1>15. \A f \in Live : Intact(f)'
  BY <1>4, <1>13 DEF DInv, Stored, Sound
<1>16. \A i \in 1..Len(manifests[vs.man]) :
         \A f \in FilesOf(manifests[vs.man][i].v) : Intact(f)'
  BY <1>4, <1>13, InUse DEF Descriptor
<1>17. Kept'
  BY <1>4, <1>9, <1>12 DEF DInv, Kept
<1>18. DInv'
  BY <1>3, <1>4, <1>6, <1>9, <1>10, <1>11, <1>12, <1>14, <1>15, <1>16, <1>17,
     EditWritten
<1>19. /\ vs'.next \in Nat /\ DOMAIN logs' \subseteq Nat /\ failed' \in BOOLEAN
       /\ scheduled' \in BOOLEAN
  BY <1>4, <1>11, <1>12 DEF Shape
<1>. QED
  BY <1>4, <1>10, <1>11, <1>12, <1>18, <1>19, BackgroundStep DEF life

LEMMA LogMergeKeeps ==
  ASSUME Inv, LogMerge
  PROVE  Inv'
<1>. DEFINE c == Some(bg.c)
            added == {<<c.level + 1, f>> : f \in ToSet(c.done)}
            e0 == Edit(InputDeletions(c), added, vs.log, vs.next,
                       {<<c.level, c.last>>})
            pc == "mergelog"
<1>16. PICK e : e = e0
  OBVIOUS
<1>. DEFINE edit == {e}
<1>1. /\ bg.pc = "merge" /\ bg' = [bg EXCEPT !.pc = pc, !.edit = edit]
      /\ manifests' = Added(e)
      /\ UNCHANGED <<logs, tables, curfile, life, mem, imm, lognum, vs, writing,
                     scheduled, failed, pending, manual, rd, told, stops>>
  BY <1>16 DEF LogMerge
<1>2. Running /\ Shape /\ Thread /\ bg = ThreadOf(bg) /\ DInv
  BY <1>1, Works DEF Inv, Shape, Thread
<1>3. c \in bg.c
  BY <1>1, <1>2, SomeOf DEF Thread
<1>4. e.next = vs.next /\ e.added = added
  BY <1>16, EditSets
<1>. HIDE DEF e0, pc, c
<1>5. bg' = [pc |-> pc, edit |-> {e}, c |-> bg.c, num |-> bg.num,
             manual |-> bg.manual]
  <2>. HIDE DEF edit
  <2>1. bg' = [pc |-> pc, edit |-> edit, c |-> bg.c, num |-> bg.num,
               manual |-> bg.manual]
    BY <1>1, <1>2, ThreadEdit, Zenon
  <2>. QED
    BY <2>1 DEF edit
<1>6. /\ bg'.pc = "mergelog" /\ bg'.edit = {e} /\ bg'.c = bg.c
      /\ bg' = ThreadOf(bg')
  BY <1>5 DEF pc, ThreadOf
<1>7. Thread' /\ ~Logging /\ Logging'
  BY <1>1, <1>2, <1>6 DEF Thread, Logging
<1>8. /\ curfile' = curfile /\ db' = db /\ rd' = rd /\ recovery' = recovery
      /\ failed' = failed /\ tables' = tables /\ logs' = logs /\ imm' = imm
      /\ pending' = pending /\ scheduled' = scheduled /\ vs' = vs
      /\ wr' = wr /\ queue' = queue /\ group' = group
  BY <1>1 DEF life, writing
<1>9. \A f : Intact(f) => Intact(f)'
  BY <1>8 DEF Intact
<1>10. ASSUME NEW a \in e.added
       PROVE  Intact(a[2])' /\ a[2].num \in Nat /\ a[2].num < vs.next
  <2>1. a[2] \in ToSet(c.done)
    BY <1>4, <1>10
  <2>2. Sound(a[2])
    BY <1>2, <1>3, <2>1, InLive DEF DInv, Stored
  <2>. QED
    BY <1>9, <2>2 DEF Sound
<1>11. \A f \in Live : Intact(f)'
  BY <1>2, <1>9 DEF DInv, Stored, Sound
<1>12. \A i \in 1..Len(manifests[vs.man]) :
         \A f \in FilesOf(manifests[vs.man][i].v) : Intact(f)'
  BY <1>2, <1>9, InUse DEF Descriptor
<1>13. Kept'
  BY <1>2, <1>6, <1>8 DEF DInv, Kept
<1>14. DInv'
  BY <1>1, <1>2, <1>4, <1>6, <1>7, <1>8, <1>10, <1>11, <1>12, <1>13, EditWritten
<1>15. /\ vs'.next \in Nat /\ DOMAIN logs' \subseteq Nat /\ failed' \in BOOLEAN
       /\ scheduled' \in BOOLEAN /\ vs' = VersionSetOf(vs')
  BY <1>2, <1>8 DEF Shape
<1>. QED
  BY <1>2, <1>7, <1>8, <1>14, <1>15, BackgroundStep DEF life

LEMMA BuildTableKeeps ==
  ASSUME Inv, BuildTable
  PROVE  Inv'
<1>. DEFINE E == Some(imm)
            table == [num |-> bg.num, ents |-> E]
            level == PickLevelForMemTableOutput(vs.v, Smallest(table).k,
                                                Largest(table).k)
            added == IF E = {} THEN {} ELSE {<<level, table>>}
            e0 == Edit({}, added, lognum, vs.next, {})
            pc == "flushlog"
<1>18. PICK x : x = E
  OBVIOUS
<1>19. PICK n : n = bg.num
  OBVIOUS
<1>20. PICK f0 : f0 = [num |-> n, ents |-> x]
  OBVIOUS
<1>21. PICK e : e = e0
  OBVIOUS
<1>. DEFINE edit == {e}
<1>1. /\ bg.pc = "build" /\ bg' = [bg EXCEPT !.pc = pc, !.edit = edit]
      /\ manifests' = Added(e)
      /\ tables' = IF x = {} THEN tables ELSE With(tables, n, x)
      /\ pending' = pending \ {bg.num}
      /\ UNCHANGED <<logs, curfile, life, mem, imm, lognum, vs, writing, scheduled,
                     failed, manual, rd, told, stops>>
  BY <1>18, <1>19, <1>21, Zenon DEF BuildTable
<1>2. Running /\ Shape /\ Thread /\ bg = ThreadOf(bg) /\ DInv
  BY <1>1, Works DEF Inv, Shape, Thread
<1>3. e.next = vs.next /\ e.added = added
  <2>. HIDE DEF added
  <2>. QED
    BY <1>21, EditSets
<1>4. \A a \in added : x # {} /\ a[2] = f0
  BY <1>18, <1>19, <1>20
<1>5. f0.num = n /\ f0.ents = x /\ n = bg.num
  BY <1>19, <1>20
<1>. HIDE DEF e0, pc, added
<1>6. bg' = [pc |-> pc, edit |-> {e}, c |-> bg.c, num |-> bg.num,
             manual |-> bg.manual]
  <2>. HIDE DEF edit
  <2>1. bg' = [pc |-> pc, edit |-> edit, c |-> bg.c, num |-> bg.num,
               manual |-> bg.manual]
    BY <1>1, <1>2, ThreadEdit, Zenon
  <2>. QED
    BY <2>1 DEF edit
<1>7. /\ bg'.pc = "flushlog" /\ bg'.edit = {e} /\ bg'.c = bg.c
      /\ bg' = ThreadOf(bg')
  BY <1>6 DEF pc, ThreadOf
<1>8. Thread' /\ ~Logging /\ Logging'
  BY <1>1, <1>2, <1>7 DEF Thread, Logging
<1>9. /\ curfile' = curfile /\ db' = db /\ rd' = rd /\ recovery' = recovery
      /\ failed' = failed /\ logs' = logs /\ imm' = imm
      /\ scheduled' = scheduled /\ vs' = vs
      /\ wr' = wr /\ queue' = queue /\ group' = group
  BY <1>1 DEF life, writing
<1>22. /\ \A m \in DOMAIN tables :
            m # n => m \in DOMAIN tables' /\ tables'[m] = tables[m]
       /\ x # {} => n \in DOMAIN tables' /\ tables'[n] = x
  <2>1. tables' = IF x = {} THEN tables ELSE With(tables, n, x)
    BY <1>1, Zenon
  <2>2. CASE x = {}
    BY <2>1, <2>2
  <2>3. CASE x # {}
    BY <2>1, <2>3 DEF With
  <2>. QED
    BY <2>2, <2>3
<1>10. \A f : Intact(f) /\ f.num # n => Intact(f)'
  BY <1>22 DEF Intact
<1>11. /\ n \in Nat /\ n < vs.next
       /\ \A f \in Live : f.num # n
       /\ \A i \in 1..Len(manifests[vs.man]) :
            \A f \in FilesOf(manifests[vs.man][i].v) : f.num # n
  BY <1>1, <1>2, <1>19, InUse DEF DInv, Fresh
<1>12. ASSUME NEW a \in e.added
       PROVE  Intact(a[2])' /\ a[2].num \in Nat /\ a[2].num < vs.next
  <2>1. x # {} /\ a[2] = f0
    BY <1>3, <1>4, <1>12
  <2>2. Intact(f0)'
    BY <1>5, <1>22, <2>1 DEF Intact
  <2>. QED
    BY <1>5, <1>11, <2>1, <2>2
<1>13. \A f \in Live : Intact(f)'
  BY <1>2, <1>10, <1>11 DEF DInv, Stored, Sound
<1>14. \A i \in 1..Len(manifests[vs.man]) :
         \A f \in FilesOf(manifests[vs.man][i].v) : Intact(f)'
  <2>1. ASSUME NEW i \in 1..Len(manifests[vs.man]),
               NEW f \in FilesOf(manifests[vs.man][i].v)
        PROVE  Intact(f)'
    <3>1. i <= i /\ Intact(f)
      BY <1>2, <2>1, InUse DEF Descriptor
    <3>. QED
      BY <1>10, <1>11, <2>1, <3>1
  <2>. QED
    BY <2>1
<1>15. Kept'
  <2>1. ASSUME NEW c \in bg.c, NEW f \in ToSet(c.done)
        PROVE  f.num \in pending /\ f.num # n
    <3>1. f \in Live
      BY <2>1, InLive
    <3>. QED
      BY <1>2, <1>11, <2>1, <3>1 DEF DInv, Kept
  <2>. QED
    BY <1>1, <1>7, <1>19, <2>1 DEF Kept
<1>16. DInv'
  BY <1>1, <1>2, <1>3, <1>7, <1>8, <1>9, <1>12, <1>13, <1>14, <1>15, EditWritten
<1>17. /\ vs'.next \in Nat /\ DOMAIN logs' \subseteq Nat /\ failed' \in BOOLEAN
       /\ scheduled' \in BOOLEAN /\ vs' = VersionSetOf(vs')
  BY <1>2, <1>9 DEF Shape
<1>. QED
  BY <1>2, <1>8, <1>9, <1>16, <1>17, BackgroundStep DEF life

\* The merge goes on to its next output.
LEMMA OutputDone ==
  ASSUME NEW c, c = MergeOf(c), NEW S, c.done \in Seq(S), NEW f, NEW k,
         k = [c EXCEPT !.todo = Tail(@), !.done = Append(@, f)]
  PROVE  /\ k = MergeOf(k) /\ k.base = c.base
         /\ k.done \in Seq(ToSet(k.done))
         /\ ToSet(k.done) = ToSet(c.done) \cup {f}
<1>. DEFINE t == Tail(c.todo)
            d == Append(c.done, f)
            l == [c EXCEPT !.todo = t]
<1>1. k = [l EXCEPT !.done = d]
  BY Zenon
<1>2. d \in Seq(ToSet(d)) /\ ToSet(d) = ToSet(c.done) \cup {f}
  BY OneMore
<1>. HIDE DEF t, d
<1>3. l = [level |-> c.level, in0 |-> c.in0, in1 |-> c.in1, base |-> c.base,
           last |-> c.last, end |-> c.end, done |-> c.done, todo |-> t]
  BY DEF MergeOf
<1>. HIDE DEF l
<1>4. k = [level |-> c.level, in0 |-> c.in0, in1 |-> c.in1, base |-> c.base,
           last |-> c.last, end |-> c.end, done |-> d, todo |-> t]
  BY <1>1, <1>3
<1>5. k.done = d /\ k.base = c.base /\ k = MergeOf(k)
  BY ONLY <1>4 DEF MergeOf
<1>. QED
  BY <1>2, <1>5, Zenon

LEMMA MergeOutputKeeps ==
  ASSUME Inv, MergeOutput
  PROVE  Inv'
<1>. DEFINE c == Some(bg.c)
            new == [num |-> vs.next, ents |-> Head(c.todo)]
<1>1. PICK f : f = new
  OBVIOUS
<1>2. PICK x, n : x = Head(c.todo) /\ n = vs.next
  OBVIOUS
<1>3. PICK d : d = c
  OBVIOUS
<1>4. f.num = n /\ f.ents = x /\ n = vs.next
  BY <1>1, <1>2
<1>5. PICK k : k = [d EXCEPT !.todo = Tail(@), !.done = Append(@, f)]
  OBVIOUS
<1>. DEFINE merge == {k}
<1>6. /\ bg.pc = "merge" /\ bg' = [bg EXCEPT !.c = merge]
      /\ tables' = With(tables, n, x)
      /\ vs' = [vs EXCEPT !.next = @ + 1]
      /\ pending' = pending \cup {n}
      /\ UNCHANGED <<logs, manifests, curfile, life, mem, imm, lognum, writing,
                     scheduled, failed, manual, rd, told, stops>>
  BY <1>1, <1>2, <1>3, <1>5 DEF MergeOutput
<1>7. Running /\ Shape /\ Thread /\ bg = ThreadOf(bg) /\ DInv /\ vs = VersionSetOf(vs)
  BY <1>6, Works DEF Inv, Shape, Thread
<1>8. d \in bg.c
  BY <1>3, <1>6, <1>7, SomeOf DEF Thread
<1>. HIDE DEF c, new
<1>9. /\ k = MergeOf(k) /\ k.base = d.base
      /\ k.done \in Seq(ToSet(k.done))
      /\ ToSet(k.done) = ToSet(d.done) \cup {f}
  <2>1. d = MergeOf(d) /\ d.done \in Seq(ToSet(d.done))
    BY <1>7, <1>8 DEF Thread
  <2>. QED
    BY <1>5, <2>1, OutputDone, Zenon
<1>10. /\ bg'.pc = "merge" /\ bg'.edit = bg.edit /\ bg'.c = {k}
       /\ bg' = ThreadOf(bg')
  BY <1>6, <1>7 DEF ThreadOf
<1>11. Thread' /\ ~Logging /\ ~(Logging')
  BY <1>6, <1>9, <1>10 DEF Thread, Logging
<1>12. /\ vs' = VersionSetOf(vs') /\ vs'.v = vs.v /\ vs'.man = vs.man
       /\ vs'.seek = vs.seek /\ vs'.next = vs.next + 1
  BY <1>6, <1>7, NumberTaken DEF VersionSetOf
<1>13. /\ n \in Nat /\ n < vs'.next /\ vs'.next \in Nat
       /\ \A i \in Nat : i < vs.next => i < vs'.next
       /\ \A i \in Nat : i <= vs.next => i <= vs'.next
  <2>1. vs.next \in Nat
    BY <1>7 DEF Shape
  <2>. QED
    BY <1>4, <1>12, <2>1
<1>14. /\ curfile' = curfile /\ db' = db /\ rd' = rd /\ recovery' = recovery
       /\ failed' = failed /\ logs' = logs /\ imm' = imm
       /\ scheduled' = scheduled /\ manifests' = manifests
       /\ wr' = wr /\ queue' = queue /\ group' = group
  BY <1>6 DEF life, writing
<1>15. /\ \A g \in Live : g.num # n
       /\ \A i \in 1..Len(manifests[vs.man]) :
            \A g \in FilesOf(manifests[vs.man][i].v) : g.num # n
  BY <1>4, <1>7, NewNumber, InUse DEF Running
<1>25. /\ \A m \in DOMAIN tables :
            m # n => m \in DOMAIN tables' /\ tables'[m] = tables[m]
       /\ n \in DOMAIN tables' /\ tables'[n] = x
  BY <1>6 DEF With
<1>16. \A g : Intact(g) /\ g.num # n => Intact(g)'
  BY <1>25 DEF Intact
<1>17. Sound(f)'
  BY <1>4, <1>13, <1>25 DEF Sound, Intact
<1>18. Stored'
  <2>1. ASSUME NEW g \in Live'
        PROVE  Sound(g)'
    <3>1. \/ g \in FilesOf(vs'.v)
          \/ \E r \in Readers : \E y \in rd'[r].get : g \in FilesOf(y.v)
          \/ \E y \in bg'.c : g \in FilesOf(y.base) \/ g \in ToSet(y.done)
          \/ \E y \in bg'.edit : \E a \in y.added : a[2] = g
          \/ \E y \in recovery' : g \in y.added
      BY <2>1, InLiveNext
    <3>2. g \in Live \/ g = f
      BY <1>8, <1>9, <1>10, <1>12, <1>14, <3>1, InLive
    <3>3. ASSUME g \in Live PROVE Sound(g)'
      <4>1. Sound(g) /\ g.num # n
        BY <1>7, <1>15, <3>3 DEF DInv, Stored
      <4>. QED
        BY <1>13, <1>16, <4>1 DEF Sound
    <3>. QED
      BY <1>17, <3>2, <3>3
  <2>. QED
    BY <2>1 DEF Stored
<1>19. Kept'
  BY <1>4, <1>6, <1>7, <1>8, <1>9, <1>10 DEF DInv, Kept
<1>20. Descriptors'
  <2>1. Descriptor(vs.man) /\ \A i \in 1..Len(manifests[vs.man]) :
          manifests[vs.man][i].next <= vs.next
    BY <1>7, InUse
  <2>2. Descriptor(vs.man)'
    BY <1>12, <1>14, <1>15, <1>16, <2>1 DEF Descriptor
  <2>3. \A i \in 1..Len(manifests[vs.man]) : manifests[vs.man][i].next <= vs'.next
    BY <1>13, <2>1 DEF Descriptor
  <2>. QED
    BY <1>7, <1>12, <1>14, <2>2, <2>3, StillInUse
<1>21. Fresh'
  BY <1>10 DEF Fresh
<1>22. Current'
  BY <1>7, <1>11, <1>12, <1>14 DEF DInv, Current, Running
<1>23. DInv'
  BY <1>18, <1>19, <1>20, <1>21, <1>22 DEF DInv
<1>24. /\ DOMAIN logs' \subseteq Nat /\ failed' \in BOOLEAN
       /\ scheduled' \in BOOLEAN
  BY <1>7, <1>14 DEF Shape
<1>. QED
  BY <1>7, <1>11, <1>12, <1>13, <1>14, <1>23, <1>24, BackgroundStep DEF life

LEMMA BackgroundKeeps ==
  ASSUME Inv, Background \/ BackgroundFails
  PROVE  Inv'
  BY SkipWorkKeeps, StartFlushKeeps, BuildTableKeeps, FinishFlushKeeps,
     StartMergeKeeps, StartMoveKeeps, FinishMoveKeeps, StartManualKeeps,
     MergeOutputKeeps, LogMergeKeeps, FinishMergeKeeps, BuildFailsKeeps,
     ManifestFailsKeeps, MergeFailsKeeps DEF Background, BackgroundFails

-----------------------------------------------------------------------------
(* Stopping and opening.                                                   *)

\* A run of the states of a descriptor, which is what a stop leaves of it
PartOf(new, old) ==
  /\ new \in Seq(ToSet(new)) /\ Len(new) > 0
  /\ \E k \in Nat : /\ Len(new) + k <= Len(old)
                    /\ \A i \in 1..Len(new) : new[i] = old[i + k]
StatesKept ==
  \/ manifests' = manifests
  \/ \E new : /\ PartOf(new, manifests[curfile])
             /\ manifests' = [manifests EXCEPT ![curfile] = new]

\* Nothing in memory names a file when the store is closed.
LEMMA StopsKeep ==
  ASSUME Inv, db # "closed", Stopped, DOMAIN logs' \subseteq Nat, StatesKept
  PROVE  Inv'
<1>. DEFINE m == curfile
            old == manifests[m]
            new == manifests'[m]
            n == Len(old)
<1>1. /\ db' = "closed" /\ recovery' = {} /\ imm' = {} /\ vs' = ClosedVs
      /\ queue' = <<>> /\ wr' = [w \in Writers |-> NoWriter] /\ group' = {}
      /\ scheduled' = FALSE /\ bg' = IdleBg /\ failed' = FALSE
      /\ manual' = IdleManual /\ rd' = [r \in Readers |-> NoReader]
      /\ curfile' = curfile /\ tables' = tables
  BY DEF Stopped, Volatile
<1>2. /\ vs' = VersionSetOf(vs') /\ vs'.next = 2 /\ vs'.man = 0
      /\ vs'.seek = {} /\ vs'.v = EmptyVersion
      /\ bg' = ThreadOf(bg') /\ bg'.pc = "idle" /\ bg'.edit = {} /\ bg'.c = {}
  BY <1>1 DEF ClosedVs, VersionSetOf, IdleBg, ThreadOf
<1>3. ~(Running')
  BY <1>1 DEF Running
<1>4. WInv'
  <2>1. Queued'
    <3>1. /\ queue' \in Seq(Writers) /\ Len(queue') = 0
          /\ \A i : i \notin 1..Len(queue')
      BY <1>1
    <3>2. \A w \in Writers : wr'[w].st # "waiting"
      BY <1>1 DEF NoWriter
    <3>. QED
      BY <3>1, <3>2 DEF Queued
  <2>2. \A w \in Writers :
          /\ wr'[w] = Call(wr'[w]) /\ wr'[w].pc = "idle"
          /\ wr'[w].st # "waiting"
    BY <1>1 DEF NoWriter, Call
  <2>3. Calls'
    <3>1. wr' = [w \in Writers |-> wr'[w]]
      BY <1>1
    <3>2. wr' = [w \in Writers |-> Call(wr'[w])]
      BY <2>2, <3>1, Zenon
    <3>. QED
      BY <2>2, <3>2 DEF Calls
  <2>4. Group'
    BY <1>1 DEF Group
  <2>. QED
    BY <2>1, <2>3, <2>4 DEF WInv
<1>5. Thread' /\ ~(Logging')
  BY <1>1, <1>2 DEF Thread, Logging
<1>6. Shape'
  <2>1. rd' = [r \in Readers |-> [snap |-> rd'[r].snap, get |-> rd'[r].get]]
    <3>1. \A r \in Readers : rd'[r] = [snap |-> rd'[r].snap, get |-> rd'[r].get]
      BY <1>1 DEF NoReader
    <3>2. rd' = [r \in Readers |-> rd'[r]]
      BY <1>1
    <3>. QED
      BY <3>1, <3>2, Zenon
  <2>2. vs'.next \in Nat /\ vs'.man \in Nat
    BY <1>2
  <2>4. scheduled' \in BOOLEAN /\ failed' \in BOOLEAN
    BY <1>1, Zenon
  <2>3. \A p \in vs'.seek : p.level \in Levels /\ p.file \in vs'.v[p.level]
    BY <1>2
  <2>. QED
    BY <1>1, <1>2, <1>5, <2>1, <2>2, <2>3, <2>4 DEF Shape
<1>7. Recovering'
  BY <1>1 DEF Recovering
<1>8. Quiet'
  BY <1>1 DEF Quiet
<1>9. \A f : f \notin Live'
  <2>1. \A r \in Readers : rd'[r].get = {}
    BY <1>1 DEF NoReader
  <2>2. FilesOf(vs'.v) = {}
    BY <1>2, NoFiles
  <2>. QED
    BY <1>1, <1>2, <2>1, <2>2, InLiveNext
<1>10. Descriptor(m)
  <2>1. Descriptors /\ curfile # 0
    BY DEF Inv, DInv, Descriptors
  <2>2. curfile \in Known
    BY <2>1 DEF Known
  <2>. QED
    BY <2>1, <2>2 DEF Descriptors
<1>11. m \in DOMAIN manifests /\ old \in Seq(ToSet(old)) /\ n > 0 /\ n \in Nat
  BY <1>10 DEF Descriptor
<1>12. PICK k \in Nat :
         /\ m \in DOMAIN manifests' /\ new \in Seq(ToSet(new)) /\ Len(new) > 0
         /\ Len(new) \in Nat /\ Len(new) + k <= n
         /\ \A i \in 1..Len(new) : new[i] = old[i + k]
  <2>1. CASE manifests' = manifests
    <3>1. new = old /\ m \in DOMAIN manifests'
      BY <1>11, <2>1
    <3>2. n = Len(old)
      OBVIOUS
    <3>. HIDE DEF new, old, n
    <3>3. /\ 0 \in Nat /\ Len(new) + 0 <= n
          /\ \A i \in 1..Len(new) : new[i] = old[i + 0]
      BY <1>11, <3>1, <3>2
    <3>. QED
      BY <1>11, <3>1, <3>2, <3>3
  <2>2. CASE \E x : PartOf(x, old) /\ manifests' = [manifests EXCEPT ![m] = x]
    <3>1. PICK x : PartOf(x, old) /\ manifests' = [manifests EXCEPT ![m] = x]
      BY <2>2
    <3>2. new = x /\ DOMAIN manifests' = DOMAIN manifests
      BY <1>11, <3>1
    <3>. HIDE DEF new, old, n
    <3>3. Len(x) \in Nat
      BY <3>1 DEF PartOf
    <3>. QED
      BY <1>11, <3>1, <3>2, <3>3 DEF PartOf, n
  <2>. QED
    BY <2>1, <2>2 DEF StatesKept
<1>13. \A i \in 1..n : old[i].next \in Nat /\ m < old[i].next
  BY <1>10 DEF Descriptor
<1>14. \A i, j \in 1..n : i <= j =>
         /\ old[i].next <= old[j].next
         /\ \A f \in FilesOf(old[i].v) :
              Intact(f) /\ f.num \in Nat /\ f.num < old[j].next
  BY <1>10 DEF Descriptor
<1>. HIDE DEF n, old, new
<1>15. \A i \in 1..Len(new) : i + k \in 1..n
  BY <1>11, <1>12
<1>16. Descriptor(m)'
  <2>1. \A f : Intact(f) => Intact(f)'
    BY <1>1 DEF Intact
  <2>2. \A i \in 1..Len(new) : new[i].next \in Nat /\ m < new[i].next
    BY <1>12, <1>13, <1>15
  <2>3. \A i, j \in 1..Len(new) : i <= j =>
          /\ new[i].next <= new[j].next
          /\ \A f \in FilesOf(new[i].v) :
               Intact(f)' /\ f.num \in Nat /\ f.num < new[j].next
    <3>1. ASSUME NEW i \in 1..Len(new), NEW j \in 1..Len(new), i <= j
          PROVE  /\ i + k \in 1..n /\ j + k \in 1..n /\ i + k <= j + k
                 /\ new[i] = old[i + k] /\ new[j] = old[j + k]
      BY <1>12, <1>15, <3>1
    <3>. QED
      BY <1>14, <2>1, <3>1
  <2>. QED
    BY <1>1, <1>12, <2>2, <2>3 DEF Descriptor, new
<1>17. Descriptors'
  <2>1. curfile' \in Nat
    BY <1>1 DEF Inv, DInv, Descriptors
  <2>2. \A x \in Known' : x = m
    BY <1>1 DEF Known
  <2>. QED
    BY <1>1, <1>3, <1>16, <2>1, <2>2 DEF Descriptors
<1>18. Stored'
  BY <1>9 DEF Stored
<1>19. Kept' /\ Fresh' /\ Current'
  BY <1>2, <1>3 DEF Kept, Fresh, Current
<1>. QED
  BY <1>4, <1>6, <1>7, <1>8, <1>17, <1>18, <1>19 DEF Inv, DInv

\* A power failure leaves the first states of the descriptor.
LEMMA PowerKeepsStates ==
  ASSUME Inv, PowerLoss
  PROVE  StatesKept
<1>1. CASE manifests' = manifests
  BY <1>1 DEF StatesKept
<1>2. CASE \E i \in DOMAIN manifests[curfile] :
             manifests' = [manifests EXCEPT ![curfile] = SubSeq(@, 1, i)]
  <2>1. Descriptor(curfile)
    <3>1. Descriptors /\ curfile # 0 /\ curfile \in Known
      BY DEF PowerLoss, Inv, DInv, Descriptors, Known
    <3>. QED
      BY <3>1 DEF Descriptors
  <2>2. PICK old : old = manifests[curfile]
    OBVIOUS
  <2>3. old \in Seq(ToSet(old)) /\ curfile \in DOMAIN manifests
    BY <2>1, <2>2 DEF Descriptor
  <2>4. PICK i \in DOMAIN old :
          manifests' = [manifests EXCEPT ![curfile] = SubSeq(@, 1, i)]
    BY <1>2, <2>2
  <2>5. i \in 0..Len(old) /\ i > 0 /\ i <= Len(old)
    BY <2>3
  <2>6. PICK new : new = SubSeq(old, 1, i)
    OBVIOUS
  <2>7. /\ new \in Seq(ToSet(new)) /\ Len(new) = i
        /\ \A j \in 1..i : new[j] = old[j]
    BY <2>3, <2>5, <2>6, FirstOnes
  <2>8. PartOf(new, old)
    <3>1. 0 \in Nat /\ Len(new) + 0 <= Len(old) /\ \A j \in 1..i : j + 0 = j
      BY <2>5, <2>7
    <3>. QED
      BY <2>5, <2>7, <3>1 DEF PartOf
  <2>9. manifests' = [manifests EXCEPT ![curfile] = new]
    BY <2>2, <2>4, <2>6
  <2>. QED
    BY <2>2, <2>8, <2>9 DEF StatesKept
<1>. QED
  BY <1>1, <1>2 DEF PowerLoss

\* The process that ends for want of a range leaves the descriptor as it is,
\* with the edit of the merge synced, or without it.
LEMMA NullKeepsStates ==
  ASSUME Inv, NullRange
  PROVE  StatesKept /\ Running /\ db # "closed"
<1>1. Running /\ db # "closed"
  <2>1. bg.pc # "idle"
    BY DEF NullRange
  <2>. QED
    BY <2>1 DEF Inv, Quiet, Running, IdleBg
<1>2. CASE manifests' = manifests
  BY <1>1, <1>2 DEF StatesKept
<1>3. CASE bg.pc = "mergelog" /\ ~UNCHANGED manifests
  <2>1. Logging
    BY <1>3 DEF Logging
  <2>2. Running
    BY <2>1, EditOf
  <2>3. /\ curfile = vs.man /\ Descriptor(vs.man)
        /\ Len(manifests[vs.man]) > 1
    BY <2>1, <2>2, InUse DEF Inv, DInv, Current
  <2>4. PICK old : old = manifests[curfile]
    OBVIOUS
  <2>5. /\ old \in Seq(ToSet(old)) /\ Len(old) > 1 /\ Len(old) \in Nat
        /\ curfile \in DOMAIN manifests
    BY <2>3, <2>4 DEF Descriptor
  <2>6. CASE manifests' = Synced
    <3>1. PICK x, new : x = ReadState(old) /\ new = <<x>>
      OBVIOUS
    <3>2. new \in Seq(ToSet(new)) /\ Len(new) = 1 /\ new[1] = x
      BY <3>1, Alone
    <3>3. x = old[Len(old)]
      BY <3>1 DEF ReadState
    <3>4. PartOf(new, old)
      <4>1. PICK k : k = Len(old) - 1
        OBVIOUS
      <4>2. k \in Nat /\ 1 + k = Len(old)
        BY <2>5, <4>1
      <4>. QED
        BY <3>2, <3>3, <4>2 DEF PartOf
    <3>5. manifests' = [manifests EXCEPT ![curfile] = new]
      BY <2>3, <2>4, <2>6, <3>1 DEF Synced
    <3>. QED
      BY <1>1, <2>4, <3>4, <3>5 DEF StatesKept
  <2>7. CASE manifests' = [manifests EXCEPT ![vs.man] = SubSeq(@, 1, Len(@) - 1)]
    <3>1. PICK new : new = SubSeq(old, 1, Len(old) - 1)
      OBVIOUS
    <3>2. Len(old) - 1 \in 0..Len(old) /\ Len(old) - 1 > 0
      BY <2>5
    <3>3. /\ new \in Seq(ToSet(new)) /\ Len(new) = Len(old) - 1
          /\ \A i \in 1..(Len(old) - 1) : new[i] = old[i]
      BY <2>5, <3>1, <3>2, FirstOnes
    <3>4. PartOf(new, old)
      <4>1. /\ 0 \in Nat /\ Len(new) + 0 <= Len(old)
            /\ \A i \in 1..Len(new) : i + 0 = i
        BY <2>5, <3>3
      <4>. QED
        BY <3>2, <3>3, <4>1 DEF PartOf
    <3>5. manifests' = [manifests EXCEPT ![curfile] = new]
      BY <2>3, <2>4, <2>7, <3>1
    <3>. QED
      BY <1>1, <2>4, <3>4, <3>5 DEF StatesKept
  <2>. QED
    BY <1>3, <2>6, <2>7 DEF NullRange, EditFails
<1>. QED
  BY <1>2, <1>3 DEF NullRange

LEMMA StoppingKeeps ==
  ASSUME Inv, Stopping
  PROVE  Inv'
<1>1. Shape /\ DOMAIN logs \subseteq Nat
  BY DEF Inv, Shape
<1>2. CASE Kill
  BY <1>1, <1>2, StopsKeep DEF Kill, StatesKept
<1>3. CASE PowerLoss
  <2>1. PICK cut : logs' = [n \in DOMAIN logs |->
                             [logs[n] EXCEPT !.recs = SubSeq(@, 1, cut[n])]]
    BY <1>3 DEF PowerLoss
  <2>2. DOMAIN logs' \subseteq Nat
    BY <1>1, <2>1
  <2>. QED
    BY <1>3, <2>2, PowerKeepsStates, StopsKeep DEF PowerLoss
<1>4. CASE Closed
  BY <1>1, <1>4, StopsKeep DEF Closed, StatesKept
<1>5. CASE Close
  <2>1. /\ db = "open" /\ db' = "closing"
        /\ UNCHANGED <<disk, recovery, mem, imm, lognum, vs, writing, scheduled,
                       bg, failed, pending, manual, rd, told, stops>>
    BY <1>5 DEF Close
  <2>2. /\ logs' = logs /\ tables' = tables /\ manifests' = manifests
        /\ curfile' = curfile
    BY <2>1 DEF disk
  <2>3. /\ Recovering /\ WInv /\ Stored /\ Kept /\ Descriptors /\ Fresh /\ Current
    BY DEF Inv, DInv
  <2>4. Running /\ Running' /\ (Logging' <=> Logging)
    BY <2>1 DEF Running, Logging
  <2>5. Shape'
    <3>1. Thread'
      BY <1>1, <2>1, <2>4 DEF Shape, Thread
    <3>. QED
      BY <1>1, <2>1, <2>2, <3>1 DEF Shape
  <2>6. WInv'
    BY <2>1, <2>3, QueueSame DEF writing
  <2>7. Recovering' /\ Quiet'
    BY <2>1, <2>3, <2>4 DEF Recovering, Quiet
  <2>8. Live' = Live /\ Known' = Known
    BY <2>1, <2>2 DEF Live, ReadBy, Merging, Recorded, Recovered, Known
  <2>9. Stored' /\ Kept' /\ Fresh'
    BY <2>1, <2>2, <2>3, <2>8 DEF Stored, Sound, Intact, Kept, Fresh
  <2>10. \A m : Descriptor(m) => Descriptor(m)'
    BY <2>2 DEF Descriptor, Intact
  <2>11. Descriptors'
    BY <2>1, <2>2, <2>3, <2>4, <2>8, <2>10 DEF Descriptors
  <2>12. Current'
    BY <2>1, <2>2, <2>3, <2>4 DEF Current
  <2>. QED
    BY <2>5, <2>6, <2>7, <2>9, <2>11, <2>12 DEF Inv, DInv
<1>6. CASE NullRange
  <2>1. StatesKept /\ db # "closed" /\ Stopped /\ logs' = logs
    BY <1>6, NullKeepsStates DEF NullRange
  <2>. QED
    BY <1>1, <2>1, StopsKeep
<1>. QED
  BY <1>2, <1>3, <1>4, <1>5, <1>6 DEF Stopping

LEMMA NewDBKeeps ==
  ASSUME Inv, NewDB
  PROVE  Inv'
<1>1. /\ db = "closed" /\ curfile = 0 /\ curfile' = 1
      /\ manifests' = With(manifests, 1, <<NewState>>)
      /\ UNCHANGED <<logs, tables, life, mem, imm, lognum, vs, writing, scheduled,
                     bg, failed, pending, manual, rd, told, stops>>
  BY DEF NewDB
<1>2. /\ db' = db /\ recovery' = recovery /\ logs' = logs /\ tables' = tables
      /\ imm' = imm /\ vs' = vs /\ scheduled' = scheduled /\ bg' = bg
      /\ failed' = failed /\ pending' = pending /\ manual' = manual /\ rd' = rd
      /\ wr' = wr /\ queue' = queue /\ group' = group
  BY <1>1 DEF life, writing
<1>3. /\ Shape /\ Recovering /\ Quiet /\ WInv /\ Stored /\ Kept /\ Descriptors
      /\ ~Running /\ ~(Running')
  BY <1>1, <1>2 DEF Inv, DInv, Running
<1>4. bg.pc = "idle" /\ bg'.pc = "idle"
  BY <1>2, <1>3 DEF Quiet, IdleBg
<1>5. Thread'
  BY <1>2, <1>3, <1>4 DEF Shape, Thread, Logging
<1>6. Shape'
  BY <1>2, <1>3, <1>5 DEF Shape
<1>7. WInv'
  BY <1>2, <1>3, QueueSame DEF writing
<1>8. Recovering' /\ Quiet'
  BY <1>2, <1>3 DEF Recovering, Quiet
<1>9. Live' = Live
  BY <1>2 DEF Live, ReadBy, Merging, Recorded, Recovered
<1>10. Stored' /\ Kept' /\ Fresh' /\ Current'
  BY <1>2, <1>3, <1>4, <1>9 DEF Stored, Sound, Intact, Kept, Fresh, Current
<1>11. 1 \in DOMAIN manifests' /\ manifests'[1] = <<NewState>>
  BY <1>1 DEF With
<1>12. NewState.next = 2 /\ FilesOf(NewState.v) = {}
  BY NoFiles DEF NewState
<1>13. /\ manifests'[1] \in Seq(ToSet(manifests'[1])) /\ Len(manifests'[1]) = 1
       /\ manifests'[1][1] = NewState
  BY <1>11, Alone
<1>14. \A i \in 1..Len(manifests'[1]) : i = 1
  BY <1>13
<1>15. Descriptor(1)'
  BY <1>11, <1>12, <1>13, <1>14 DEF Descriptor
<1>16. Known' \subseteq {1}
  BY <1>1, <1>2 DEF Known
<1>17. Descriptors'
  BY <1>1, <1>2, <1>3, <1>15, <1>16 DEF Descriptors
<1>. QED
  BY <1>6, <1>7, <1>8, <1>10, <1>17 DEF Inv, DInv

\* A step of opening that keeps the rest quiet
LEMMA OpeningFrame ==
  ASSUME Inv, ~Running, db' \in {"recovering", "opening"},
         UNCHANGED <<imm, writing, scheduled, bg, failed, pending, manual, rd>>,
         DOMAIN logs' \subseteq Nat, vs' = VersionSetOf(vs'),
         vs'.next \in Nat, vs'.man \in Nat,
         \A p \in vs'.seek : p.level \in Levels /\ p.file \in vs'.v[p.level],
         Recovering', Stored', Descriptors'
  PROVE  Inv'
<1>1. /\ Shape /\ Quiet /\ WInv /\ Kept /\ ~(Running')
  BY DEF Inv, DInv, Running
<1>2. /\ scheduled' = scheduled /\ bg' = bg /\ imm' = imm
      /\ failed' = failed /\ pending' = pending /\ manual' = manual /\ rd' = rd
      /\ wr' = wr /\ queue' = queue /\ group' = group
  BY DEF writing
<1>3. bg.pc = "idle"
  BY <1>1 DEF Quiet, IdleBg
<1>4. Thread'
  BY <1>1, <1>2, <1>3 DEF Shape, Thread, Logging
<1>5. Shape'
  BY <1>1, <1>2, <1>4 DEF Shape
<1>6. WInv' /\ Quiet'
  BY <1>1, <1>2, QueueSame DEF writing, Quiet
<1>7. Kept' /\ Fresh' /\ Current'
  BY <1>1, <1>2, <1>3 DEF Kept, Fresh, Current
<1>. QED
  BY <1>5, <1>6, <1>7 DEF Inv, DInv

\* While it opens, only Recover's work and the version name files.
LEMMA LiveOpening ==
  ASSUME Inv, ~Running, rd' = rd, bg' = bg, NEW f \in Live'
  PROVE  f \in FilesOf(vs'.v) \/ \E c \in recovery' : f \in c.added
<1>1. /\ bg' = IdleBg /\ rd' = [r \in Readers |-> NoReader]
  BY DEF Inv, Quiet
<1>2. bg'.c = {} /\ bg'.edit = {} /\ \A r \in Readers : rd'[r].get = {}
  BY <1>1 DEF IdleBg, NoReader
<1>. QED
  BY <1>2, InLiveNext

LEMMA RecoverKeeps ==
  ASSUME Inv, Recover
  PROVE  Inv'
<1>. DEFINE m == curfile
            old == manifests[m]
            n == Len(old)
<1>1. PICK st : st = ReadState(old)
  OBVIOUS
<1>2. PICK left : left = {x \in DOMAIN logs : x >= st.log}
  OBVIOUS
<1>3. PICK none : none = {}
  OBVIOUS
<1>4. /\ db = "closed" /\ curfile # 0 /\ db' = "recovering"
      /\ vs' = [v |-> st.v, log |-> st.log, next |-> st.next + 1,
                last |-> st.last, man |-> st.next, after |-> st.after,
                seek |-> none]
      /\ recovery' = {[left |-> left, at |-> 0, added |-> none, last |-> 0]}
      /\ UNCHANGED <<disk, mem, imm, lognum, writing, scheduled, bg, failed,
                     pending, manual, rd, told, stops>>
  BY <1>1, <1>2, <1>3 DEF Recover
<1>5. /\ logs' = logs /\ tables' = tables /\ manifests' = manifests
      /\ curfile' = curfile /\ rd' = rd /\ bg' = bg
  BY <1>4 DEF disk
<1>6. /\ Shape /\ Descriptors /\ ~Running
  BY <1>4 DEF Inv, DInv, Running
<1>7. m \in Known /\ Descriptor(m)
  BY <1>4, <1>6 DEF Known, Descriptors
<1>8. m \in DOMAIN manifests /\ old \in Seq(ToSet(old)) /\ n > 0
  BY <1>7 DEF Descriptor
<1>9. n \in Nat /\ n \in 1..n /\ st = old[n] /\ \A i \in 1..n : i <= n
  BY <1>1, <1>8 DEF ReadState
<1>10. \A i \in 1..n : old[i].next \in Nat /\ m < old[i].next
  BY <1>7 DEF Descriptor
<1>11. \A i, j \in 1..n : i <= j =>
         /\ old[i].next <= old[j].next
         /\ \A f \in FilesOf(old[i].v) :
              Intact(f) /\ f.num \in Nat /\ f.num < old[j].next
  BY <1>7 DEF Descriptor
<1>12. st.next \in Nat /\ m < st.next /\ m \in Nat
  BY <1>6, <1>9, <1>10 DEF Descriptors
<1>13. /\ vs'.v = st.v /\ vs'.next = st.next + 1 /\ vs'.man = st.next
       /\ vs'.seek = {} /\ vs' = VersionSetOf(vs')
  BY <1>3, <1>4 DEF VersionSetOf
<1>14. Recovering'
  <2>1. left \subseteq Nat
    BY <1>2, <1>6 DEF Shape
  <2>2. PICK c : c = [left |-> left, at |-> 0, added |-> none, last |-> 0]
    OBVIOUS
  <2>3. /\ c = [left |-> c.left, at |-> c.at, added |-> c.added, last |-> c.last]
        /\ c.left = left
    BY <2>2
  <2>4. recovery' = {c}
    BY <1>4, <2>2, Zenon
  <2>. QED
    BY <1>4, <2>1, <2>3, <2>4 DEF Recovering
<1>15. \A c \in recovery' : c.added = {}
  BY <1>3, <1>4
<1>16. Stored'
  <2>1. ASSUME NEW f \in Live'
        PROVE  Sound(f)'
    <3>1. f \in FilesOf(st.v)
      BY <1>5, <1>6, <1>13, <1>15, <2>1, LiveOpening
    <3>2. Intact(f) /\ f.num \in Nat /\ f.num < st.next
      BY <1>9, <1>11, <3>1
    <3>3. f.num < st.next + 1
      BY <1>12, <3>2
    <3>. QED
      BY <1>5, <1>13, <3>2, <3>3 DEF Sound, Intact
  <2>. QED
    BY <2>1 DEF Stored
<1>17. Descriptors'
  <2>1. Known' = {m}
    BY <1>4, <1>5 DEF Known
  <2>2. Descriptor(m)'
    BY <1>5, <1>7 DEF Descriptor, Intact
  <2>3. \A i \in 1..n : old[i].next <= vs'.next
    BY <1>9, <1>10, <1>11, <1>12, <1>13
  <2>4. m < vs'.man /\ vs'.man < vs'.next
    BY <1>12, <1>13
  <2>. QED
    BY <1>4, <1>5, <1>12, <2>1, <2>2, <2>3, <2>4 DEF Descriptors, Running
<1>18. /\ DOMAIN logs' \subseteq Nat /\ vs'.next \in Nat /\ vs'.man \in Nat
       /\ db' \in {"recovering", "opening"}
  BY <1>4, <1>5, <1>6, <1>12, <1>13 DEF Shape
<1>. QED
  BY <1>4, <1>6, <1>13, <1>14, <1>16, <1>17, <1>18, OpeningFrame

\* The record of Recover's work after a table, and after a log
LEMMA RecoverySets ==
  ASSUME NEW c,
         c = [left |-> c.left, at |-> c.at, added |-> c.added, last |-> c.last],
         NEW x, NEW y, NEW z
  PROVE  /\ [c EXCEPT !.at = x, !.added = y, !.last = z] =
              [left |-> c.left, at |-> x, added |-> y, last |-> z]
         /\ [c EXCEPT !.left = y, !.at = x] =
              [left |-> y, at |-> x, added |-> c.added, last |-> c.last]
<1>. DEFINE k == [c EXCEPT !.at = x]
            l == [k EXCEPT !.added = y]
            r == [c EXCEPT !.left = y]
<1>1. /\ k = [left |-> c.left, at |-> x, added |-> c.added, last |-> c.last]
      /\ r = [left |-> y, at |-> c.at, added |-> c.added, last |-> c.last]
  OBVIOUS
<1>2. /\ [c EXCEPT !.at = x, !.added = y, !.last = z] = [l EXCEPT !.last = z]
      /\ [c EXCEPT !.left = y, !.at = x] = [r EXCEPT !.at = x]
  BY Zenon
<1>. HIDE DEF k, r
<1>3. l = [left |-> c.left, at |-> x, added |-> y, last |-> c.last]
  BY <1>1
<1>. HIDE DEF l
<1>4. [l EXCEPT !.last = z] = [left |-> c.left, at |-> x, added |-> y, last |-> z]
  BY <1>3
<1>5. [r EXCEPT !.at = x] =
        [left |-> y, at |-> x, added |-> c.added, last |-> c.last]
  BY <1>1
<1>. QED
  BY <1>2, <1>4, <1>5, Zenon

LEMMA RecoverLogKeeps ==
  ASSUME Inv, RecoverLog
  PROVE  Inv'
<1>1. /\ db = "recovering" /\ db' = db
      /\ UNCHANGED <<disk, mem, imm, lognum, writing, scheduled, bg, failed,
                     pending, manual, rd, told, stops>>
  BY DEF RecoverLog
<1>2. PICK c \in recovery : \E n \in c.left :
        /\ recovery' = {[c EXCEPT !.left = @ \ {n}, !.at = 0]}
        /\ vs' = [vs EXCEPT !.next = IF @ <= n THEN n + 1 ELSE @]
  BY DEF RecoverLog
<1>3. PICK n \in c.left :
        /\ recovery' = {[c EXCEPT !.left = @ \ {n}, !.at = 0]}
        /\ vs' = [vs EXCEPT !.next = IF @ <= n THEN n + 1 ELSE @]
  BY <1>2
<1>4. /\ Shape /\ Recovering /\ Stored /\ Descriptors /\ ~Running
      /\ vs = VersionSetOf(vs) /\ vs.next \in Nat /\ n \in Nat
  BY <1>1, <1>2, <1>3 DEF Inv, DInv, Shape, Running, Recovering
<1>5. /\ c = [left |-> c.left, at |-> c.at, added |-> c.added, last |-> c.last]
      /\ c.left \subseteq Nat /\ recovery = {c}
  BY <1>1, <1>2, <1>4 DEF Recovering
<1>6. PICK left, at : left = c.left \ {n} /\ at = 0
  OBVIOUS
<1>7. PICK k : k = [c EXCEPT !.left = left, !.at = at]
  OBVIOUS
<1>8. k = [left |-> left, at |-> at, added |-> c.added, last |-> c.last]
  BY <1>5, <1>7, RecoverySets, Zenon
<1>9. recovery' = {k}
  BY <1>3, <1>6, <1>7
<1>10. /\ k = [left |-> k.left, at |-> k.at, added |-> k.added, last |-> k.last]
       /\ k.added = c.added /\ k.left = left
  BY <1>8
<1>11. left \subseteq Nat
  BY <1>5, <1>6
<1>12. Recovering'
  BY <1>1, <1>9, <1>10, <1>11 DEF Recovering
<1>13. /\ vs' = VersionSetOf(vs') /\ vs'.v = vs.v /\ vs'.man = vs.man
       /\ vs'.seek = vs.seek
       /\ vs'.next = IF vs.next <= n THEN n + 1 ELSE vs.next
  BY <1>3, <1>4, NumberTaken DEF VersionSetOf
<1>14. vs'.next \in Nat /\ vs.next <= vs'.next
  BY <1>4, <1>13
<1>15. /\ logs' = logs /\ tables' = tables /\ manifests' = manifests
       /\ curfile' = curfile /\ rd' = rd /\ bg' = bg
  BY <1>1 DEF disk
<1>16. Stored'
  <2>1. ASSUME NEW f \in Live'
        PROVE  Sound(f)'
    <3>1. f \in Live
      BY <1>4, <1>5, <1>9, <1>10, <1>13, <1>15, <2>1, LiveOpening, InLive
    <3>2. Sound(f)
      BY <1>4, <3>1 DEF Stored
    <3>3. f.num < vs'.next
      BY <1>4, <1>14, <3>2 DEF Sound
    <3>. QED
      BY <1>15, <3>2, <3>3 DEF Sound, Intact
  <2>. QED
    BY <2>1 DEF Stored
<1>17. Descriptors'
  <2>1. Known' = {curfile} /\ Known = {curfile}
    BY <1>1, <1>4, <1>15 DEF Known, Descriptors
  <2>2. Descriptor(curfile) /\ Descriptor(curfile)'
    <3>1. Descriptor(curfile)
      BY <1>4, <2>1 DEF Descriptors
    <3>. QED
      BY <1>15, <3>1 DEF Descriptor, Intact
  <2>3. \A i \in 1..Len(manifests[curfile]) :
          manifests[curfile][i].next <= vs'.next
    <3>1. ASSUME NEW i \in 1..Len(manifests[curfile])
          PROVE  manifests[curfile][i].next <= vs'.next
      <4>1. manifests[curfile][i].next \in Nat
              /\ manifests[curfile][i].next <= vs.next
        BY <1>1, <1>4, <2>1, <2>2, <3>1 DEF Descriptors, Descriptor
      <4>. QED
        BY <1>4, <1>14, <4>1
    <3>. QED
      BY <3>1
  <2>4. curfile < vs'.man /\ vs'.man < vs'.next
    BY <1>1, <1>4, <1>13, <1>14 DEF Descriptors, Shape
  <2>5. curfile \in Nat /\ curfile # 0
    BY <1>1, <1>4 DEF Descriptors
  <2>. QED
    BY <1>1, <1>15, <2>1, <2>2, <2>3, <2>4, <2>5 DEF Descriptors, Running
<1>18. /\ DOMAIN logs' \subseteq Nat /\ vs'.man \in Nat
       /\ db' \in {"recovering", "opening"}
  BY <1>1, <1>4, <1>13, <1>15 DEF Shape
<1>19. \A p \in vs'.seek : p.level \in Levels /\ p.file \in vs'.v[p.level]
  BY <1>4, <1>13 DEF Shape
<1>. QED
  BY <1>1, <1>4, <1>12, <1>13, <1>14, <1>16, <1>17, <1>18, <1>19, OpeningFrame

LEMMA RecoverTableKeeps ==
  ASSUME Inv, RecoverTable
  PROVE  Inv'
<1>1. /\ db = "recovering" /\ db' = db
      /\ vs' = [vs EXCEPT !.next = @ + 1]
      /\ UNCHANGED <<logs, manifests, curfile, db, mem, imm, lognum, writing,
                     scheduled, bg, failed, pending, manual, rd, told, stops>>
  BY DEF RecoverTable
<1>2. PICK c \in recovery : \E E, to, last :
        /\ tables' = With(tables, vs.next, E)
        /\ recovery' = {[c EXCEPT !.at = to,
                                  !.added = @ \cup {[num |-> vs.next, ents |-> E]},
                                  !.last = last]}
  BY DEF RecoverTable
<1>3. PICK E, to, last :
        /\ tables' = With(tables, vs.next, E)
        /\ recovery' = {[c EXCEPT !.at = to,
                                  !.added = @ \cup {[num |-> vs.next, ents |-> E]},
                                  !.last = last]}
  BY <1>2
<1>4. /\ Shape /\ Recovering /\ Stored /\ Descriptors /\ ~Running
      /\ vs = VersionSetOf(vs) /\ vs.next \in Nat
  BY <1>1 DEF Inv, DInv, Shape, Running
<1>5. /\ c = [left |-> c.left, at |-> c.at, added |-> c.added, last |-> c.last]
      /\ c.left \subseteq Nat /\ recovery = {c}
  BY <1>1, <1>2, <1>4 DEF Recovering
<1>6. PICK n : n = vs.next
  OBVIOUS
<1>7. PICK f0 : f0 = [num |-> n, ents |-> E]
  OBVIOUS
<1>8. PICK added : added = c.added \cup {f0}
  OBVIOUS
<1>9. PICK k : k = [c EXCEPT !.at = to, !.added = added, !.last = last]
  OBVIOUS
<1>10. k = [left |-> c.left, at |-> to, added |-> added, last |-> last]
  BY <1>5, <1>9, RecoverySets, Zenon
<1>11. recovery' = {k}
  BY <1>3, <1>6, <1>7, <1>8, <1>9
<1>12. /\ k = [left |-> k.left, at |-> k.at, added |-> k.added, last |-> k.last]
       /\ k.added = added /\ k.left = c.left
  BY <1>10
<1>13. Recovering'
  BY <1>1, <1>5, <1>11, <1>12 DEF Recovering
<1>14. /\ vs' = VersionSetOf(vs') /\ vs'.v = vs.v /\ vs'.man = vs.man
       /\ vs'.seek = vs.seek /\ vs'.next = vs.next + 1
  BY <1>1, <1>4, NumberTaken DEF VersionSetOf
<1>15. vs'.next \in Nat /\ vs.next < vs'.next
  BY <1>4, <1>14
<1>16. /\ logs' = logs /\ manifests' = manifests
       /\ curfile' = curfile /\ rd' = rd /\ bg' = bg
  BY <1>1
<1>17. /\ \A m \in DOMAIN tables :
            m # n => m \in DOMAIN tables' /\ tables'[m] = tables[m]
       /\ n \in DOMAIN tables' /\ tables'[n] = E
  BY <1>3, <1>6 DEF With
<1>18. /\ \A f \in Live : f.num # n
       /\ \A i \in 1..Len(manifests[curfile]) :
            \A f \in FilesOf(manifests[curfile][i].v) : f.num # n
  BY <1>1, <1>6, NewNumber
<1>19. \A f : Intact(f) /\ f.num # n => Intact(f)'
  BY <1>17 DEF Intact
<1>20. f0.num = n /\ f0.ents = E
  BY <1>7
<1>21. Sound(f0)'
  BY <1>4, <1>6, <1>15, <1>17, <1>20 DEF Sound, Intact
<1>22. Stored'
  <2>1. ASSUME NEW f \in Live'
        PROVE  Sound(f)'
    <3>1. f \in FilesOf(vs'.v) \/ \E x \in recovery' : f \in x.added
      BY <1>4, <1>16, <2>1, LiveOpening
    <3>2. f \in Live \/ f = f0
      BY <1>5, <1>8, <1>11, <1>12, <1>14, <3>1, InLive
    <3>3. ASSUME f \in Live PROVE Sound(f)'
      <4>1. Sound(f) /\ f.num # n
        BY <1>4, <1>18, <3>3 DEF Stored
      <4>2. f.num < vs'.next
        BY <1>4, <1>15, <4>1 DEF Sound
      <4>. QED
        BY <1>19, <4>1, <4>2 DEF Sound
    <3>. QED
      BY <1>21, <3>2, <3>3
  <2>. QED
    BY <2>1 DEF Stored
<1>23. Descriptors'
  <2>1. Known' = {curfile} /\ Known = {curfile}
    BY <1>1, <1>4, <1>16 DEF Known, Descriptors
  <2>2. Descriptor(curfile) /\ Descriptor(curfile)'
    <3>1. Descriptor(curfile)
      BY <1>4, <2>1 DEF Descriptors
    <3>2. \A i \in 1..Len(manifests[curfile]) :
            \A f \in FilesOf(manifests[curfile][i].v) : Intact(f)'
      BY <1>18, <1>19, <3>1 DEF Descriptor
    <3>. QED
      BY <1>16, <3>1, <3>2 DEF Descriptor
  <2>3. \A i \in 1..Len(manifests[curfile]) :
          manifests[curfile][i].next <= vs'.next
    <3>1. ASSUME NEW i \in 1..Len(manifests[curfile])
          PROVE  manifests[curfile][i].next <= vs'.next
      <4>1. manifests[curfile][i].next \in Nat
              /\ manifests[curfile][i].next <= vs.next
        BY <1>1, <1>4, <2>1, <2>2, <3>1 DEF Descriptors, Descriptor
      <4>. QED
        BY <1>4, <1>15, <4>1
    <3>. QED
      BY <3>1
  <2>4. curfile < vs'.man /\ vs'.man < vs'.next
    BY <1>1, <1>4, <1>14, <1>15 DEF Descriptors, Shape
  <2>5. curfile \in Nat /\ curfile # 0
    BY <1>1, <1>4 DEF Descriptors
  <2>. QED
    BY <1>1, <1>16, <2>1, <2>2, <2>3, <2>4, <2>5 DEF Descriptors, Running
<1>24. /\ DOMAIN logs' \subseteq Nat /\ vs'.man \in Nat
       /\ db' \in {"recovering", "opening"}
       /\ \A p \in vs'.seek : p.level \in Levels /\ p.file \in vs'.v[p.level]
  BY <1>1, <1>4, <1>14, <1>16 DEF Shape
<1>25. UNCHANGED <<mem, imm, lognum, writing, scheduled, bg, failed, pending,
                   manual, rd, told, stops>>
  BY <1>1
<1>. QED
  BY <1>4, <1>13, <1>14, <1>15, <1>22, <1>23, <1>24, <1>25, OpeningFrame

\* Setting four fields of the version set at once
LEMMA VersionRecovered ==
  ASSUME NEW s, s = VersionSetOf(s), NEW x, NEW y, NEW z, NEW u
  PROVE  [s EXCEPT !.v = x, !.log = y, !.next = z, !.last = u] =
           [v |-> x, log |-> y, next |-> z, last |-> u,
            man |-> s.man, after |-> s.after, seek |-> s.seek]
<1>. DEFINE k == [s EXCEPT !.v = x]
            l == [k EXCEPT !.log = y]
            m == [l EXCEPT !.next = z]
<1>1. [s EXCEPT !.v = x, !.log = y, !.next = z, !.last = u] = [m EXCEPT !.last = u]
  BY Zenon
<1>2. k = [v |-> x, log |-> s.log, next |-> s.next, last |-> s.last,
           man |-> s.man, after |-> s.after, seek |-> s.seek]
  BY DEF VersionSetOf
<1>. HIDE DEF k
<1>3. l = [v |-> x, log |-> y, next |-> s.next, last |-> s.last,
           man |-> s.man, after |-> s.after, seek |-> s.seek]
  BY <1>2
<1>. HIDE DEF l
<1>4. m = [v |-> x, log |-> y, next |-> z, last |-> s.last,
           man |-> s.man, after |-> s.after, seek |-> s.seek]
  BY <1>3
<1>. HIDE DEF m
<1>5. [m EXCEPT !.last = u] = [v |-> x, log |-> y, next |-> z, last |-> u,
           man |-> s.man, after |-> s.after, seek |-> s.seek]
  BY <1>4
<1>. QED
  BY <1>1, <1>5, Zenon

LEMMA LogRecoveryKeeps ==
  ASSUME Inv, LogRecovery
  PROVE  Inv'
<1>1. /\ db = "recovering" /\ db' = "opening" /\ recovery' = {}
      /\ logs' = With(logs, vs.next, EmptyLog)
      /\ UNCHANGED <<tables, curfile, mem, imm, writing, scheduled, bg, failed,
                     pending, manual, rd, told, stops>>
  BY DEF LogRecovery
<1>. DEFINE added(c) == {<<0, f>> : f \in c.added}
            ver(c) == ApplyEdit(vs.v, {}, added(c))
            lst(c) == IF vs.last < c.last THEN c.last ELSE vs.last
            state(c) == [v |-> ver(c), log |-> vs.next, next |-> vs.next + 1,
                         last |-> lst(c), after |-> vs.after]
<1>2. PICK c \in recovery :
        /\ manifests' = With(manifests, vs.man, <<state(c)>>)
        /\ vs' = [vs EXCEPT !.v = ver(c), !.log = vs.next, !.next = vs.next + 1,
                            !.last = lst(c)]
  BY Zenon DEF LogRecovery
<1>3. PICK v, last :
        /\ v = ApplyEdit(vs.v, {}, {<<0, f>> : f \in c.added})
        /\ manifests' = With(manifests, vs.man,
             <<[v |-> v, log |-> vs.next, next |-> vs.next + 1, last |-> last,
                after |-> vs.after]>>)
        /\ vs' = [vs EXCEPT !.v = v, !.log = vs.next, !.next = vs.next + 1,
                            !.last = last]
  BY <1>2, Zenon
<1>. HIDE DEF added, ver, lst, state
<1>4. /\ Shape /\ Recovering /\ Stored /\ Descriptors /\ ~Running
      /\ vs = VersionSetOf(vs) /\ vs.next \in Nat /\ vs.man \in Nat
  BY <1>1 DEF Inv, DInv, Shape, Running
<1>5. recovery = {c}
  BY <1>1, <1>2, <1>4 DEF Recovering
<1>6. PICK m, next, n : m = vs.man /\ next = vs.next + 1 /\ n = vs.next
  OBVIOUS
<1>7. PICK new : new = [v |-> v, log |-> n, next |-> next, last |-> last,
                        after |-> vs.after]
  OBVIOUS
<1>8. /\ manifests' = With(manifests, m, <<new>>)
      /\ vs' = [vs EXCEPT !.v = v, !.log = n, !.next = next, !.last = last]
  BY <1>3, <1>6, <1>7
<1>9. vs' = [v |-> v, log |-> n, next |-> next, last |-> last,
             man |-> vs.man, after |-> vs.after, seek |-> vs.seek]
  BY <1>4, <1>8, VersionRecovered, Zenon
<1>10. /\ vs' = VersionSetOf(vs') /\ vs'.v = v /\ vs'.man = m
       /\ vs'.seek = vs.seek /\ vs'.next = next
  BY <1>6, <1>9 DEF VersionSetOf
<1>11. next \in Nat /\ vs.next < next /\ m \in Nat
  BY <1>4, <1>6
<1>12. /\ curfile' = curfile /\ tables' = tables /\ rd' = rd /\ bg' = bg
  BY <1>1
<1>13. /\ manifests'[m] = <<new>> /\ m \in DOMAIN manifests'
       /\ \A x \in DOMAIN manifests :
            x # m => x \in DOMAIN manifests' /\ manifests'[x] = manifests[x]
  BY <1>8 DEF With
<1>14. /\ DOMAIN logs' \subseteq Nat
  <2>1. DOMAIN logs' = DOMAIN logs \cup {vs.next}
    BY <1>1 DEF With
  <2>. QED
    BY <1>4, <2>1 DEF Shape
<1>15. \A f \in FilesOf(v) : f \in Live
  <2>1. ASSUME NEW f \in FilesOf(v)
        PROVE  f \in Live
    <3>1. f \in FilesOf(vs.v) \/ \E a \in {<<0, x>> : x \in c.added} : a[2] = f
      BY <1>3, <2>1, FilesAfterEdit
    <3>. QED
      BY <1>5, <3>1, InLive
  <2>. QED
    BY <2>1
<1>16. \A f \in Live : Intact(f) /\ f.num \in Nat /\ f.num < next
  BY <1>4, <1>11 DEF Stored, Sound
<1>17. Stored'
  <2>1. ASSUME NEW f \in Live'
        PROVE  Sound(f)'
    <3>1. f \in Live
      BY <1>1, <1>4, <1>10, <1>12, <1>15, <2>1, LiveOpening
    <3>. QED
      BY <1>10, <1>12, <1>16, <3>1 DEF Sound, Intact
  <2>. QED
    BY <2>1 DEF Stored
<1>18. /\ curfile \in Nat /\ curfile # 0 /\ curfile < m /\ m < vs.next
       /\ m < next /\ curfile # m
  <2>1. curfile \in Nat /\ curfile # 0 /\ curfile < m /\ m < vs.next
    BY <1>1, <1>4, <1>6 DEF Descriptors
  <2>. QED
    BY <1>4, <1>11, <2>1
<1>19. Known' = {curfile, m} /\ Known = {curfile}
  BY <1>1, <1>10, <1>12, <1>18 DEF Known
<1>20. Descriptor(curfile)' /\ Descriptor(curfile)
       /\ manifests'[curfile] = manifests[curfile]
  <2>1. Descriptor(curfile)
    BY <1>4, <1>19 DEF Descriptors
  <2>2. manifests'[curfile] = manifests[curfile] /\ curfile \in DOMAIN manifests'
    BY <1>13, <1>18, <2>1 DEF Descriptor
  <2>. QED
    BY <1>12, <2>1, <2>2 DEF Descriptor, Intact
<1>21. /\ manifests'[m] \in Seq(ToSet(manifests'[m])) /\ Len(manifests'[m]) = 1
       /\ manifests'[m][1] = new
  BY <1>13, Alone
<1>22. \A i \in 1..Len(manifests'[m]) : i = 1
  BY <1>21
<1>23. new.next = next /\ new.v = v
  BY <1>7
<1>24. Descriptor(m)'
  <2>1. \A f \in FilesOf(v) : Intact(f)' /\ f.num \in Nat /\ f.num < next
    BY <1>12, <1>15, <1>16 DEF Intact
  <2>2. next <= next
    BY <1>11
  <2>3. m \in DOMAIN manifests' /\ Len(manifests'[m]) > 0
    BY <1>13, <1>21
  <2>4. \A i \in 1..Len(manifests'[m]) :
          /\ manifests'[m][i].next \in Nat /\ m < manifests'[m][i].next
    BY <1>11, <1>18, <1>21, <1>22, <1>23
  <2>5. \A i, j \in 1..Len(manifests'[m]) : i <= j =>
          /\ manifests'[m][i].next <= manifests'[m][j].next
          /\ \A f \in FilesOf(manifests'[m][i].v) :
               Intact(f)' /\ f.num \in Nat /\ f.num < manifests'[m][j].next
    BY <1>21, <1>22, <1>23, <2>1, <2>2
  <2>. QED
    BY <1>21, <2>3, <2>4, <2>5 DEF Descriptor
<1>25. Descriptors'
  <2>1. ASSUME NEW x \in Known'
        PROVE  Descriptor(x)'
    <3>1. CASE x = curfile
      <4>1. x = curfile' /\ Descriptor(curfile)'
        BY <1>12, <1>20, <3>1
      <4>. HIDE DEF Descriptor
      <4>. QED
        BY <4>1
    <3>2. CASE x = m
      BY <1>24, <3>2
    <3>. QED
      BY <1>19, <2>1, <3>1, <3>2
  <2>2. \A i \in 1..Len(manifests'[curfile]) : manifests'[curfile][i].next <= next
    <3>1. ASSUME NEW i \in 1..Len(manifests[curfile])
          PROVE  manifests[curfile][i].next <= next
      <4>1. manifests[curfile][i].next \in Nat
              /\ manifests[curfile][i].next <= vs.next
        BY <1>1, <1>4, <1>19, <1>20, <3>1 DEF Descriptors, Descriptor
      <4>. QED
        BY <1>4, <1>11, <4>1
    <3>. QED
      BY <1>20, <3>1
  <2>3. \A i \in 1..Len(manifests'[m]) : manifests'[m][i].next <= next
    BY <1>11, <1>21, <1>22, <1>23
  <2>4. \A x \in Known' : \A i \in 1..Len(manifests'[x]) :
          manifests'[x][i].next <= vs'.next
    BY <1>10, <1>19, <2>2, <2>3
  <2>5. Len(manifests'[vs'.man]) = 1 /\ manifests'[vs'.man][1].v = vs'.v
    BY <1>10, <1>21, <1>23
  <2>6. curfile' \in Nat /\ curfile' # 0 /\ curfile' < vs'.man /\ vs'.man < vs'.next
    BY <1>10, <1>12, <1>18
  <2>. HIDE DEF Known
  <2>. QED
    BY <1>1, <2>1, <2>4, <2>5, <2>6 DEF Descriptors, Running
<1>26. Recovering'
  BY <1>1 DEF Recovering
<1>27. \A p \in vs'.seek : p.level \in Levels /\ p.file \in vs'.v[p.level]
  <2>1. ASSUME NEW p \in vs'.seek
        PROVE  p.level \in Levels /\ p.file \in vs'.v[p.level]
    <3>1. p.level \in Levels /\ p.file \in vs.v[p.level]
      BY <1>4, <1>10, <2>1 DEF Shape
    <3>2. v[p.level] = {f \in vs.v[p.level] : <<p.level, f.num>> \notin {}}
            \cup {a[2] : a \in {x \in {<<0, f>> : f \in c.added} : x[1] = p.level}}
      BY <1>3, <3>1 DEF ApplyEdit
    <3>. QED
      BY <1>10, <3>1, <3>2
  <2>. QED
    BY <2>1
<1>28. /\ db' \in {"recovering", "opening"} /\ vs'.next \in Nat /\ vs'.man \in Nat
       /\ UNCHANGED <<imm, writing, scheduled, bg, failed, pending, manual, rd>>
  BY <1>1, <1>10, <1>11
<1>. QED
  BY <1>4, <1>10, <1>14, <1>17, <1>25, <1>26, <1>27, <1>28, OpeningFrame

LEMMA OpenKeeps ==
  ASSUME Inv, Open
  PROVE  Inv'
<1>1. /\ db = "opening" /\ db' = "open" /\ curfile' = vs.man
      /\ DeleteObsolete(vs, {}, logs, tables, manifests)
      /\ MaybeSchedule(FALSE, imm, manual, vs, failed)
      /\ UNCHANGED <<recovery, mem, imm, lognum, vs, writing, bg, failed, pending,
                     manual, rd, told, stops>>
  BY DEF Open
<1>2. /\ recovery' = recovery /\ imm' = imm /\ vs' = vs /\ bg' = bg /\ rd' = rd
      /\ failed' = failed /\ pending' = pending /\ manual' = manual
      /\ wr' = wr /\ queue' = queue /\ group' = group
  BY <1>1 DEF writing
<1>3. scheduled' \in BOOLEAN
  BY <1>1, Zenon DEF MaybeSchedule
<1>4. /\ Shape /\ Recovering /\ Quiet /\ WInv /\ Stored /\ Kept /\ Descriptors
      /\ ~Running /\ Running'
  BY <1>1 DEF Inv, DInv, Running
<1>5. bg = IdleBg /\ bg.pc = "idle" /\ failed' = failed
  BY <1>2, <1>4 DEF Quiet, IdleBg
<1>6. ~Logging /\ ~(Logging')
  BY <1>2, <1>5 DEF Logging
<1>7. /\ DOMAIN logs' \subseteq DOMAIN logs
      /\ \A n \in DOMAIN manifests :
           n >= vs.man => n \in DOMAIN manifests' /\ manifests'[n] = manifests[n]
      /\ \A f : Intact(f) /\ f \in FilesOf(vs.v) => Intact(f)'
  <2>. HIDE DEF Intact
  <2>. QED
    BY <1>1, Obsolete
<1>8. Thread'
  BY <1>2, <1>4, <1>5, <1>6 DEF Shape, Thread
<1>9. Shape'
  BY <1>1, <1>2, <1>3, <1>4, <1>7, <1>8 DEF Shape
<1>10. Recovering'
  BY <1>1, <1>2, <1>4 DEF Recovering
<1>11. Quiet'
  BY <1>4 DEF Quiet
<1>12. WInv'
  BY <1>2, <1>4, QueueSame
<1>13. recovery = {}
  BY <1>1, <1>4 DEF Recovering
<1>14. Stored'
  <2>1. ASSUME NEW f \in Live'
        PROVE  Sound(f)'
    <3>1. f \in FilesOf(vs.v)
      BY <1>2, <1>4, <1>13, <2>1, LiveOpening
    <3>2. Sound(f)
      BY <1>4, <3>1, InLive DEF Stored
    <3>3. Intact(f)'
      BY <1>7, <3>1, <3>2 DEF Sound
    <3>. QED
      BY <1>2, <3>2, <3>3 DEF Sound
  <2>. QED
    BY <2>1 DEF Stored
<1>15. Kept' /\ Fresh'
  BY <1>2, <1>4, <1>5 DEF Kept, Fresh
<1>16. PICK m : m = vs.man
  OBVIOUS
<1>17. /\ m \in Known /\ m \in Nat /\ m # 0 /\ Descriptor(m)
  <2>1. m \in Known
    BY <1>1, <1>16 DEF Known
  <2>2. m \in Nat /\ m # 0
    BY <1>1, <1>4, <1>16 DEF Descriptors, Shape
  <2>. QED
    BY <1>4, <2>1, <2>2 DEF Descriptors
<1>18. m \in DOMAIN manifests' /\ manifests'[m] = manifests[m]
  BY <1>7, <1>16, <1>17 DEF Descriptor
<1>19. /\ Len(manifests[m]) = 1 /\ manifests[m][1].v = vs.v
       /\ \A i \in 1..Len(manifests[m]) : manifests[m][i].next <= vs.next
  <2>. HIDE DEF Known
  <2>. QED
    BY <1>1, <1>4, <1>16, <1>17 DEF Descriptors
<1>20. \A i \in 1..Len(manifests[m]) : i = 1
  BY <1>19
<1>21. Descriptor(m)'
  <2>1. \A i, j \in 1..Len(manifests[m]) : i <= j =>
          /\ manifests[m][i].next <= manifests[m][j].next
          /\ \A f \in FilesOf(manifests[m][i].v) :
               Intact(f) /\ f.num \in Nat /\ f.num < manifests[m][j].next
    BY <1>17 DEF Descriptor
  <2>2. \A i \in 1..Len(manifests[m]) : \A f \in FilesOf(manifests[m][i].v) :
          Intact(f)'
    <3>1. ASSUME NEW i \in 1..Len(manifests[m]), NEW f \in FilesOf(manifests[m][i].v)
          PROVE  Intact(f)'
      <4>1. f \in FilesOf(vs.v)
        BY <1>19, <1>20, <3>1
      <4>2. Sound(f)
        BY <1>4, <4>1, InLive DEF Stored
      <4>. QED
        BY <1>7, <4>1, <4>2 DEF Sound
    <3>. QED
      BY <3>1
  <2>3. \A i, j \in 1..Len(manifests'[m]) : i <= j =>
          /\ manifests'[m][i].next <= manifests'[m][j].next
          /\ \A f \in FilesOf(manifests'[m][i].v) :
               Intact(f)' /\ f.num \in Nat /\ f.num < manifests'[m][j].next
    BY <1>18, <2>1, <2>2
  <2>. QED
    BY <1>17, <1>18, <2>3 DEF Descriptor
<1>22. Known' = {m} /\ curfile' = m /\ vs'.man = m
  BY <1>1, <1>2, <1>16, <1>17 DEF Known
<1>23. Descriptors'
  BY <1>1, <1>2, <1>17, <1>18, <1>19, <1>21, <1>22 DEF Descriptors
<1>24. Current'
  BY <1>2, <1>6, <1>18, <1>19, <1>22 DEF Current
<1>. QED
  BY <1>9, <1>10, <1>11, <1>12, <1>14, <1>15, <1>23, <1>24 DEF Inv, DInv

LEMMA OpeningKeeps ==
  ASSUME Inv, Opening
  PROVE  Inv'
  BY NewDBKeeps, RecoverKeeps, RecoverTableKeeps, RecoverLogKeeps,
     LogRecoveryKeeps, OpenKeeps DEF Opening

-----------------------------------------------------------------------------
(* The theorems.                                                           *)

\* The invariant holds before the first call.
LEMMA InvAtFirst ==
  ASSUME Init
  PROVE  Inv
<1>1. /\ db = "closed" /\ recovery = {} /\ imm = {} /\ vs = ClosedVs
      /\ queue = <<>> /\ wr = [w \in Writers |-> NoWriter] /\ group = {}
      /\ scheduled = FALSE /\ bg = IdleBg /\ failed = FALSE
      /\ manual = IdleManual /\ rd = [r \in Readers |-> NoReader]
      /\ curfile = 0 /\ logs = <<>>
  BY DEF Init
<1>2. /\ vs = VersionSetOf(vs) /\ vs.next = 2 /\ vs.man = 0
      /\ vs.seek = {} /\ vs.v = EmptyVersion
      /\ bg = ThreadOf(bg) /\ bg.pc = "idle" /\ bg.edit = {} /\ bg.c = {}
  BY <1>1 DEF ClosedVs, VersionSetOf, IdleBg, ThreadOf
<1>3. ~Running /\ ~Logging
  BY <1>1, <1>2 DEF Running, Logging
<1>4. WInv
  <2>1. Queued
    <3>1. /\ queue \in Seq(Writers) /\ Len(queue) = 0
          /\ \A i : i \notin 1..Len(queue)
      BY <1>1
    <3>2. \A w \in Writers : wr[w].st # "waiting"
      BY <1>1 DEF NoWriter
    <3>. QED
      BY <3>1, <3>2 DEF Queued
  <2>2. \A w \in Writers :
          wr[w] = Call(wr[w]) /\ wr[w].pc = "idle" /\ wr[w].st # "waiting"
    BY <1>1 DEF NoWriter, Call
  <2>3. Calls
    <3>1. wr = [w \in Writers |-> wr[w]]
      BY <1>1
    <3>2. wr = [w \in Writers |-> Call(wr[w])]
      BY <2>2, <3>1, Zenon
    <3>. QED
      BY <2>2, <3>2 DEF Calls
  <2>. QED
    BY <1>1, <2>1, <2>3 DEF WInv, Group
<1>5. Shape
  <2>1. rd = [r \in Readers |-> [snap |-> rd[r].snap, get |-> rd[r].get]]
    <3>1. \A r \in Readers : rd[r] = [snap |-> rd[r].snap, get |-> rd[r].get]
      BY <1>1 DEF NoReader
    <3>2. rd = [r \in Readers |-> rd[r]]
      BY <1>1
    <3>. QED
      BY <3>1, <3>2, Zenon
  <2>2. Thread
    BY <1>1, <1>2, <1>3 DEF Thread
  <2>3. scheduled \in BOOLEAN /\ failed \in BOOLEAN
    BY <1>1, Zenon
  <2>4. DOMAIN logs \subseteq Nat
    BY <1>1
  <2>5. \A p \in vs.seek : p.level \in Levels /\ p.file \in vs.v[p.level]
    BY <1>2
  <2>. QED
    BY <1>1, <1>2, <2>1, <2>2, <2>3, <2>4, <2>5 DEF Shape
<1>6. Recovering /\ Quiet
  BY <1>1 DEF Recovering, Quiet
<1>7. Stored
  <2>1. FilesOf(vs.v) = {} /\ \A r \in Readers : rd[r].get = {}
    BY <1>1, <1>2, NoFiles DEF NoReader
  <2>2. \A f : f \notin Live
    BY <1>1, <1>2, <2>1, InLive
  <2>. QED
    BY <2>2 DEF Stored
<1>8. Known = {}
  BY <1>1 DEF Known
<1>9. Descriptors
  BY <1>1, <1>3, <1>8 DEF Descriptors
<1>. QED
  BY <1>2, <1>3, <1>4, <1>5, <1>6, <1>7, <1>9
     DEF Inv, DInv, Kept, Fresh, Current

\* ... and nothing changes in a step of somebody else.
LEMMA StutterKeeps ==
  ASSUME Inv, UNCHANGED vars
  PROVE  Inv'
<1>1. /\ logs' = logs /\ tables' = tables /\ manifests' = manifests
      /\ curfile' = curfile /\ db' = db /\ recovery' = recovery /\ imm' = imm
      /\ vs' = vs /\ queue' = queue /\ wr' = wr /\ group' = group
      /\ scheduled' = scheduled /\ bg' = bg /\ failed' = failed
      /\ pending' = pending /\ manual' = manual /\ rd' = rd
  BY DEF vars
<1>2. Shape /\ Recovering /\ Quiet /\ WInv /\ DInv
  BY DEF Inv
<1>3. WInv'
  BY <1>1, <1>2, QueueSame
<1>4. Shape'
  BY <1>1, <1>2 DEF Shape, Thread, Logging
<1>5. Recovering' /\ Quiet'
  BY <1>1, <1>2 DEF Recovering, Quiet, Running
<1>6. DInv'
  BY <1>1, <1>2, NothingNamed DEF Shape
<1>. QED
  BY <1>3, <1>4, <1>5, <1>6 DEF Inv

LEMMA NextKeeps ==
  ASSUME Inv, Next
  PROVE  Inv'
<1>1. CASE Calling
  BY <1>1, WriteKeeps DEF Calling
<1>2. CASE \E w \in Writers : WriterStep(w) \/ WriterFails(w)
  BY <1>2, WriterKeeps
<1>3. CASE Background \/ BackgroundFails
  BY <1>3, BackgroundKeeps
<1>4. CASE Compacting \/ Reading
  BY <1>4, CompactingKeeps, ReadingKeeps
<1>5. CASE Stopping \/ Opening
  BY <1>5, StoppingKeeps, OpeningKeeps
<1>. QED
  BY <1>1, <1>2, <1>3, <1>4, <1>5 DEF Next

\* The inductive invariant holds in every reachable state.
THEOREM InvIsKept == Spec => []Inv
<1>1. Init => Inv
  BY InvAtFirst
<1>2. Inv /\ [Next]_vars => Inv'
  BY NextKeeps, StutterKeeps
<1>. QED
  BY <1>1, <1>2, PTL DEF Spec

\* The queue of the writers holds who waits, each once; there is at most one
\* old memtable, one group being written and, while the store opens and only
\* then, one recovery (the type invariant of DBImpl's state).
THEOREM TypesAreKept == Spec => []TypeOK
<1>1. Inv => TypeOK
  <2>. SUFFICES ASSUME Inv PROVE TypeOK
    OBVIOUS
  <2>1. Shape /\ Recovering /\ WInv /\ Descriptors
    BY DEF Inv, DInv
  <2>2. Cardinality(imm) <= 1
    <3>1. Cardinality({}) = 0 /\ \A x : Cardinality({x}) = 1
      BY FS_EmptySet, FS_Singleton
    <3>2. Cardinality(imm) = 0 \/ Cardinality(imm) = 1
      BY <2>1, <3>1 DEF Shape
    <3>. QED
      BY <3>2
  <2>3. Cardinality(group) <= 1
    <3>1. Cardinality({}) = 0 /\ \A x : Cardinality({x}) = 1
      BY FS_EmptySet, FS_Singleton
    <3>2. Cardinality(group) = 0 \/ Cardinality(group) = 1
      BY <2>1, <3>1 DEF WInv, Group
    <3>. QED
      BY <3>2
  <2>4. Cardinality(recovery) = IF db = "recovering" THEN 1 ELSE 0
    <3>1. Cardinality({}) = 0 /\ \A x : Cardinality({x}) = 1
      BY FS_EmptySet, FS_Singleton
    <3>. QED
      BY <2>1, <3>1 DEF Recovering
  <2>5. curfile \in DOMAIN manifests \cup {0}
    BY <2>1 DEF Descriptors, Known, Descriptor
  <2>6. ToSet(queue) = {w \in Writers : wr[w].st = "waiting"}
    <3>1. /\ queue \in Seq(Writers)
          /\ \A w \in Writers :
               (wr[w].st = "waiting") <=> (\E i \in 1..Len(queue) : queue[i] = w)
      BY <2>1 DEF WInv, Queued
    <3>2. DOMAIN queue = 1..Len(queue)
          /\ \A i \in 1..Len(queue) : queue[i] \in Writers
      BY <3>1
    <3>. QED
      BY <3>1, <3>2 DEF ToSet
  <2>7. \A w \in Writers :
          wr[w].pc \in {"idle", "asleep", "room", "bgwait", "logging",
                        "inserting"}
    BY <2>1 DEF WInv, Calls
  <2>8. /\ db \in {"closed", "recovering", "opening", "open", "closing"}
        /\ scheduled \in BOOLEAN /\ failed \in BOOLEAN
        /\ bg.pc \in {"idle", "build", "flushlog", "merge", "mergelog", "movelog"}
    BY <2>1 DEF Shape, Thread
  <2>. QED
    BY <2>2, <2>3, <2>4, <2>5, <2>6, <2>7, <2>8 DEF TypeOK
<1>. QED
  BY <1>1, InvIsKept, PTL

\* No table of the current version, of a version that is read, of the merge
\* or of the recovery under way is deleted or written over, whatever steps
\* fail and in whatever order the threads go on (DeleteObsoleteFiles,
\* pending_outputs_, NewFileNumber).
THEOREM TablesAreIntact == Spec => []TablesIntact
<1>1. Inv => TablesIntact
  <2>. SUFFICES ASSUME Inv PROVE TablesIntact
    OBVIOUS
  <2>1. \A f \in Live : Intact(f)
    BY DEF Inv, DInv, Stored, Sound
  <2>2. /\ \A f \in FilesOf(vs.v) : Intact(f)
        /\ \A r \in Readers : \A g \in rd[r].get :
             \A f \in FilesOf(g.v) : Intact(f)
        /\ \A c \in recovery : \A f \in c.added : Intact(f)
    BY <2>1, InLive
  <2>3. \A c \in bg.c : \A f \in FilesOf(c.base) \cup ToSet(c.done) : Intact(f)
    BY <2>1, InLive
  <2>. QED
    BY <2>2, <2>3 DEF TablesIntact
<1>. QED
  BY <1>1, InvIsKept, PTL

\* Wherever the store stops, each state its descriptor may be read back as
\* names tables that are there: Recover's check for missing files succeeds
\* (LogAndApply, SetCurrentFile, DeleteObsoleteFiles).
THEOREM StoreReopens == Spec => []Reopens
<1>1. Inv => Reopens
  <2>. SUFFICES ASSUME Inv, curfile # 0, NEW i \in DOMAIN manifests[curfile],
                       NEW f \in FilesOf(manifests[curfile][i].v)
                PROVE  Intact(f)
    BY DEF Reopens
  <2>1. Descriptors
    BY DEF Inv, DInv
  <2>2. curfile \in Known
    BY DEF Known
  <2>3. Descriptor(curfile)
    BY <2>1, <2>2 DEF Descriptors
  <2>4. manifests[curfile] \in Seq(ToSet(manifests[curfile]))
    BY <2>3 DEF Descriptor
  <2>5. i \in 1..Len(manifests[curfile]) /\ Len(manifests[curfile]) \in Nat
    BY <2>4
  <2>6. i <= i
    BY <2>5
  <2>. QED
    BY <2>3, <2>5, <2>6 DEF Descriptor
<1>. QED
  BY <1>1, InvIsKept, PTL
=============================================================================
