------------------------- MODULE Durability_proofs --------------------------
(***************************************************************************)
(* Proofs about module LevelDB, continued: what the log files, the         *)
(* descriptor and the memtables hold of the writes, so that a stop at any  *)
(* step keeps what was promised.  The store implements module KVStore when *)
(* a log file is never torn in the middle (Untorn).                        *)
(***************************************************************************)
EXTENDS LevelDB_proofs

-----------------------------------------------------------------------------
(* The inductive invariant.                                                *)

\* No append to a log leaves a part of a record.
Untorn == "log" \notin Faults

\* The groups that reads see, or that a stop may bring back
Taken == applied \cup limbo

\* A group is in its log; it is so in the part that no stop can cut off.
InLog(r) ==
  /\ r.log \in DOMAIN logs
  /\ \E i \in 1..Len(logs[r.log].recs) : logs[r.log].recs[i] = r.ents
InSync(r) ==
  /\ r.log \in DOMAIN logs
  /\ \E i \in 1..logs[r.log].synced : logs[r.log].recs[i] = r.ents

\* The states the descriptor may be read back as, and the last of them
States == {manifests[curfile][i] : i \in 1..Len(manifests[curfile])}
LastState == ReadState(manifests[curfile])
\* The logs are read from one of these numbers on.
Points == {st.log : st \in States} \cup {n \in {vs.log} : Running}

\* The group whose record is written while its writer has no answer yet
FrontCall == wr[queue[1]]
InHand ==
  {[ents |-> g.ents, log |-> lognum] :
     g \in {x \in group : FrontCall.pc = "inserting"}}

\* The logs: whole records of numbered entries
LogRight(l) ==
  /\ l = [recs |-> l.recs, synced |-> l.synced, torn |-> FALSE]
  /\ l.recs \in Seq(ToSet(l.recs)) /\ l.synced \in 0..Len(l.recs)
Numbers(b) ==
  \A n \in DOMAIN logs : \A i \in 1..Len(logs[n].recs) :
    \A e \in logs[n].recs[i] : e.s \in Nat /\ e.s <= b
Logs == (\A n \in DOMAIN logs : LogRight(logs[n])) /\ \E b \in Nat : Numbers(b)

\* The groups
Grouped ==
  \A r \in Taken :
    /\ r = [ents |-> r.ents, log |-> r.log] /\ r.log \in Nat
    /\ \A e \in r.ents : e.s \in Nat

\* The descriptor's last number covers the logs it has passed.
Marks ==
  curfile # 0 =>
    \A st \in States :
      /\ st.log \in Nat /\ st.last \in Nat /\ st.log < st.next
      /\ \A r \in Taken : r.log < st.log => \A e \in r.ents : e.s <= st.last

\* A group is in its log until the descriptor has passed the log.
Present ==
  /\ curfile = 0 => applied = {} /\ limbo = {} /\ durable = {}
  /\ curfile # 0 /\ ~Running =>
       \A r \in Taken : r.log < LastState.log \/ InLog(r)
  /\ Running => \A r \in Taken : \A n \in Points : r.log < n \/ InLog(r)

\* One that was synced is safe whatever is cut off.
Safe(r) == \A n \in Points : r.log < n \/ InSync(r)
Promised ==
  curfile # 0 => \A g \in durable : \E r \in applied : r.ents = g /\ Safe(r)

\* While the store runs: the numbers of logs and entries
Active ==
  Running =>
    /\ lognum \in DOMAIN logs /\ lognum < vs.next
    /\ vs.log \in Nat /\ vs.last \in Nat
    /\ \A n \in DOMAIN logs : n < vs.next
    /\ \A n \in Points : n <= lognum
    /\ \A r \in Taken : r.log <= lognum
    /\ \A r \in Taken \ InHand : \A e \in r.ents : e.s <= vs.last

\* ... the edit under way
Edits ==
  /\ Logging => \A e \in bg.edit : LastState.log = e.log
  /\ bg.pc \in {"build", "flushlog"} => imm # {}
  /\ bg.pc = "flushlog" =>
       \A e \in bg.edit :
         /\ e.log = lognum
         /\ \A E \in imm :
              E # {} => \E a \in e.added : a[1] \in Levels /\ a[2].ents = E
  /\ bg.pc \in {"mergelog", "movelog"} => \A e \in bg.edit : e.log = vs.log

\* ... the memtables
Memory ==
  Running =>
    \A r \in applied :
      /\ r.log = lognum => r.ents \subseteq mem
      /\ vs.log <= r.log /\ r.log < lognum => \E E \in imm : r.ents \subseteq E

\* ... the batches and the group that is written
Batches == \A w \in Writers : wr[w].batch \in Seq(ToSet(wr[w].batch))
Updates(n) == FlattenSeq([i \in 1..n |-> wr[queue[i]].batch])
GroupRight(g) ==
  /\ g.last \in Nat /\ vs.last <= g.last
  /\ g.ents # {}
  /\ \A e \in g.ents : e.s \in Nat /\ vs.last < e.s /\ e.s <= g.last
  /\ g.ents = Numbered(Updates(g.n), vs.last)
  /\ FrontCall.batch # <<>>
  /\ \A i \in 1..g.n : wr[queue[i]].sync => FrontCall.sync
  /\ FrontCall.pc = "logging" => g.ok /\ ~g.bad
  /\ FrontCall.pc = "inserting" =>
       /\ (g.ok /\ ~g.bad) \/ (~g.ok /\ g.bad)
       /\ \A r \in InHand : r \in limbo /\ (g.ok /\ FrontCall.sync => InSync(r))
Writes == Batches /\ \A g \in group : GroupRight(g)

\* While the store is opened: what has been read of the logs
ReadIn(c, E) == \A e \in E : e.s <= c.last /\ \E f \in c.added : e \in f.ents
Replaying ==
  db = "recovering" =>
    /\ vs.log = LastState.log /\ vs.last = LastState.last
    /\ \A c \in recovery :
         /\ c.left \subseteq {n \in DOMAIN logs : n >= vs.log}
         /\ c.at \in Nat /\ c.last \in Nat
         /\ \A n \in DOMAIN logs : n < vs.next \/ n \in c.left
         /\ \A n \in DOMAIN logs : n >= vs.log =>
              \A i \in 1..Len(logs[n].recs) :
                \/ ReadIn(c, logs[n].recs[i])
                \/ n \in c.left /\ i > c.at
                \/ n \in c.left /\ \E m \in c.left : m < n
\* ... what goes to the next descriptor
Settling ==
  db = "opening" =>
    /\ vs.log = lognum /\ lognum \in DOMAIN logs /\ lognum \in Nat
    /\ vs.last \in Nat /\ lognum < vs.next
    /\ manifests[vs.man][1].log = lognum /\ manifests[vs.man][1].last = vs.last
    /\ lognum < manifests[vs.man][1].next
    /\ \A n \in DOMAIN logs : n < vs.next
    /\ \A r \in applied : r.log < lognum /\ \A e \in r.ents : e.s <= vs.last
Calm == ~Running => limbo = {}

Disk == Logs /\ Grouped /\ Marks /\ Present /\ Promised
Work == Active /\ Edits /\ Memory /\ Writes
Start == Replaying /\ Settling /\ Calm
Durability == Untorn /\ Inv /\ Disk /\ Work /\ Start

\* An entry that was answered leaves its log for a table: when the number of
\* the first log to read passes a group's log, the version holds the group.
Passing ==
  db # "closed" =>
    \A r \in applied : vs.log <= r.log /\ r.log < vs'.log =>
      \A e \in r.ents : \E f \in FilesOf(vs'.v) : e \in f.ents
PassedIsStored == [][Passing]_vars

-----------------------------------------------------------------------------
(* Numbers and sequences.                                                  *)

\* A set of numbers with a bound has a greatest one.
LEMMA Greatest ==
  ASSUME NEW S \in SUBSET Nat, S # {}, NEW b \in Nat, \A n \in S : n <= b
  PROVE  /\ Max(S) \in S /\ Max(S) \in Nat
         /\ \A n \in S : n <= Max(S)
<1>. DEFINE T == {b - n : n \in S}
<1>1. T \in SUBSET Nat /\ T # {}
  <2>1. \A n \in S : b - n \in Nat
    OBVIOUS
  <2>. QED
    BY <2>1
<1>2. PICK d \in T : \A x \in T : d <= x
  BY <1>1, Least
<1>3. PICK m \in S : d = b - m
  BY <1>2
<1>4. \A n \in S : m >= n
  <2>1. ASSUME NEW n \in S PROVE m >= n
    <3>1. b - m <= b - n
      BY <1>2, <1>3
    <3>. QED
      BY <3>1
  <2>. QED
    BY <2>1
<1>. DEFINE P(x) == x \in S /\ \A n \in S : x >= n
<1>5. P(m)
  BY <1>4
<1>6. P(CHOOSE x : P(x))
  <2>. HIDE DEF P
  <2>. QED
    BY <1>5, Zenon
<1>7. Max(S) \in S /\ \A n \in S : Max(S) >= n
  <2>1. \E x \in S : \A n \in S : x >= n
    BY <1>4
  <2>. QED
    BY <2>1, Zenon DEF Max
<1>. QED
  BY <1>7

\* Batches one after the other: FlattenSeq
Chain(s, n, f) ==
  f = [i \in 1..n |-> IF i = 1 THEN s[i] ELSE f[i - 1] \o s[i]]
LEMMA ChainExists ==
  ASSUME NEW s, NEW n \in Nat
  PROVE  \E f : Chain(s, n, f)
<1>. DEFINE Bad == {k \in Nat : ~\E f : Chain(s, k, f)}
<1>1. SUFFICES ASSUME Bad # {} PROVE FALSE
  OBVIOUS
<1>2. PICK k \in Bad : \A m \in Bad : k <= m
  BY <1>1, Least
<1>3. k # 0
  <2>1. Chain(s, 0, <<>>)
    BY DEF Chain
  <2>. QED
    BY <1>2, <2>1
<1>4. k - 1 \in Nat /\ k - 1 \notin Bad
  BY <1>2, <1>3
<1>5. PICK f : Chain(s, k - 1, f)
  BY <1>4
<1>. DEFINE g == [i \in 1..k |-> IF i = k THEN (IF i = 1 THEN s[i] ELSE f[i - 1] \o s[i])
                                  ELSE f[i]]
<1>6. \A i \in 1..k : g[i] = IF i = 1 THEN s[i] ELSE g[i - 1] \o s[i]
  <2>1. ASSUME NEW i \in 1..k
        PROVE  g[i] = IF i = 1 THEN s[i] ELSE g[i - 1] \o s[i]
    <3>1. CASE i = k
      <4>1. i # 1 => g[i - 1] = f[i - 1]
        BY <1>4, <3>1
      <4>. QED
        BY <3>1, <4>1
    <3>2. CASE i # k
      <4>1. i \in 1..(k - 1) /\ g[i] = f[i] /\ (i # 1 => g[i - 1] = f[i - 1])
        BY <1>4, <3>2
      <4>2. f[i] = IF i = 1 THEN s[i] ELSE f[i - 1] \o s[i]
        BY <1>5, <4>1 DEF Chain
      <4>. QED
        BY <4>1, <4>2
    <3>. QED
      BY <3>1, <3>2
  <2>. QED
    BY <2>1
<1>7. g = [i \in 1..k |-> g[i]]
  OBVIOUS
<1>. HIDE DEF g
<1>8. Chain(s, k, g)
  BY <1>6, <1>7 DEF Chain
<1>. QED
  BY <1>2, <1>8

LEMMA FlattenIsSeq ==
  ASSUME NEW T, NEW n \in Nat \ {0}, NEW s, s = [i \in 1..n |-> s[i]],
         \A i \in 1..n : s[i] \in Seq(T)
  PROVE  FlattenSeq(s) \in Seq(T) /\ Len(FlattenSeq(s)) >= Len(s[1])
<1>1. Len(s) = n /\ Len(s) # 0
  BY MapIsSeq
<1>. DEFINE P(f) == f = [i \in 1..Len(s) |->
                          IF i = 1 THEN s[i] ELSE f[i - 1] \o s[i]]
<1>2. \E f : P(f)
  BY <1>1, ChainExists DEF Chain
<1>3. P(CHOOSE f : P(f))
  <2>. HIDE DEF P
  <2>. QED
    BY <1>2, Zenon
<1>4. FlattenSeq(s) = (CHOOSE f : P(f))[Len(s)]
  BY <1>1, Zenon DEF FlattenSeq
<1>5. PICK f : P(f) /\ FlattenSeq(s) = f[n]
  BY <1>1, <1>3, <1>4, Zenon
<1>6. \A i \in 1..n : f[i] = IF i = 1 THEN s[i] ELSE f[i - 1] \o s[i]
  BY <1>1, <1>5
<1>. DEFINE Ok(i) == f[i] \in Seq(T) /\ Len(f[i]) >= Len(s[1])
            Bad == {i \in 1..n : ~Ok(i)}
<1>7. Bad = {}
  <2>1. SUFFICES ASSUME Bad # {} PROVE FALSE
    OBVIOUS
  <2>2. PICK k \in Bad : \A m \in Bad : k <= m
    <3>1. Bad \in SUBSET Nat
      OBVIOUS
    <3>. HIDE DEF Bad
    <3>. QED
      BY <2>1, <3>1, Least
  <2>3. CASE k = 1
    <3>1. f[k] = s[1] /\ s[1] \in Seq(T) /\ Len(s[1]) \in Nat
      BY <1>6, <2>3
    <3>. QED
      BY <2>2, <3>1
  <2>4. CASE k # 1
    <3>0. k \in 1..n /\ k - 1 \in 1..n /\ k \in Nat
      BY <2>4
    <3>1. k - 1 \in 1..n /\ k - 1 \notin Bad /\ k \in 1..n
      <4>. HIDE DEF Bad
      <4>. QED
        BY <2>2, <3>0
    <3>2. f[k - 1] \in Seq(T) /\ Len(f[k - 1]) >= Len(s[1])
      BY <3>1
    <3>3. f[k] = f[k - 1] \o s[k] /\ s[k] \in Seq(T)
      BY <1>6, <2>4, <3>1
    <3>4. f[k] \in Seq(T) /\ Len(f[k]) = Len(f[k - 1]) + Len(s[k])
      BY <3>2, <3>3
    <3>5. Len(s[1]) \in Nat /\ Len(s[k]) \in Nat /\ Len(f[k - 1]) \in Nat
      BY <3>1, <3>2, <3>3
    <3>6. Len(f[k]) >= Len(s[1])
      BY <3>2, <3>4, <3>5
    <3>. QED
      BY <2>2, <3>4, <3>6
  <2>. QED
    BY <2>3, <2>4
<1>8. n \in 1..n
  OBVIOUS
<1>. QED
  BY <1>5, <1>7, <1>8

-----------------------------------------------------------------------------
(* What stays when a step does not touch it.                               *)

\* The states of the descriptor
LEMMA StatesRead ==
  ASSUME Inv, curfile # 0
  PROVE  /\ Descriptor(curfile) /\ Len(manifests[curfile]) \in Nat
         /\ Len(manifests[curfile]) > 0
         /\ LastState = manifests[curfile][Len(manifests[curfile])]
         /\ LastState \in States
         /\ \A st \in States : st.next \in Nat
<1>1. curfile \in Known
  BY DEF Known
<1>2. Descriptor(curfile)
  <2>. HIDE DEF Known
  <2>. QED
    BY <1>1 DEF Inv, DInv, Descriptors
<1>3. /\ Len(manifests[curfile]) \in Nat /\ Len(manifests[curfile]) > 0
      /\ manifests[curfile] \in Seq(ToSet(manifests[curfile]))
  BY <1>2 DEF Descriptor
<1>4. Len(manifests[curfile]) \in 1..Len(manifests[curfile])
  BY <1>3
<1>. QED
  BY <1>2, <1>3, <1>4 DEF LastState, States, ReadState, Descriptor

LEMMA RunningStates ==
  ASSUME Inv, Running
  PROVE  /\ curfile # 0 /\ curfile = vs.man /\ curfile \in DOMAIN manifests
         /\ LastState \in States /\ vs.log \in Points
         /\ \A st \in States : st.log \in Points /\ st.next <= vs.next
         /\ \A n \in Points : n = vs.log \/ \E st \in States : n = st.log
<1>1. /\ curfile # 0 /\ curfile = vs.man /\ Descriptor(vs.man)
      /\ \A i \in 1..Len(manifests[vs.man]) :
           manifests[vs.man][i].next <= vs.next
  BY InUse
<1>2. \A st \in States : st.next <= vs.next
  BY <1>1 DEF States
<1>. QED
  BY <1>1, <1>2, StatesRead DEF Points, Descriptor

\* While the store runs, the parts about opening it say nothing.
LEMMA NotOpening ==
  ASSUME Running
  PROVE  Start
  BY DEF Running, Start, Replaying, Settling, Calm

\* A step that leaves logs, descriptor, memtables and groups alone
LEMMA Steady ==
  ASSUME Durability, Running, Running',
         logs' = logs, manifests' = manifests, curfile' = curfile,
         mem' = mem, imm' = imm, lognum' = lognum,
         applied' = applied, limbo' = limbo, durable' = durable,
         vs'.log = vs.log, vs'.last = vs.last, vs.next <= vs'.next,
         vs'.next \in Nat, InHand' = InHand
  PROVE  Disk' /\ Active' /\ Memory' /\ Start'
<1>1. Disk /\ Active /\ Memory
  BY DEF Durability, Work
<1>2. Taken' = Taken /\ States' = States
  BY DEF Taken, States
<1>3. Points' = Points
  BY <1>2 DEF Points
<1>4. \A r : (InLog(r)' <=> InLog(r)) /\ (InSync(r)' <=> InSync(r))
  BY DEF InLog, InSync
<1>5. Logs'
  <2>1. Logs
    BY <1>1 DEF Disk
  <2>2. \A n \in DOMAIN logs' : LogRight(logs'[n])
    BY <2>1 DEF Logs
  <2>3. \A b : Numbers(b)' <=> Numbers(b)
    BY DEF Numbers
  <2>. QED
    BY <2>1, <2>2, <2>3 DEF Logs
<1>6. Grouped' /\ Marks'
  BY <1>1, <1>2 DEF Disk, Grouped, Marks
<1>7. Present'
  <2>1. curfile # 0 /\ Present
    BY <1>1, RunningStates DEF Durability, Disk
  <2>. QED
    BY <1>2, <1>3, <1>4, <2>1 DEF Present
<1>8. Promised'
  <2>1. \A r : Safe(r)' <=> Safe(r)
    BY <1>3, <1>4 DEF Safe
  <2>. QED
    BY <1>1, <2>1 DEF Disk, Promised
<1>9. Active'
  <2>1. DOMAIN logs \subseteq Nat /\ lognum \in DOMAIN logs /\ vs.next \in Nat
    BY <1>1 DEF Durability, Inv, Shape, Active
  <2>2. \A n \in DOMAIN logs : n < vs'.next
    BY <1>1, <2>1 DEF Active
  <2>. QED
    BY <1>1, <1>2, <1>3, <2>1, <2>2 DEF Active
<1>10. Memory'
  BY <1>1 DEF Memory
<1>. QED
  BY <1>5, <1>6, <1>7, <1>8, <1>9, <1>10, NotOpening DEF Disk, Start, Running,
     Replaying, Settling, Calm

\* The group is right as long as the calls in it stay as they are.
LEMMA WritesStay ==
  ASSUME Inv, Writes, Batches', group' = group, lognum' = lognum,
         vs'.last = vs.last, limbo \subseteq limbo',
         \A i \in 1..Len(queue) :
           /\ queue'[i] = queue[i]
           /\ wr'[queue[i]].batch = wr[queue[i]].batch
           /\ wr'[queue[i]].sync = wr[queue[i]].sync,
         group # {} => wr'[queue[1]].pc = wr[queue[1]].pc,
         \A r \in InHand : InSync(r) => InSync(r)'
  PROVE  Writes' /\ InHand' = InHand
<1>1. CASE group = {}
  BY <1>1 DEF Writes, InHand
<1>2. CASE group # {}
  <2>1. PICK g : /\ group = {g} /\ g.n \in 1..Len(queue) /\ Len(queue) > 0
                 /\ g = BatchesOf(g)
    BY <1>2 DEF Inv, WInv, Group
  <2>2. queue \in Seq(Writers)
    BY DEF Inv, WInv, Queued
  <2>3. 1 \in 1..Len(queue)
    BY <2>1, <2>2
  <2>4. /\ FrontCall'.pc = FrontCall.pc /\ FrontCall'.batch = FrontCall.batch
        /\ FrontCall'.sync = FrontCall.sync
    BY <1>2, <2>3 DEF FrontCall
  <2>5. InHand' = InHand
    BY <2>4 DEF InHand
  <2>6. \A i \in 1..g.n : i \in 1..Len(queue)
    BY <2>1, <2>2
  <2>7. Updates(g.n)' = Updates(g.n)
    <3>1. [i \in 1..g.n |-> wr'[queue'[i]].batch] = [i \in 1..g.n |-> wr[queue[i]].batch]
      BY <2>6
    <3>. QED
      BY <3>1 DEF Updates
  <2>8. GroupRight(g)
    BY <2>1 DEF Writes
  <2>9. \A i \in 1..g.n : wr'[queue'[i]].sync => FrontCall'.sync
    BY <2>4, <2>6, <2>8 DEF GroupRight
  <2>10. \A U, n : Numbered(U, n)' = Numbered(U, n)
    BY DEF Numbered
  <2>11. g.ents = Numbered(Updates(g.n)', vs'.last)
    BY <2>7, <2>8 DEF GroupRight
  <2>12. FrontCall'.pc = "inserting" =>
           /\ (g.ok /\ ~g.bad) \/ (~g.ok /\ g.bad)
           /\ \A r \in InHand' : r \in limbo' /\ (g.ok /\ FrontCall'.sync => InSync(r)')
    BY <2>4, <2>5, <2>8 DEF GroupRight
  <2>13. /\ g.last \in Nat /\ vs'.last <= g.last
         /\ g.ents # {}
         /\ \A e \in g.ents : e.s \in Nat /\ vs'.last < e.s /\ e.s <= g.last
         /\ FrontCall'.batch # <<>>
         /\ FrontCall'.pc = "logging" => g.ok /\ ~g.bad
    BY <2>4, <2>8 DEF GroupRight
  <2>14. GroupRight(g)'
    BY <2>9, <2>11, <2>12, <2>13 DEF GroupRight
  <2>. QED
    BY <2>1, <2>5, <2>14 DEF Writes
<1>. QED
  BY <1>1, <1>2

\* Waking who waits changes no batch.
LEMMA WokenSame ==
  ASSUME Inv, wr' = wr \/ wr' = Woken(wr)
  PROVE  /\ \A w \in Writers : wr'[w].batch = wr[w].batch /\ wr'[w].sync = wr[w].sync
                               /\ wr'[w].st = wr[w].st
         /\ \A w \in Writers : wr[w].pc # "bgwait" => wr'[w].pc = wr[w].pc
<1>1. CASE wr' = wr
  BY <1>1
<1>2. CASE wr' = Woken(wr)
  <2>1. \A w \in Writers : wr[w] = Call(wr[w])
    BY Zenon DEF Inv, WInv, Calls
  <2>2. \A w \in Writers :
          wr'[w] = IF wr[w].pc = "bgwait" THEN [wr[w] EXCEPT !.pc = "room"] ELSE wr[w]
    BY <1>2 DEF Woken
  <2>3. ASSUME NEW w \in Writers
        PROVE  /\ [wr[w] EXCEPT !.pc = "room"].batch = wr[w].batch
               /\ [wr[w] EXCEPT !.pc = "room"].sync = wr[w].sync
               /\ [wr[w] EXCEPT !.pc = "room"].st = wr[w].st
    BY <2>1 DEF Call
  <2>. QED
    BY <2>2, <2>3
<1>. QED
  BY <1>1, <1>2

\* A step of another thread: the writers are at most woken.
LEMMA OthersWrite ==
  ASSUME Inv, Writes, wr' = wr \/ wr' = Woken(wr), queue' = queue,
         group' = group, lognum' = lognum, vs'.last = vs.last, limbo' = limbo,
         \A r \in InHand : InSync(r) => InSync(r)'
  PROVE  Writes' /\ InHand' = InHand
<1>1. /\ \A w \in Writers : wr'[w].batch = wr[w].batch /\ wr'[w].sync = wr[w].sync
      /\ \A w \in Writers : wr[w].pc # "bgwait" => wr'[w].pc = wr[w].pc
  BY WokenSame
<1>2. queue \in Seq(Writers)
  BY DEF Inv, WInv, Queued
<1>3. \A i \in 1..Len(queue) : queue[i] \in Writers
  BY <1>2
<1>4. Batches'
  BY <1>1 DEF Writes, Batches
<1>5. group # {} => wr'[queue[1]].pc = wr[queue[1]].pc
  <2>1. group # {} => /\ queue[1] \in Writers
                      /\ wr[queue[1]].pc \in {"logging", "inserting"}
    BY <1>2 DEF Inv, WInv, Group
  <2>. QED
    BY <1>1, <2>1
<1>. QED
  BY <1>1, <1>3, <1>4, <1>5, WritesStay

-----------------------------------------------------------------------------
(* The steps that write no log, no descriptor and no memtable.             *)

\* The log number and the last number stay when other fields are set.
LEMMA CountersStay ==
  ASSUME NEW s, s = VersionSetOf(s), NEW x
  PROVE  /\ [s EXCEPT !.next = x].log = s.log /\ [s EXCEPT !.next = x].last = s.last
         /\ [s EXCEPT !.seek = x].log = s.log /\ [s EXCEPT !.seek = x].last = s.last
         /\ [s EXCEPT !.seek = x].next = s.next
  BY DEF VersionSetOf
LEMMA PointerApart ==
  ASSUME NEW s, s = VersionSetOf(s), NEW l, NEW x,
         NEW t, t = [s EXCEPT !.after[l] = x]
  PROVE  t.log = s.log /\ t.last = s.last
<1>. DEFINE a == [s.after EXCEPT ![l] = x]
<1>1. t = [s EXCEPT !.after = a]
  BY Zenon
<1>. HIDE DEF a
<1>. QED
  BY <1>1 DEF VersionSetOf

LEMMA QuietStep ==
  ASSUME Durability, Inv', Running, Running',
         logs' = logs, manifests' = manifests, curfile' = curfile,
         mem' = mem, imm' = imm, lognum' = lognum, UNCHANGED told,
         queue' = queue, group' = group, wr' = wr \/ wr' = Woken(wr),
         vs'.log = vs.log, vs'.last = vs.last, vs.next <= vs'.next,
         \/ bg' = bg \/ bg'.pc \in {"idle", "merge"}
         \/ bg'.pc = "build" /\ imm # {}
  PROVE  Durability'
<1>1. Untorn /\ Inv /\ Writes /\ Edits
  BY DEF Durability, Work
<1>2. applied' = applied /\ limbo' = limbo /\ durable' = durable
  BY DEF told
<1>3. \A r \in InHand : InSync(r) => InSync(r)'
  BY DEF InSync
<1>4. Writes' /\ InHand' = InHand
  BY <1>1, <1>2, <1>3, OthersWrite
<1>5. vs'.next \in Nat
  BY DEF Inv, Shape
<1>6. Disk' /\ Active' /\ Memory' /\ Start'
  BY <1>2, <1>4, <1>5, Steady
<1>7. Edits'
  <2>1. LastState' = LastState
    BY DEF LastState, ReadState
  <2>. QED
    BY <1>1, <2>1 DEF Edits, Logging
<1>8. Untorn'
  BY <1>1 DEF Untorn
<1>. QED
  BY <1>4, <1>6, <1>7, <1>8 DEF Durability, Work

LEMMA ReadingLasts ==
  ASSUME Durability, Inv', Reading
  PROVE  Durability'
<1>1. Shape /\ Quiet /\ vs = VersionSetOf(vs) /\ vs.next \in Nat
  BY DEF Durability, Inv, Shape
<1>2. PICK r \in Readers : \/ GetSnapshot(r) \/ ReleaseSnapshot(r) \/ StartGet(r)
                           \/ \E k \in Keys : EndGet(r, k)
  BY DEF Reading
<1>3. Running
  <2>1. ~Running => rd[r] = NoReader
    BY <1>1 DEF Quiet
  <2>2. ~Running => rd[r].snap = {} /\ rd[r].get = {}
    BY <2>1 DEF NoReader
  <2>. QED
    BY <1>2, <2>2 DEF GetSnapshot, ReleaseSnapshot, StartGet, EndGet, Running
<1>4. /\ UNCHANGED <<disk, life, mem, imm, lognum, writing, bg, told>>
      /\ vs' = vs \/ \E worn : vs' = [vs EXCEPT !.seek = worn]
  BY <1>2, Zenon DEF GetSnapshot, ReleaseSnapshot, StartGet, EndGet
<1>5. vs'.log = vs.log /\ vs'.last = vs.last /\ vs'.next = vs.next
  <2>1. CASE vs' = vs
    BY <2>1
  <2>2. CASE \E worn : vs' = [vs EXCEPT !.seek = worn]
    <3>1. PICK worn : vs' = [vs EXCEPT !.seek = worn]
      BY <2>2
    <3>. QED
      BY <1>1, <3>1, CountersStay
  <2>. QED
    BY <1>4, <2>1, <2>2
<1>6. Running'
  BY <1>3, <1>4 DEF life, Running
<1>. QED
  BY <1>1, <1>3, <1>4, <1>5, <1>6, QuietStep DEF disk, writing

LEMMA CompactingLasts ==
  ASSUME Durability, Inv', Compacting
  PROVE  Durability'
<1>1. Shape /\ Quiet /\ vs.next \in Nat
  BY DEF Durability, Inv, Shape
<1>2. /\ UNCHANGED <<disk, life, mem, imm, lognum, vs, writing, bg, told>>
      /\ Running
  BY <1>1 DEF Compacting, CompactRange, ManualLoop, Running, Quiet, IdleManual
<1>3. Running'
  BY <1>2 DEF life, Running
<1>. QED
  BY <1>1, <1>2, <1>3, QuietStep DEF disk, writing

LEMMA CloseLasts ==
  ASSUME Durability, Inv', Close
  PROVE  Durability'
<1>1. vs.next \in Nat
  BY DEF Durability, Inv, Shape
<1>2. /\ UNCHANGED <<disk, mem, imm, lognum, vs, writing, bg, told>>
      /\ Running /\ Running'
  BY DEF Close, Running
<1>. QED
  BY <1>1, <1>2, QuietStep DEF disk, writing

\* The background thread, before it writes the descriptor
LEMMA ThreadLasts ==
  ASSUME Durability, Inv',
         \/ SkipWork \/ StartFlush \/ BuildFails \/ MergeFails
         \/ StartMerge \/ StartManual \/ MergeOutput
  PROVE  Durability'
<1>1. /\ Inv /\ Shape /\ vs = VersionSetOf(vs) /\ vs.next \in Nat
      /\ bg = ThreadOf(bg)
  BY DEF Durability, Inv, Shape, Thread
<1>2. /\ Running /\ queue' = queue /\ group' = group
      /\ logs' = logs /\ manifests' = manifests /\ curfile' = curfile
      /\ db' = db /\ mem' = mem /\ imm' = imm /\ lognum' = lognum
      /\ UNCHANGED told
  <2>1. scheduled \/ bg.pc # "idle"
    BY DEF SkipWork, StartFlush, BuildFails, MergeFails, StartMerge, StartManual,
           MergeOutput, CanCompact
  <2>2. Running
    BY <1>1, <2>1, Works
  <2>3. /\ queue' = queue /\ group' = group
        /\ logs' = logs /\ manifests' = manifests /\ curfile' = curfile
        /\ db' = db /\ mem' = mem /\ imm' = imm /\ lognum' = lognum
        /\ UNCHANGED told
    BY Zenon DEF SkipWork, StartFlush, BuildFails, MergeFails, StartMerge,
       StartManual, MergeOutput, disk, life, writing
  <2>. QED
    BY <2>2, <2>3
<1>3. Running'
  BY <1>2 DEF Running
<1>4. CASE SkipWork \/ BuildFails \/ MergeFails
  <2>1. bg'.pc \in {"idle", "merge"} /\ wr' = Woken(wr)
    <3>1. CASE SkipWork
      BY <3>1, CallEnds DEF SkipWork
    <3>2. CASE BuildFails
      BY <1>1, <3>2, FlushEnds DEF BuildFails
    <3>3. CASE MergeFails
      BY <3>3, CallEnds DEF MergeFails
    <3>. QED
      BY <1>4, <3>1, <3>2, <3>3
  <2>2. vs' = vs
    BY <1>4 DEF SkipWork, BuildFails, MergeFails
  <2>. QED
    BY <1>1, <1>2, <1>3, <2>1, <2>2, QuietStep
<1>5. CASE StartFlush
  <2>1. /\ imm # {} /\ bg' = [bg EXCEPT !.pc = "build", !.num = vs.next]
        /\ vs' = [vs EXCEPT !.next = vs.next + 1] /\ wr' = wr
    BY <1>5 DEF StartFlush, writing
  <2>2. bg'.pc = "build"
    BY <1>1, <2>1 DEF ThreadOf
  <2>3. vs'.log = vs.log /\ vs'.last = vs.last
    BY <1>1, <2>1, CountersStay
  <2>4. vs.next <= vs'.next
    BY <1>1, <2>1 DEF VersionSetOf
  <2>. QED
    BY <1>2, <1>3, <2>1, <2>2, <2>3, <2>4, QuietStep
<1>6. CASE MergeOutput
  <2>1. /\ bg.pc = "merge" /\ bg' = [bg EXCEPT !.c = bg'.c]
        /\ vs' = [vs EXCEPT !.next = vs.next + 1] /\ wr' = wr
    <3>1. PICK cs : bg' = [bg EXCEPT !.c = cs]
      BY <1>6, Zenon DEF MergeOutput
    <3>2. bg'.c = cs
      BY <1>1, <3>1 DEF ThreadOf
    <3>. QED
      BY <1>6, <3>1, <3>2 DEF MergeOutput, writing
  <2>2. bg'.pc = "merge"
    BY <1>1, <2>1 DEF ThreadOf
  <2>3. vs'.log = vs.log /\ vs'.last = vs.last
    BY <1>1, <2>1, CountersStay
  <2>4. vs.next <= vs'.next
    BY <1>1, <2>1 DEF VersionSetOf
  <2>. QED
    BY <1>2, <1>3, <2>1, <2>2, <2>3, <2>4, QuietStep
<1>7. CASE StartMerge \/ StartManual
  <2>1. /\ bg'.pc \in {"idle", "merge"}
        /\ vs' = vs \/ \E c : vs' = Pointed(c)
        /\ wr' = wr \/ wr' = Woken(wr)
    <3>1. CASE StartMerge
      <4>1. PICK c : bg' = [bg EXCEPT !.pc = "merge", !.c = {Begun(c)}]
                     /\ vs' = Pointed(c)
        BY <3>1 DEF StartMerge
      <4>2. bg'.pc = "merge"
        BY <1>1, <4>1 DEF ThreadOf
      <4>. QED
        BY <3>1, <4>1, <4>2 DEF StartMerge, writing
    <3>2. CASE StartManual
      <4>1. PICK m \in manual.range :
             \E in0 \in {ManualInputs(vs.v, m.level, m.lo, m.hi)} :
               IF in0 = {}
                 THEN /\ EndCall(imm, [manual EXCEPT !.done = TRUE, !.armed = FALSE],
                                 vs, failed)
                      /\ UNCHANGED vs
                 ELSE /\ \E c \in Compactions(vs.v, m.level, in0) :
                           /\ bg' = [bg EXCEPT !.pc = "merge", !.manual = TRUE,
                                               !.c = {Begun(c)}]
                           /\ vs' = Pointed(c)
                      /\ UNCHANGED <<scheduled, wr, manual>>
        BY <3>2, Zenon DEF StartManual
      <4>2. CASE \E mn : EndCall(imm, mn, vs, failed) /\ UNCHANGED vs
        BY <4>2, CallEnds
      <4>3. CASE \E c : /\ bg' = [bg EXCEPT !.pc = "merge", !.manual = TRUE,
                                            !.c = {Begun(c)}]
                        /\ vs' = Pointed(c) /\ wr' = wr
        <5>1. PICK c : /\ bg' = [bg EXCEPT !.pc = "merge", !.manual = TRUE,
                                           !.c = {Begun(c)}]
                       /\ vs' = Pointed(c) /\ wr' = wr
          BY <4>3
        <5>2. bg'.pc = "merge"
          BY <1>1, <5>1 DEF ThreadOf
        <5>. QED
          BY <5>1, <5>2
      <4>. QED
        BY <4>1, <4>2, <4>3, Zenon
    <3>. QED
      BY <1>7, <3>1, <3>2
  <2>2. vs'.log = vs.log /\ vs'.last = vs.last /\ vs'.next = vs.next
    <3>1. CASE vs' = vs
      BY <3>1
    <3>2. CASE \E c : vs' = Pointed(c)
      <4>1. PICK c : vs' = Pointed(c)
        BY <3>2
      <4>2. PICK l, x : vs' = [vs EXCEPT !.after[l] = x]
        BY <4>1 DEF Pointed
      <4>3. vs'.next = vs.next
        BY <1>1, <4>2, PointerMoved
      <4>4. vs'.log = vs.log /\ vs'.last = vs.last
        BY <1>1, <4>2, PointerApart
      <4>. QED
        BY <4>3, <4>4
    <3>. QED
      BY <2>1, <3>1, <3>2
  <2>. QED
    BY <1>1, <1>2, <1>3, <2>1, <2>2, QuietStep
<1>. QED
  BY <1>4, <1>5, <1>6, <1>7

-----------------------------------------------------------------------------
(* The writers.                                                            *)

\* A step in which the calls change and nothing else
LEMMA CallStep ==
  ASSUME Durability, Inv', Running,
         UNCHANGED <<disk, life, mem, imm, lognum, vs, bg, told>>,
         Writes', InHand' = InHand
  PROVE  Durability'
<1>1. /\ logs' = logs /\ manifests' = manifests /\ curfile' = curfile
      /\ db' = db /\ bg' = bg
      /\ applied' = applied /\ limbo' = limbo /\ durable' = durable
  BY DEF disk, life, told
<1>2. Running'
  BY <1>1 DEF Running
<1>3. vs.next \in Nat /\ Edits /\ Untorn
  BY DEF Durability, Inv, Shape, Work
<1>4. Disk' /\ Active' /\ Memory' /\ Start'
  BY <1>1, <1>2, <1>3, Steady
<1>5. Edits'
  <2>1. LastState' = LastState
    BY <1>1 DEF LastState, ReadState
  <2>. QED
    BY <1>1, <1>3, <2>1 DEF Edits, Logging
<1>. QED
  BY <1>3, <1>4, <1>5 DEF Durability, Work, Untorn

\* Without a group there is only the batches to look at.
LEMMA NoGroup ==
  ASSUME group = {}, group' = {}, Batches'
  PROVE  Writes' /\ InHand' = InHand
  BY DEF Writes, InHand

LEMMA EmptyBatch ==
  ASSUME NEW st
  PROVE  LET c == [NoWriter EXCEPT !.st = st]
         IN c.batch \in Seq(ToSet(c.batch)) /\ c.pc = "idle" /\ c.sync = FALSE
<1>1. <<>> \in Seq(ToSet(<<>>))
  OBVIOUS
<1>. QED
  BY <1>1 DEF NoWriter

LEMMA PoppedBatches ==
  ASSUME Inv, Batches, NEW n, NEW st, PopWriters(n, st)
  PROVE  Batches'
<1>. DEFINE out == {queue[i] : i \in 1 .. n}
            rest == SubSeq(queue, n + 1, Len(queue))
            gone == [NoWriter EXCEPT !.st = st]
<1>1. wr' = [w \in Writers |->
                 IF w \in out THEN gone
                 ELSE IF rest # <<>> /\ w = rest[1]
                   THEN [wr[w] EXCEPT !.pc = "room"] ELSE wr[w]]
  BY Zenon DEF PopWriters
<1>2. gone.batch \in Seq(ToSet(gone.batch))
  BY EmptyBatch
<1>3. \A w \in Writers : [wr[w] EXCEPT !.pc = "room"].batch = wr[w].batch
  <2>1. \A w \in Writers : wr[w] = Call(wr[w])
    BY Zenon DEF Inv, WInv, Calls
  <2>. QED
    BY <2>1 DEF Call
<1>. HIDE DEF out, rest, gone
<1>4. \A w \in Writers : wr'[w] = gone \/ wr'[w] = wr[w]
                           \/ wr'[w] = [wr[w] EXCEPT !.pc = "room"]
  BY <1>1
<1>5. ASSUME NEW w \in Writers
      PROVE  wr'[w].batch \in Seq(ToSet(wr'[w].batch))
  <2>1. CASE wr'[w] = gone
    BY <1>2, <2>1
  <2>2. CASE wr'[w].batch = wr[w].batch
    BY <2>2 DEF Batches
  <2>. QED
    BY <1>3, <1>4, <2>1, <2>2
<1>. QED
  BY <1>5 DEF Batches

LEMMA WriteLasts ==
  ASSUME Durability, Inv', NEW w \in Writers, NEW q \in Requests, Write(w, q)
  PROVE  Durability'
<1>1. /\ Inv /\ Writes /\ Batches /\ Queued /\ Calls
  BY DEF Durability, Work, Writes, Inv, WInv
<1>2. PICK c : /\ wr' = [wr EXCEPT ![w] = c] /\ c.batch = q.batch
               /\ queue' = Append(queue, w) /\ wr[w].pc = "idle"
               /\ group' = group
               /\ UNCHANGED <<disk, life, mem, imm, lognum, vs, bg, told>>
  BY DEF Write
<1>3. Running
  BY DEF Write, Running
<1>4. \A i \in 1..Len(queue) : queue[i] \in Writers /\ queue[i] # w
  BY <1>1, <1>2 DEF Queued, Calls
<1>5. \A x \in Writers : wr'[x] = IF x = w THEN c ELSE wr[x]
  BY <1>1, <1>2 DEF Calls
<1>6. \A i \in 1..Len(queue) :
        /\ queue'[i] = queue[i]
        /\ wr'[queue[i]].batch = wr[queue[i]].batch
        /\ wr'[queue[i]].sync = wr[queue[i]].sync
        /\ wr'[queue[i]].pc = wr[queue[i]].pc
  <2>1. \A i \in 1..Len(queue) : queue'[i] = queue[i]
    BY <1>1, <1>2, AppendElements DEF Queued
  <2>. QED
    BY <1>4, <1>5, <2>1
<1>7. Batches'
  <2>1. c.batch \in Seq(ToSet(c.batch))
    BY <1>2, RequestsAssumption
  <2>. QED
    BY <1>1, <1>5, <2>1 DEF Batches
<1>8. group # {} => 1 \in 1..Len(queue)
  BY <1>1 DEF Inv, WInv, Group, Queued
<1>9. Writes' /\ InHand' = InHand
  <2>1. \A r \in InHand : InSync(r) => InSync(r)'
    BY <1>2 DEF disk, InSync
  <2>2. limbo' = limbo /\ vs' = vs /\ lognum' = lognum
    BY <1>2 DEF told
  <2>. QED
    BY <1>1, <1>2, <1>6, <1>7, <1>8, <2>1, <2>2, WritesStay
<1>. QED
  BY <1>2, <1>3, <1>9, CallStep

\* The first waits or is answered before it writes.
LEMMA FrontLasts ==
  ASSUME Durability, Inv', NEW w \in Writers,
         \/ RefuseWrite(w) \/ SwitchFails(w) \/ NothingToWrite(w)
         \/ DelayWrite(w) \/ WaitForRoom(w)
  PROVE  Durability'
<1>1. Inv /\ Batches
  BY DEF Durability, Work, Writes
<1>2. /\ AtRoom(w) /\ group' = group
      /\ UNCHANGED <<disk, life, mem, imm, lognum, vs, bg, told>>
  BY Zenon DEF RefuseWrite, SwitchFails, NothingToWrite, DelayWrite, WaitForRoom
<1>3. Running /\ group = {} /\ wr[w] = Call(wr[w])
  BY <1>1, <1>2, FrontFacts
<1>4. Batches'
  <2>1. CASE RefuseWrite(w) \/ SwitchFails(w) \/ NothingToWrite(w)
    <3>1. \E st : PopWriters(1, st)
      BY <2>1, Zenon DEF RefuseWrite, SwitchFails, NothingToWrite
    <3>. QED
      BY <1>1, <3>1, PoppedBatches
  <2>2. CASE DelayWrite(w) \/ WaitForRoom(w)
    <3>1. PICK c : wr' = [wr EXCEPT ![w] = c] /\ c.batch = wr[w].batch
      <4>1. [wr[w] EXCEPT !.delay = FALSE].batch = wr[w].batch
        BY <1>3 DEF Call
      <4>2. [wr[w] EXCEPT !.pc = "bgwait"].batch = wr[w].batch
        BY <1>3 DEF Call
      <4>3. CASE DelayWrite(w)
        <5>1. wr' = [wr EXCEPT ![w] = [wr[w] EXCEPT !.delay = FALSE]]
          BY <4>3, Zenon DEF DelayWrite
        <5>. QED
          BY <4>1, <5>1
      <4>4. CASE WaitForRoom(w)
        <5>1. wr' = [wr EXCEPT ![w] = [wr[w] EXCEPT !.pc = "bgwait"]]
          BY <4>4, Zenon DEF WaitForRoom
        <5>. QED
          BY <4>2, <5>1
      <4>. QED
        BY <2>2, <4>3, <4>4
    <3>2. \A x \in Writers : wr'[x].batch = wr[x].batch
      BY <1>1, <3>1 DEF Inv, WInv, Calls
    <3>. QED
      BY <1>1, <3>2 DEF Batches
  <2>. QED
    BY <2>1, <2>2
<1>5. Writes' /\ InHand' = InHand
  BY <1>2, <1>3, <1>4, NoGroup
<1>. QED
  BY <1>2, <1>3, <1>5, CallStep

\* What is on disk when the logs only grow
LEMMA LogsGrow ==
  ASSUME Durability, Running, Running', Logs',
         manifests' = manifests, curfile' = curfile, vs'.log = vs.log,
         \A r : (InLog(r) => InLog(r)') /\ (InSync(r) => InSync(r)'),
         applied \subseteq applied',
         \A r \in Taken' :
           \/ r \in Taken
           \/ /\ r = [ents |-> r.ents, log |-> r.log] /\ r.log = lognum
              /\ InLog(r)' /\ \A e \in r.ents : e.s \in Nat,
         \A g \in durable' :
           g \in durable \/ \E r \in applied' : r.ents = g /\ Safe(r)'
  PROVE  Disk'
<1>1. /\ Grouped /\ Marks /\ Present /\ Promised /\ Active /\ curfile # 0
      /\ DOMAIN logs \subseteq Nat
  BY RunningStates DEF Durability, Disk, Work, Inv, Shape
<1>2. States' = States
  BY DEF States
<1>3. Points' = Points
  BY <1>2 DEF Points
<1>4. lognum \in Nat /\ \A n \in Points : n \in Nat /\ n <= lognum
  <2>1. lognum \in Nat /\ \A n \in Points : n <= lognum
    BY <1>1 DEF Active
  <2>2. \A st \in States : st.log \in Nat
    BY <1>1 DEF Marks
  <2>3. vs.log \in Nat
    BY <1>1 DEF Active
  <2>. QED
    BY <2>1, <2>2, <2>3 DEF Points
<1>5. \A st \in States : st.log \in Points
  BY RunningStates DEF Durability
<1>6. Grouped'
  BY <1>1, <1>4 DEF Grouped
<1>7. Marks'
  <2>1. \A r \in Taken' : \A st \in States :
          r.log < st.log => \A e \in r.ents : e.s <= st.last
    BY <1>1, <1>4, <1>5 DEF Marks
  <2>. QED
    BY <1>1, <1>2, <2>1 DEF Marks
<1>8. Present'
  BY <1>1, <1>3, <1>4 DEF Present
<1>9. Promised'
  <2>1. \A r : Safe(r) => Safe(r)'
    BY <1>3 DEF Safe
  <2>. QED
    BY <1>1, <2>1 DEF Promised
<1>. QED
  BY <1>6, <1>7, <1>8, <1>9 DEF Disk

\* A new log
LEMMA LogAdded ==
  ASSUME Logs, NEW n, n \notin DOMAIN logs, logs' = With(logs, n, EmptyLog)
  PROVE  /\ Logs' /\ DOMAIN logs' = DOMAIN logs \cup {n}
         /\ \A m \in DOMAIN logs : logs'[m] = logs[m]
         /\ \A r : (InLog(r) => InLog(r)') /\ (InSync(r) => InSync(r)')
<1>1. /\ DOMAIN logs' = DOMAIN logs \cup {n} /\ logs'[n] = EmptyLog
      /\ \A m \in DOMAIN logs : logs'[m] = logs[m]
  BY DEF With
<1>2. LogRight(EmptyLog) /\ Len(EmptyLog.recs) = 0
  BY DEF LogRight, EmptyLog
<1>3. \A m \in DOMAIN logs' : LogRight(logs'[m])
  BY <1>1, <1>2 DEF Logs
<1>4. \A b : Numbers(b) => Numbers(b)'
  <2>1. ASSUME NEW b, Numbers(b), NEW m \in DOMAIN logs', NEW i \in 1..Len(logs'[m].recs),
               NEW e \in logs'[m].recs[i]
        PROVE  e.s \in Nat /\ e.s <= b
    BY <1>1, <1>2, <2>1 DEF Numbers
  <2>. QED
    BY <2>1 DEF Numbers
<1>5. Logs'
  BY <1>3, <1>4 DEF Logs
<1>. QED
  BY <1>1, <1>5 DEF InLog, InSync

LEMMA SwitchLasts ==
  ASSUME Durability, Inv', NEW w \in Writers, SwitchMemTable(w)
  PROVE  Durability'
<1>1. /\ Inv /\ Batches /\ Active /\ Edits /\ Memory /\ Logs /\ Untorn
      /\ DOMAIN logs \subseteq Nat /\ vs = VersionSetOf(vs) /\ vs.next \in Nat
  BY DEF Durability, Work, Writes, Disk, Inv, Shape
<1>2. /\ AtRoom(w) /\ group' = group /\ imm = {}
      /\ lognum' = vs.next /\ vs' = [vs EXCEPT !.next = vs.next + 1]
      /\ logs' = With(logs, vs.next, EmptyLog)
      /\ imm' = {mem} /\ mem' = {}
      /\ wr' = [wr EXCEPT ![w] = [wr[w] EXCEPT !.force = FALSE]]
      /\ manifests' = manifests /\ curfile' = curfile /\ db' = db /\ bg' = bg
      /\ applied' = applied /\ limbo' = limbo /\ durable' = durable
  BY DEF SwitchMemTable, life, told
<1>3. Running /\ group = {} /\ wr[w] = Call(wr[w]) /\ Running'
  BY <1>1, <1>2, FrontFacts DEF Running
<1>4. Writes' /\ InHand' = {} /\ InHand = {}
  <2>1. [wr[w] EXCEPT !.force = FALSE].batch = wr[w].batch
    BY <1>3 DEF Call
  <2>2. \A x \in Writers : wr'[x].batch = wr[x].batch
    BY <1>1, <1>2, <2>1 DEF Inv, WInv, Calls
  <2>3. Batches'
    BY <1>1, <2>2 DEF Batches
  <2>. QED
    BY <1>2, <1>3, <2>3, NoGroup DEF InHand
<1>5. /\ vs'.log = vs.log /\ vs'.last = vs.last /\ vs'.next = vs.next + 1
  BY <1>1, <1>2, CountersStay DEF VersionSetOf
<1>6. vs.next \notin DOMAIN logs /\ lognum \in Nat /\ lognum < vs.next
  BY <1>1, <1>3 DEF Active
<1>7. /\ Logs' /\ DOMAIN logs' = DOMAIN logs \cup {vs.next}
      /\ \A r : (InLog(r) => InLog(r)') /\ (InSync(r) => InSync(r)')
  BY <1>1, <1>2, <1>6, LogAdded
<1>8. Taken' = Taken /\ States' = States
  BY <1>2 DEF Taken, States
<1>9. Points' = Points
  BY <1>3, <1>5, <1>8 DEF Points
<1>10. Disk'
  BY <1>2, <1>3, <1>5, <1>7, <1>8, LogsGrow
<1>11. Active'
  <2>1. \A n \in DOMAIN logs : n \in Nat /\ n < vs.next
    BY <1>1, <1>3 DEF Active
  <2>2. \A n \in DOMAIN logs' : n < vs.next + 1
    BY <1>1, <1>7, <2>1
  <2>3. \A n \in Points : n \in Nat /\ n <= vs.next
    <3>1. \A n \in Points : n <= lognum
      BY <1>1, <1>3 DEF Active
    <3>2. \A st \in States : st.log \in Nat
      BY RunningStates, <1>1, <1>3 DEF Durability, Disk, Marks
    <3>3. vs.log \in Nat
      BY <1>1, <1>3 DEF Active
    <3>4. \A n \in Points : n \in Nat
      BY <3>2, <3>3 DEF Points
    <3>. QED
      BY <1>1, <1>6, <3>1, <3>4
  <2>4. \A r \in Taken : r.log <= vs.next
    <3>1. \A r \in Taken : r.log \in Nat /\ r.log <= lognum
      BY <1>1, <1>3 DEF Active, Durability, Disk, Grouped
    <3>. QED
      BY <1>1, <1>6, <3>1
  <2>. QED
    BY <1>1, <1>2, <1>3, <1>4, <1>5, <1>7, <1>8, <1>9, <2>2, <2>3, <2>4 DEF Active
<1>12. Edits'
  <2>1. LastState' = LastState
    BY <1>2 DEF LastState, ReadState
  <2>2. bg.pc \notin {"build", "flushlog"}
    BY <1>1, <1>2 DEF Edits
  <2>. QED
    BY <1>1, <1>2, <1>5, <2>1, <2>2 DEF Edits, Logging
<1>13. Memory'
  <2>1. \A r \in applied : r.log \in Nat /\ r.log <= lognum
    BY <1>1, <1>3 DEF Active, Durability, Disk, Grouped, Taken
  <2>2. ASSUME NEW r \in applied
        PROVE  /\ r.log # vs.next
               /\ vs.log <= r.log => r.ents \subseteq mem
    <3>1. r.log # vs.next
      BY <1>1, <1>6, <2>1
    <3>2. CASE r.log = lognum
      BY <1>1, <1>3, <3>1, <3>2 DEF Memory
    <3>3. CASE r.log < lognum
      BY <1>1, <1>2, <1>3, <3>1, <3>3 DEF Memory
    <3>. QED
      BY <1>6, <2>1, <3>1, <3>2, <3>3
  <2>. QED
    BY <1>2, <1>5, <2>2 DEF Memory
<1>. QED
  BY <1>1, <1>3, <1>4, <1>10, <1>11, <1>12, <1>13, NotOpening DEF Durability, Work, Untorn,
     Start, Running, Replaying, Settling, Calm

\* A writer that asks for a sync joins only a group that is synced.
LEMMA GroupSyncs ==
  ASSUME NEW q \in Seq(Writers), Len(q) > 0
  PROVE  \A i \in 1..GroupOf(q) : wr[q[i]].sync => wr[q[1]].sync
<1>. DEFINE Len_(n) == FoldLeft(LAMBDA m, i : m + Len(wr[q[i]].batch), 0,
                                [i \in 1 .. n |-> i])
            Joins(i) == /\ wr[q[i]].sync => wr[q[1]].sync
                        /\ wr[q[i]].batch # <<>> => Len_(i) <= MaxGroup
            S == {n \in DOMAIN q : \A i \in 2 .. n : Joins(i)}
<1>1. GroupOf(q) = Max(S)
  BY Zenon DEF GroupOf
<1>. HIDE DEF Len_
<1>2. 2..1 = {} /\ DOMAIN q = 1..Len(q) /\ Len(q) \in Nat
  OBVIOUS
<1>3. 1 \in S
  BY <1>2
<1>4. S \in SUBSET (1..Len(q)) /\ S # {}
  BY <1>2, <1>3
<1>5. Max(S) \in S
  <2>. HIDE DEF S
  <2>. QED
    BY <1>2, <1>4, Largest_
<1>6. GroupOf(q) \in 1..Len(q) /\ \A i \in 2..GroupOf(q) : Joins(i)
  BY <1>1, <1>2, <1>5
<1>7. \A i \in 1..GroupOf(q) : i = 1 \/ i \in 2..GroupOf(q)
  BY <1>2, <1>6
<1>. QED
  BY <1>6, <1>7

\* The entries of updates
LEMMA NumberedRight ==
  ASSUME NEW T, NEW u \in Seq(T), NEW n \in Nat
  PROVE  /\ \A e \in Numbered(u, n) : e.s \in Nat /\ n < e.s /\ e.s <= n + Len(u)
         /\ Len(u) > 0 => Numbered(u, n) # {}
<1>1. DOMAIN u = 1..Len(u) /\ Len(u) \in Nat
  OBVIOUS
<1>2. ASSUME NEW e \in Numbered(u, n)
      PROVE  e.s \in Nat /\ n < e.s /\ e.s <= n + Len(u)
  <2>1. PICK i \in 1..Len(u) : e.s = n + i
    BY <1>1 DEF Numbered
  <2>. QED
    BY <1>1, <2>1
<1>3. ASSUME Len(u) > 0
      PROVE  Numbered(u, n) # {}
  <2>1. 1 \in DOMAIN u
    BY <1>1, <1>3
  <2>. QED
    BY <2>1 DEF Numbered
<1>. QED
  BY <1>2, <1>3

LEMMA StartGroupLasts ==
  ASSUME Durability, Inv', NEW w \in Writers, StartGroup(w)
  PROVE  Durability'
<1>1. Inv /\ Batches /\ Active
  BY DEF Durability, Work, Writes
<1>2. /\ AtRoom(w) /\ wr[w].batch # <<>> /\ queue' = queue
      /\ wr' = [wr EXCEPT ![w] = [wr[w] EXCEPT !.pc = "logging"]]
      /\ UNCHANGED <<disk, life, mem, imm, lognum, vs, bg, told>>
  BY Zenon DEF StartGroup
<1>3. /\ Running /\ group = {} /\ wr[w] = Call(wr[w]) /\ queue \in Seq(Writers)
      /\ Len(queue) > 0 /\ queue[1] = w
  BY <1>1, <1>2, FrontFacts
<1>4. PICK n, s, u, g :
        /\ n = GroupOf(queue) /\ s = [i \in 1..n |-> wr[queue[i]].batch]
        /\ u = FlattenSeq(s)
        /\ g = [n |-> n, ents |-> Numbered(u, vs.last), last |-> vs.last + Len(u),
                ok |-> TRUE, bad |-> FALSE]
        /\ group' = {g}
  BY Zenon DEF StartGroup
<1>5. n \in 1..Len(queue) /\ n \in Nat \ {0}
  <2>1. n \in 1..Len(queue) /\ Len(queue) \in Nat
    BY <1>3, <1>4, GroupSize
  <2>. QED
    BY <2>1
<1>6. /\ \A x \in Writers : /\ wr'[x].batch = wr[x].batch
                            /\ wr'[x].sync = wr[x].sync
      /\ wr'[w].pc = "logging"
  <2>. DEFINE c == [wr[w] EXCEPT !.pc = "logging"]
  <2>1. c.batch = wr[w].batch /\ c.sync = wr[w].sync /\ c.pc = "logging"
    BY <1>3 DEF Call
  <2>2. wr' = [wr EXCEPT ![w] = c]
    BY <1>2
  <2>. HIDE DEF c
  <2>. QED
    BY <1>1, <2>1, <2>2 DEF Inv, WInv, Calls
<1>7. \A i \in 1..n : queue[i] \in Writers
  BY <1>3, <1>5
<1>. DEFINE T == UNION {ToSet(wr[queue[i]].batch) : i \in 1..n}
<1>8. \A i \in 1..n : s[i] \in Seq(T)
  <2>1. ASSUME NEW i \in 1..n PROVE s[i] \in Seq(T)
    <3>1. wr[queue[i]].batch \in Seq(ToSet(wr[queue[i]].batch))
      BY <1>1, <1>7 DEF Batches
    <3>2. ToSet(wr[queue[i]].batch) \subseteq T
      OBVIOUS
    <3>. QED
      BY <1>4, <3>1, <3>2
  <2>. QED
    BY <2>1
<1>9. 1 \in 1..n /\ s = [i \in 1..n |-> s[i]] /\ s[1] = wr[w].batch
  BY <1>3, <1>4, <1>5
<1>10. u \in Seq(T) /\ Len(u) >= Len(s[1]) /\ Len(u) > 0
  <2>. HIDE DEF T
  <2>1. u \in Seq(T) /\ Len(u) >= Len(s[1])
    BY <1>4, <1>5, <1>8, <1>9, FlattenIsSeq
  <2>2. s[1] \in Seq(T) /\ s[1] # <<>>
    BY <1>2, <1>8, <1>9
  <2>3. Len(s[1]) > 0 /\ Len(s[1]) \in Nat /\ Len(u) \in Nat
    BY <2>1, <2>2
  <2>. QED
    BY <2>1, <2>3
<1>11. vs.last \in Nat
  BY <1>1, <1>3 DEF Active
<1>12. /\ FrontCall' = wr'[w] /\ wr'[w].batch = wr[w].batch
       /\ wr'[w].sync = wr[w].sync
  BY <1>2, <1>3, <1>6, FrontFacts DEF FrontCall
<1>13. Batches'
  BY <1>1, <1>6 DEF Batches
<1>14. vs' = vs /\ lognum' = lognum
  BY <1>2
<1>15. InHand' = {} /\ InHand = {}
  BY <1>3, <1>6, <1>12 DEF InHand
<1>. HIDE DEF T
<1>16. /\ g.n = n /\ g.ents = Numbered(u, vs.last) /\ g.last = vs.last + Len(u)
       /\ g.ok = TRUE /\ g.bad = FALSE
  BY <1>4
<1>17. Updates(g.n)' = u
  <2>1. [i \in 1..n |-> wr'[queue'[i]].batch] = [i \in 1..n |-> wr[queue[i]].batch]
    BY <1>2, <1>6, <1>7
  <2>2. g.n' = n
    BY <1>16
  <2>. QED
    BY <1>4, <2>1, <2>2 DEF Updates
<1>18. /\ \A e \in g.ents : e.s \in Nat /\ vs.last < e.s /\ e.s <= g.last
       /\ g.ents # {} /\ g.last \in Nat /\ vs.last <= g.last
  <2>1. /\ \A e \in Numbered(u, vs.last) :
             e.s \in Nat /\ vs.last < e.s /\ e.s <= vs.last + Len(u)
        /\ Numbered(u, vs.last) # {}
    BY <1>10, <1>11, NumberedRight
  <2>2. Len(u) \in Nat
    BY <1>10
  <2>3. g.last \in Nat /\ vs.last <= g.last
    BY <1>11, <1>16, <2>2
  <2>. QED
    BY <1>16, <2>1, <2>3
<1>19. \A i \in 1..g.n : wr'[queue'[i]].sync => wr'[w].sync
  <2>1. \A i \in 1..GroupOf(queue) : wr[queue[i]].sync => wr[queue[1]].sync
    BY <1>3, GroupSyncs
  <2>. QED
    BY <1>2, <1>3, <1>4, <1>6, <1>7, <1>12, <1>16, <2>1
<1>20. GroupRight(g)'
  <2>1. Numbered(Updates(g.n), vs.last)' = g.ents
    <3>1. vs'.last = vs.last
      BY <1>14
    <3>2. Numbered(Updates(g.n), vs.last)' = Numbered(Updates(g.n)', vs'.last)
      BY DEF Numbered
    <3>. QED
      BY <1>16, <1>17, <3>1, <3>2
  <2>. QED
    BY <1>2, <1>6, <1>12, <1>14, <1>15, <1>16, <1>18, <1>19, <2>1 DEF GroupRight
<1>21. Writes'
  BY <1>4, <1>13, <1>20 DEF Writes
<1>. QED
  BY <1>2, <1>3, <1>15, <1>21, CallStep

\* A record goes to a log, which is synced or not.
LEMMA LogAppended ==
  ASSUME Logs, NEW n \in DOMAIN logs, NEW x, NEW b \in Nat,
         \A e \in x : e.s \in Nat /\ e.s <= b,
         NEW k, k = logs[n].synced \/ k = Len(logs[n].recs) + 1,
         logs' = [logs EXCEPT ![n] = [recs |-> Append(logs[n].recs, x),
                                      synced |-> k, torn |-> FALSE]]
  PROVE  /\ Logs' /\ DOMAIN logs' = DOMAIN logs
         /\ \A r : (InLog(r) => InLog(r)') /\ (InSync(r) => InSync(r)')
         /\ \A r : r.ents = x /\ r.log = n =>
              InLog(r)' /\ (k = Len(logs[n].recs) + 1 => InSync(r)')
<1>. DEFINE s == logs[n].recs
            t == Append(s, x)
<1>1. /\ DOMAIN logs' = DOMAIN logs
      /\ logs'[n].recs = t /\ logs'[n].synced = k
      /\ logs'[n] = [recs |-> t, synced |-> k, torn |-> FALSE]
      /\ \A m \in DOMAIN logs : m # n => logs'[m] = logs[m]
  OBVIOUS
<1>2. s \in Seq(ToSet(s)) /\ logs[n].synced \in 0..Len(s)
  BY DEF Logs, LogRight
<1>3. /\ t \in Seq(ToSet(t)) /\ Len(t) = Len(s) + 1 /\ Len(s) \in Nat
      /\ \A i \in 1..Len(s) : t[i] = s[i]
      /\ t[Len(s) + 1] = x
  BY <1>2, OneMore
<1>. HIDE DEF t
<1>4. k \in 0..Len(t) /\ logs[n].synced <= k
  BY <1>2, <1>3
<1>5. \A m \in DOMAIN logs' : LogRight(logs'[m])
  <2>1. LogRight(logs'[n])
    BY <1>1, <1>3, <1>4 DEF LogRight
  <2>. QED
    BY <1>1, <2>1 DEF Logs
<1>6. \E c \in Nat : Numbers(c)'
  <2>1. PICK a \in Nat : Numbers(a)
    BY DEF Logs
  <2>2. PICK c \in Nat : a <= c /\ b <= c
    BY <2>1
  <2>3. ASSUME NEW m \in DOMAIN logs', NEW i \in 1..Len(logs'[m].recs),
               NEW e \in logs'[m].recs[i]
        PROVE  e.s \in Nat /\ e.s <= c
    <3>1. CASE m = n /\ i = Len(s) + 1
      <4>1. e \in x
        BY <1>1, <1>3, <3>1
      <4>2. e.s \in Nat /\ e.s <= b
        BY <4>1
      <4>. QED
        BY <2>2, <4>2
    <3>2. CASE ~(m = n /\ i = Len(s) + 1)
      <4>1. m \in DOMAIN logs /\ i \in 1..Len(logs[m].recs) /\ e \in logs[m].recs[i]
        BY <1>1, <1>3, <3>2
      <4>2. e.s \in Nat /\ e.s <= a
        BY <2>1, <4>1 DEF Numbers
      <4>. QED
        BY <2>1, <2>2, <4>2
    <3>. QED
      BY <3>1, <3>2
  <2>. QED
    BY <2>3 DEF Numbers
<1>7. ASSUME NEW r, InLog(r)
      PROVE  InLog(r)'
  <2>1. PICK i \in 1..Len(logs[r.log].recs) : logs[r.log].recs[i] = r.ents
    BY <1>7 DEF InLog
  <2>2. r.log \in DOMAIN logs
    BY <1>7 DEF InLog
  <2>3. i \in 1..Len(logs'[r.log].recs) /\ logs'[r.log].recs[i] = r.ents
    BY <1>1, <1>3, <2>1, <2>2
  <2>. QED
    BY <1>1, <2>2, <2>3 DEF InLog
<1>8. ASSUME NEW r, InSync(r)
      PROVE  InSync(r)'
  <2>1. PICK i \in 1..logs[r.log].synced : logs[r.log].recs[i] = r.ents
    BY <1>8 DEF InSync
  <2>2. r.log \in DOMAIN logs
    BY <1>8 DEF InSync
  <2>3. i \in 1..logs'[r.log].synced /\ logs'[r.log].recs[i] = r.ents
    BY <1>1, <1>2, <1>3, <1>4, <2>1, <2>2
  <2>. QED
    BY <1>1, <2>2, <2>3 DEF InSync
<1>9. ASSUME NEW r, r.ents = x, r.log = n
      PROVE  InLog(r)' /\ (k = Len(logs[n].recs) + 1 => InSync(r)')
  <2>1. Len(s) + 1 \in 1..Len(logs'[n].recs) /\ logs'[n].recs[Len(s) + 1] = x
    BY <1>1, <1>3
  <2>2. k = Len(logs[n].recs) + 1 => Len(s) + 1 \in 1..logs'[n].synced
    BY <1>1, <1>3
  <2>. QED
    BY <1>1, <1>9, <2>1, <2>2 DEF InLog, InSync
<1>. QED
  BY <1>1, <1>5, <1>6, <1>7, <1>8, <1>9 DEF Logs

\* The group after its record was written
LEMMA GroupRecorded ==
  ASSUME NEW w, NEW g, group = {g}, g.ok, ~g.bad, AddRecord(w) \/ SyncFails(w)
  PROVE  \E h : /\ group' = {h} /\ h.n = g.n /\ h.ents = g.ents /\ h.last = g.last
                /\ (h.ok /\ ~h.bad /\ AddRecord(w)) \/ (~h.ok /\ h.bad)
<1>1. CASE AddRecord(w)
  BY <1>1 DEF AddRecord
<1>2. CASE SyncFails(w)
  <2>1. group' = {[n |-> x.n, ents |-> x.ents, last |-> x.last, ok |-> FALSE,
                   bad |-> TRUE] : x \in {g}}
    BY <1>2 DEF SyncFails
  <2>2. PICK h : /\ h = [n |-> g.n, ents |-> g.ents, last |-> g.last, ok |-> FALSE,
                         bad |-> TRUE]
                 /\ group' = {h}
    BY <2>1, Zenon
  <2>3. h.n = g.n /\ h.ents = g.ents /\ h.last = g.last /\ ~h.ok /\ h.bad
    BY <2>2
  <2>. QED
    BY <2>2, <2>3
<1>. QED
  BY <1>1, <1>2

LEMMA RecordLasts ==
  ASSUME Durability, Inv', NEW w \in Writers, AddRecord(w) \/ SyncFails(w)
  PROVE  Durability'
<1>1. /\ Inv /\ Writes /\ Batches /\ Active /\ Edits /\ Memory /\ Logs /\ Untorn
      /\ DOMAIN logs \subseteq Nat /\ vs.last \in Nat /\ vs' = vs
  <2>1. Running
    BY WritingFacts DEF Durability, AddRecord, SyncFails
  <2>. QED
    BY <2>1 DEF Durability, Work, Writes, Disk, Inv, Shape, Active, AddRecord, SyncFails
<1>2. /\ wr[w].pc = "logging" /\ queue' = queue
      /\ wr' = [wr EXCEPT ![w] = [wr[w] EXCEPT !.pc = "inserting"]]
      /\ limbo' = limbo \cup {[ents |-> Some(group).ents, log |-> lognum]}
      /\ manifests' = manifests /\ curfile' = curfile /\ db' = db /\ bg' = bg
      /\ mem' = mem /\ imm' = imm /\ lognum' = lognum
      /\ applied' = applied /\ durable' = durable
  BY Zenon DEF AddRecord, SyncFails, life
<1>3. /\ Len(queue) > 0 /\ queue[1] = w /\ Running /\ Running'
      /\ wr[w] = Call(wr[w]) /\ FrontCall = wr[w]
      /\ \E g : /\ group = {g} /\ g.n \in 1..Len(queue)
                /\ g = BatchesOf(g)
  BY <1>1, <1>2, WritingFacts DEF Running, FrontCall
<1>4. PICK g : group = {g} /\ g.n \in 1..Len(queue) /\ g = BatchesOf(g)
  BY <1>3
<1>5. Some(group) = g
  BY <1>4, SomeOfOne
<1>6. GroupRight(g) /\ g.ok /\ ~g.bad
  BY <1>1, <1>2, <1>3, <1>4 DEF Writes, GroupRight
<1>7. /\ g.last \in Nat /\ vs.last <= g.last /\ g.ents # {}
      /\ \A e \in g.ents : e.s \in Nat /\ vs.last < e.s /\ e.s <= g.last
  BY <1>6 DEF GroupRight
<1>8. lognum \in DOMAIN logs /\ lognum \in Nat
  BY <1>1, <1>3 DEF Active
<1>9. PICK rec : /\ rec = [ents |-> g.ents, log |-> lognum]
                 /\ rec.ents = g.ents /\ rec.log = lognum
                 /\ rec = [ents |-> rec.ents, log |-> rec.log]
  <2>. DEFINE r == [ents |-> g.ents, log |-> lognum]
  <2>1. r.ents = g.ents /\ r.log = lognum
    OBVIOUS
  <2>2. r = [ents |-> g.ents, log |-> lognum] /\ r = [ents |-> r.ents, log |-> r.log]
    BY <2>1
  <2>. HIDE DEF r
  <2>. QED
    BY <2>1, <2>2
<1>10. PICK k : /\ k = logs[lognum].synced \/ k = Len(logs[lognum].recs) + 1
                /\ AddRecord(w) /\ wr[w].sync => k = Len(logs[lognum].recs) + 1
                /\ logs' = [logs EXCEPT ![lognum] =
                              [recs |-> Append(logs[lognum].recs, g.ents),
                               synced |-> k, torn |-> FALSE]]
  <2>1. PICK l : /\ l = logs[lognum] /\ l.torn = FALSE
                 /\ l = [recs |-> l.recs, synced |-> l.synced, torn |-> FALSE]
    BY <1>1, <1>8 DEF Logs, LogRight
  <2>2. l.recs \in Seq(ToSet(l.recs))
    BY <1>1, <1>8, <2>1 DEF Logs, LogRight
  <2>3. PICK t : t = Append(l.recs, g.ents) /\ Logged(l, g.ents) = t
    BY <2>1 DEF Logged
  <2>4. Len(t) = Len(l.recs) + 1
    BY <2>2, <2>3, OneMore
  <2>5. CASE AddRecord(w)
    <3>1. PICK k : k = IF wr[w].sync THEN Len(t) ELSE l.synced
      OBVIOUS
    <3>2. logs' = [logs EXCEPT ![lognum] =
             [recs |-> Logged(l, g.ents), torn |-> l.torn,
              synced |-> IF wr[w].sync THEN Len(Logged(l, g.ents)) ELSE l.synced]]
      BY <1>5, <2>1, <2>5, Zenon DEF AddRecord
    <3>3. logs' = [logs EXCEPT ![lognum] = [recs |-> t, torn |-> l.torn, synced |-> k]]
      BY <2>3, <3>1, <3>2, Zenon
    <3>4. logs' = [logs EXCEPT ![lognum] = [recs |-> t, synced |-> k, torn |-> FALSE]]
      BY <2>1, <3>3
    <3>5. /\ k = l.synced \/ k = Len(l.recs) + 1
          /\ wr[w].sync => k = Len(l.recs) + 1
      BY <2>4, <3>1
    <3>. QED
      BY <2>1, <2>3, <3>4, <3>5
  <2>6. CASE SyncFails(w) /\ ~AddRecord(w)
    <3>1. logs' = [logs EXCEPT ![lognum] =
                    [recs |-> t, torn |-> l.torn, synced |-> l.synced]]
      BY <1>5, <2>1, <2>3, <2>6, Zenon DEF SyncFails
    <3>2. logs' = [logs EXCEPT ![lognum] = [recs |-> t, synced |-> l.synced, torn |-> FALSE]]
      BY <2>1, <3>1
    <3>. QED
      BY <2>1, <2>3, <2>6, <3>2
  <2>. QED
    BY <2>5, <2>6
<1>11. /\ Logs' /\ DOMAIN logs' = DOMAIN logs
       /\ \A r : (InLog(r) => InLog(r)') /\ (InSync(r) => InSync(r)')
       /\ InLog(rec)'
       /\ k = Len(logs[lognum].recs) + 1 => InSync(rec)'
  BY <1>1, <1>7, <1>8, <1>9, <1>10, LogAppended
<1>12. limbo' = limbo \cup {rec} /\ Taken' = Taken \cup {rec}
  BY <1>2, <1>5, <1>9 DEF Taken
<1>13. \E h : /\ group' = {h} /\ h.n = g.n /\ h.ents = g.ents /\ h.last = g.last
              /\ (h.ok /\ ~h.bad /\ AddRecord(w)) \/ (~h.ok /\ h.bad)
  BY <1>4, <1>6, GroupRecorded
<1>14. PICK h : /\ group' = {h} /\ h.n = g.n /\ h.ents = g.ents /\ h.last = g.last
                /\ (h.ok /\ ~h.bad /\ AddRecord(w)) \/ (~h.ok /\ h.bad)
  BY <1>13
<1>15. /\ \A x \in Writers : wr'[x].batch = wr[x].batch /\ wr'[x].sync = wr[x].sync
       /\ wr'[w].pc = "inserting" /\ FrontCall' = wr'[w]
  <2>. DEFINE c == [wr[w] EXCEPT !.pc = "inserting"]
  <2>1. c.batch = wr[w].batch /\ c.sync = wr[w].sync /\ c.pc = "inserting"
    BY <1>3 DEF Call
  <2>2. wr' = [wr EXCEPT ![w] = c]
    BY <1>2
  <2>. HIDE DEF c
  <2>3. \A x \in Writers : wr'[x] = IF x = w THEN c ELSE wr[x]
    BY <1>1, <2>2 DEF Inv, WInv, Calls
  <2>. QED
    BY <1>2, <1>3, <2>1, <2>3 DEF FrontCall
<1>16. InHand' = {rec} /\ InHand = {}
  <2>1. InHand' = {[ents |-> x.ents, log |-> lognum] : x \in {h}}
    BY <1>2, <1>14, <1>15 DEF InHand
  <2>2. InHand = {}
    BY <1>2, <1>3 DEF InHand
  <2>. QED
    BY <1>9, <1>14, <2>1, <2>2
<1>17. Batches'
  BY <1>1, <1>15 DEF Batches
<1>18. \A i \in 1..g.n : queue[i] \in Writers
  <2>1. queue \in Seq(Writers)
    BY <1>1 DEF Inv, WInv, Queued
  <2>. QED
    BY <1>4, <2>1
<1>19. GroupRight(h)'
  <2>1. Numbered(Updates(h.n), vs.last)' = g.ents
    <3>1. [i \in 1..g.n |-> wr'[queue'[i]].batch] = [i \in 1..g.n |-> wr[queue[i]].batch]
      BY <1>2, <1>15, <1>18
    <3>2. Updates(h.n)' = Updates(g.n)
      BY <1>14, <3>1 DEF Updates
    <3>3. Numbered(Updates(h.n), vs.last)' = Numbered(Updates(h.n)', vs'.last)
      BY DEF Numbered
    <3>4. g.ents = Numbered(Updates(g.n), vs.last)
      BY <1>6 DEF GroupRight
    <3>. QED
      BY <1>1, <3>2, <3>3, <3>4
  <2>2. FrontCall.batch # <<>> /\ \A i \in 1..g.n : wr[queue[i]].sync => FrontCall.sync
    BY <1>6 DEF GroupRight
  <2>3. /\ FrontCall'.batch # <<>>
        /\ \A i \in 1..h.n : wr'[queue'[i]].sync => FrontCall'.sync
    BY <1>2, <1>3, <1>14, <1>15, <1>18, <2>2
  <2>4. h.ok /\ FrontCall'.sync => InSync(rec)'
    BY <1>3, <1>10, <1>11, <1>14, <1>15
  <2>5. rec \in limbo'
    BY <1>12
  <2>6. /\ h.last \in Nat /\ vs'.last <= h.last /\ h.ents # {}
        /\ \A e \in h.ents : e.s \in Nat /\ vs'.last < e.s /\ e.s <= h.last
    BY <1>1, <1>7, <1>14
  <2>7. \A r \in InHand' : r \in limbo' /\ (h.ok /\ FrontCall'.sync => InSync(r)')
    BY <1>16, <2>4, <2>5
  <2>. QED
    BY <1>14, <1>15, <2>1, <2>3, <2>6, <2>7 DEF GroupRight
<1>20. Writes'
  BY <1>14, <1>17, <1>19 DEF Writes
<1>21. Disk'
  <2>1. \A r \in Taken' :
          \/ r \in Taken
          \/ /\ r = [ents |-> r.ents, log |-> r.log] /\ r.log = lognum
             /\ InLog(r)' /\ \A e \in r.ents : e.s \in Nat
    BY <1>7, <1>9, <1>11, <1>12
  <2>. QED
    BY <1>1, <1>2, <1>3, <1>11, <2>1, LogsGrow
<1>22. Points' = Points
  <2>1. States' = States
    BY <1>2 DEF States
  <2>. QED
    BY <1>1, <1>3, <2>1 DEF Points
<1>23. Active'
  <2>1. \A r \in Taken' : r.log <= lognum
    BY <1>1, <1>3, <1>8, <1>9, <1>12 DEF Active
  <2>2. \A r \in Taken' \ InHand' : r \in Taken \ InHand
    BY <1>12, <1>16
  <2>. QED
    BY <1>1, <1>2, <1>3, <1>11, <1>22, <2>1, <2>2 DEF Active
<1>24. Edits'
  <2>1. LastState' = LastState
    BY <1>2 DEF LastState, ReadState
  <2>. QED
    BY <1>1, <1>2, <2>1 DEF Edits, Logging
<1>25. Memory'
  BY <1>1, <1>2, <1>3 DEF Memory
<1>. QED
  BY <1>1, <1>3, <1>20, <1>21, <1>23, <1>24, <1>25, NotOpening DEF Durability, Work,
     Untorn, Start, Running, Replaying, Settling, Calm

\* The group is answered: it is in its log, and if a caller asked for a sync,
\* in the synced part.
LEMMA FinishLasts ==
  ASSUME Durability, Inv', NEW w \in Writers, FinishWrite(w)
  PROVE  Durability'
<1>1. /\ Inv /\ Writes /\ Batches /\ Edits /\ Memory /\ Logs /\ Untorn
      /\ DOMAIN logs \subseteq Nat /\ vs = VersionSetOf(vs) /\ wr[w].pc = "inserting"
  BY DEF Durability, Work, Writes, Disk, Inv, Shape, FinishWrite
<1>2. /\ Running /\ FrontCall = wr[w]
      /\ \E g : /\ group = {g} /\ g.n \in 1..Len(queue)
                /\ g = BatchesOf(g)
  BY <1>1, WritingFacts DEF FrontCall
<1>3. PICK g : group = {g} /\ g.n \in 1..Len(queue) /\ g = BatchesOf(g)
  BY <1>2
<1>4. Some(group) = g
  BY <1>3, SomeOfOne
<1>5. Active /\ GroupRight(g)
  BY <1>1, <1>2, <1>3 DEF Durability, Work, Writes
<1>6. PICK rec : rec = [ents |-> g.ents, log |-> lognum] /\ rec.ents = g.ents
                 /\ rec.log = lognum
  <2>. DEFINE r == [ents |-> g.ents, log |-> lognum]
  <2>1. r.ents = g.ents /\ r.log = lognum
    OBVIOUS
  <2>. HIDE DEF r
  <2>. QED
    BY <2>1 DEF r
<1>7. InHand = {rec} /\ rec \in limbo /\ (g.ok /\ wr[w].sync => InSync(rec))
  <2>1. InHand = {rec}
    BY <1>1, <1>2, <1>3, <1>6 DEF InHand
  <2>. QED
    BY <1>1, <1>2, <1>5, <2>1 DEF GroupRight
<1>8. PICK sync : sync = \E i \in 1..g.n : wr[queue[i]].sync
  OBVIOUS
<1>9. /\ mem' = (IF g.ok THEN mem \cup g.ents ELSE mem)
      /\ vs' = [vs EXCEPT !.last = g.last]
      /\ applied' = (IF g.ok THEN applied \cup {rec} ELSE applied)
      /\ limbo' = (IF g.ok THEN limbo \ {rec} ELSE limbo)
      /\ durable' = (IF g.ok /\ sync THEN durable \cup {g.ents} ELSE durable)
  BY <1>4, <1>6, <1>8, Zenon DEF FinishWrite
<1>10. /\ group' = {} /\ \E st : PopWriters(g.n, st)
       /\ logs' = logs /\ manifests' = manifests /\ curfile' = curfile
       /\ db' = db /\ bg' = bg /\ imm' = imm /\ lognum' = lognum
  BY <1>4, Zenon DEF FinishWrite, disk, life
<1>11. Batches' /\ Writes' /\ InHand' = {}
  <2>1. Batches'
    BY <1>1, <1>10, PoppedBatches
  <2>. QED
    BY <1>10, <2>1 DEF Writes, InHand
<1>12. /\ vs'.last = g.last /\ vs'.log = vs.log /\ vs'.next = vs.next
  BY <1>1, <1>9 DEF VersionSetOf
<1>13. Taken' = Taken /\ applied \subseteq applied'
  BY <1>7, <1>9 DEF Taken
<1>14. Running' /\ States' = States
  BY <1>2, <1>10 DEF Running, States
<1>15. Points' = Points
  BY <1>2, <1>12, <1>14 DEF Points
<1>16. \A r : (InLog(r) <=> InLog(r)') /\ (InSync(r) <=> InSync(r)')
  BY <1>10 DEF InLog, InSync
<1>17. Logs'
  <2>1. \A b : Numbers(b) <=> Numbers(b)'
    BY <1>10 DEF Numbers
  <2>. QED
    BY <1>1, <1>10, <2>1 DEF Logs
<1>18. ASSUME NEW d \in durable'
       PROVE  d \in durable \/ \E r \in applied' : r.ents = d /\ Safe(r)'
  <2>1. CASE d \in durable
    BY <2>1
  <2>2. CASE g.ok /\ sync /\ d = g.ents
    <3>1. wr[w].sync
      BY <1>2, <1>5, <1>8, <2>2 DEF GroupRight
    <3>2. InSync(rec)'
      BY <1>7, <1>16, <2>2, <3>1
    <3>3. rec \in applied'
      BY <1>9, <2>2
    <3>4. Safe(rec)'
      BY <3>2 DEF Safe
    <3>. QED
      BY <1>6, <2>2, <3>3, <3>4
  <2>. QED
    BY <1>9, <1>18, <2>1, <2>2
<1>19. Disk'
  BY <1>2, <1>10, <1>12, <1>13, <1>14, <1>16, <1>17, <1>18, LogsGrow
<1>20. Active'
  <2>1. /\ vs.last \in Nat /\ g.last \in Nat /\ vs.last <= g.last
        /\ \A e \in g.ents : e.s <= g.last
    BY <1>2, <1>5 DEF Active, GroupRight
  <2>2. ASSUME NEW r \in Taken, NEW e \in r.ents
        PROVE  e.s <= g.last
    <3>1. CASE r = rec
      BY <1>6, <2>1, <3>1
    <3>2. CASE r # rec
      <4>1. e.s <= vs.last
        BY <1>2, <1>5, <1>7, <3>2 DEF Active
      <4>2. e.s \in Nat
        BY DEF Durability, Disk, Grouped
      <4>. QED
        BY <2>1, <4>1, <4>2
    <3>. QED
      BY <3>1, <3>2
  <2>. QED
    BY <1>2, <1>5, <1>10, <1>11, <1>12, <1>13, <1>14, <1>15, <2>1, <2>2 DEF Active
<1>21. Edits'
  <2>1. LastState' = LastState
    BY <1>10 DEF LastState, ReadState
  <2>. QED
    BY <1>1, <1>10, <1>12, <2>1 DEF Edits, Logging
<1>22. Memory'
  <2>1. ASSUME NEW r \in applied'
        PROVE  /\ r.log = lognum => r.ents \subseteq mem'
               /\ vs.log <= r.log /\ r.log < lognum => \E E \in imm : r.ents \subseteq E
    <3>1. CASE r \in applied
      BY <1>1, <1>2, <1>9, <3>1 DEF Memory
    <3>2. CASE g.ok /\ r = rec
      <4>1. r.ents \subseteq mem' /\ r.log = lognum /\ lognum \in Nat
        BY <1>1, <1>2, <1>5, <1>6, <1>9, <3>2 DEF Active
      <4>. QED
        BY <4>1
    <3>. QED
      BY <1>9, <3>1, <3>2
  <2>. QED
    BY <1>10, <1>12, <2>1 DEF Memory
<1>. QED
  BY <1>1, <1>11, <1>14, <1>19, <1>20, <1>21, <1>22, NotOpening DEF Durability, Work,
     Untorn, Start, Running, Replaying, Settling, Calm


-----------------------------------------------------------------------------
(* The descriptor.                                                         *)

\* The states of a descriptor after one more edit
LEMMA StateAdded ==
  ASSUME Inv, Running, NEW e, manifests' = Added(e), curfile' = curfile
  PROVE  /\ LastState' = AfterEdit(LastState, e)
         /\ States' = States \cup {AfterEdit(LastState, e)}
<1>1. curfile = vs.man /\ Descriptor(vs.man)
  BY InUse
<1>2. PICK old : old = manifests[curfile]
  OBVIOUS
<1>3. PICK new : new = AfterEdit(LastState, e)
  OBVIOUS
<1>4. curfile \in DOMAIN manifests /\ old \in Seq(ToSet(old))
  BY <1>1, <1>2 DEF Descriptor
<1>5. manifests'[curfile] = Append(old, new)
  <2>1. manifests'[curfile] = Append(old, AfterEdit(ReadState(old), e))
    BY <1>1, <1>2, <1>4 DEF Added
  <2>. QED
    BY <1>2, <1>3, <2>1 DEF LastState
<1>6. /\ Len(Append(old, new)) = Len(old) + 1 /\ Len(old) \in Nat
      /\ \A i \in 1..Len(old) : Append(old, new)[i] = old[i]
      /\ Append(old, new)[Len(old) + 1] = new
  BY <1>4, OneMore
<1>7. manifests'[curfile'] = Append(old, new)
  BY <1>5
<1>. HIDE <1>5
<1>8. LastState' = new
  BY <1>6, <1>7 DEF LastState, ReadState
<1>9. 1..(Len(old) + 1) = 1..Len(old) \cup {Len(old) + 1}
  BY <1>6
<1>10. States' = States \cup {new}
  BY <1>2, <1>6, <1>7, <1>9 DEF States
<1>. QED
  BY <1>3, <1>8, <1>10

\* An edit goes to the descriptor: what it passes is in tables, what it does
\* not pass is still in the logs.
LEMMA EditLasts ==
  ASSUME Durability, Inv', Running, ~Logging, NEW e, manifests' = Added(e),
         e.log \in {vs.log, lognum}, e.last = vs.last, e.next = vs.next,
         logs' = logs, curfile' = curfile, db' = db, mem' = mem, imm' = imm,
         lognum' = lognum, UNCHANGED told, UNCHANGED writing,
         vs'.log = vs.log, vs'.last = vs.last, vs'.next = vs.next,
         bg'.edit = {e},
         \/ bg'.pc \in {"mergelog", "movelog"} /\ e.log = vs.log
         \/ /\ bg'.pc = "flushlog" /\ e.log = lognum /\ imm # {}
            /\ \A E \in imm :
                 E # {} => \E a \in e.added : a[1] \in Levels /\ a[2].ents = E
  PROVE  Durability'
<1>1. /\ Inv /\ Logs /\ Grouped /\ Marks /\ Present /\ Promised /\ Active /\ Memory
      /\ Writes /\ Untorn /\ DOMAIN logs \subseteq Nat /\ vs.next \in Nat
      /\ curfile # 0
  BY RunningStates DEF Durability, Work, Disk, Inv, Shape
<1>2. PICK new : new = AfterEdit(LastState, e)
  OBVIOUS
<1>3. new.log = e.log /\ new.last = e.last /\ new.next = e.next
  BY <1>2 DEF AfterEdit
<1>4. LastState' = new /\ States' = States \cup {new}
  BY <1>1, <1>2, StateAdded
<1>5. Running'
  BY DEF Running
<1>6. /\ queue' = queue /\ wr' = wr /\ group' = group
      /\ applied' = applied /\ limbo' = limbo /\ durable' = durable
      /\ Taken' = Taken
  BY DEF writing, told, Taken
<1>7. Points' = Points \cup {new.log} /\ vs.log \in Points
  BY <1>4, <1>5 DEF Points
<1>8. \A r : (InLog(r)' <=> InLog(r)) /\ (InSync(r)' <=> InSync(r))
  BY DEF InLog, InSync
<1>9. Writes' /\ InHand' = InHand
  BY <1>1, <1>6, <1>8, OthersWrite
<1>10. Logs'
  <2>1. \A b : Numbers(b)' <=> Numbers(b)
    BY DEF Numbers
  <2>. QED
    BY <1>1, <2>1 DEF Logs
<1>11. Grouped'
  BY <1>1, <1>6 DEF Grouped
<1>12. /\ lognum \in Nat /\ vs.log \in Nat /\ vs.last \in Nat /\ vs.log <= lognum
       /\ lognum < vs.next /\ new.log \in Nat /\ new.log <= lognum
       /\ vs.log <= new.log
  <2>1. /\ lognum \in Nat /\ vs.log \in Nat /\ vs.last \in Nat /\ vs.log <= lognum
        /\ lognum < vs.next
    BY <1>1, <1>7 DEF Active
  <2>. QED
    BY <1>3, <2>1
<1>13. ASSUME NEW r \in Taken
       PROVE  r.log \in Nat /\ r.log <= lognum
  BY <1>1 DEF Active, Grouped
<1>14. Marks'
  <2>1. ASSUME NEW r \in Taken, r.log < new.log, NEW x \in r.ents
        PROVE  x.s <= new.last
    <3>1. r.log # lognum
      BY <1>12, <1>13, <2>1
    <3>2. r \notin InHand
      BY <3>1 DEF InHand
    <3>. QED
      BY <1>1, <1>3, <3>2 DEF Active
  <2>2. /\ new.log \in Nat /\ new.last \in Nat /\ new.log < new.next
    BY <1>1, <1>3, <1>12
  <2>. QED
    BY <1>1, <1>4, <1>6, <2>1, <2>2 DEF Marks
<1>15. Present'
  <2>1. ASSUME NEW r \in Taken
        PROVE  r.log < new.log \/ InLog(r)
    <3>1. r.log < vs.log \/ InLog(r)
      BY <1>1, <1>7 DEF Present
    <3>. QED
      BY <1>12, <1>13, <3>1
  <2>. QED
    BY <1>1, <1>5, <1>6, <1>7, <1>8, <2>1 DEF Present
<1>16. Promised'
  <2>1. ASSUME NEW r \in applied, Safe(r)
        PROVE  Safe(r)'
    <3>1. r.log < vs.log \/ InSync(r)
      BY <1>7, <2>1 DEF Safe
    <3>2. r.log < new.log \/ InSync(r)
      BY <1>12, <1>13, <3>1 DEF Taken
    <3>. QED
      BY <1>7, <1>8, <2>1, <3>2 DEF Safe
  <2>. QED
    BY <1>1, <1>6, <2>1 DEF Promised
<1>17. Active'
  BY <1>1, <1>6, <1>7, <1>9, <1>12 DEF Active
<1>18. Edits'
  BY <1>3, <1>4 DEF Edits
<1>19. Memory'
  BY <1>1, <1>6 DEF Memory
<1>20. Disk'
  BY <1>10, <1>11, <1>14, <1>15, <1>16 DEF Disk
<1>. QED
  BY <1>1, <1>5, <1>9, <1>17, <1>18, <1>19, <1>20, NotOpening DEF Durability, Work,
     Untorn, Start, Running, Replaying, Settling, Calm

LEMMA EditFields ==
  ASSUME NEW deleted, NEW added, NEW log, NEW next, NEW after,
         NEW e, e = Edit(deleted, added, log, next, after)
  PROVE  e.next = next /\ e.added = added /\ e.log = log /\ e.last = vs.last
  BY DEF Edit

\* A memtable's table goes to a level there is.
LEMMA LevelPicked ==
  ASSUME NEW v, NEW lo, NEW hi
  PROVE  PickLevelForMemTableOutput(v, lo, hi) \in Levels
<1>. DEFINE Fits(l) == /\ ~OverlapInLevel(v, l, lo, hi)
                       /\ l + 1 < NumLevels =>
                            Size(GetOverlappingInputs(v, l + 1, lo, hi))
                              <= MaxGrandParentOverlap
            Ok == {l \in 1 .. MaxMemCompactLevel : \A m \in 1 .. l : Fits(m)}
            S == Ok \cup {0}
<1>1. MaxMemCompactLevel \in Nat /\ MaxMemCompactLevel \in 0..(NumLevels - 1)
  BY MemLevelAssumption, LevelsAssumption
<1>2. \/ PickLevelForMemTableOutput(v, lo, hi) = 0
      \/ PickLevelForMemTableOutput(v, lo, hi) = Max(S)
  BY Zenon DEF PickLevelForMemTableOutput
<1>3. S \in SUBSET Nat /\ S # {} /\ \A n \in S : n <= MaxMemCompactLevel
  <2>. HIDE DEF Fits
  <2>. QED
    BY <1>1
<1>4. Max(S) \in Nat /\ Max(S) \in S
  <2>. HIDE DEF S
  <2>. QED
    BY <1>1, <1>3, Greatest
<1>5. Max(S) <= MaxMemCompactLevel
  <2>. HIDE DEF S
  <2>. QED
    BY <1>3, <1>4
<1>. QED
  BY <1>1, <1>2, <1>4, <1>5, LevelsAssumption DEF Levels

LEMMA StartMoveLasts ==
  ASSUME Durability, Inv', StartMove
  PROVE  Durability'
<1>1. /\ scheduled /\ bg.pc = "idle"
      /\ UNCHANGED <<logs, tables, curfile, life, mem, imm, lognum, writing,
                     scheduled, failed, pending, manual, rd, told, stops>>
  BY DEF StartMove, CanCompact
<1>2. PICK c \in PickCompaction(vs.v, vs.after, vs.seek) :
        \E e : /\ e = Edit(InputDeletions(c), {<<c.level + 1, f>> : f \in c.in0},
                           vs.log, vs.next, {<<c.level, c.last>>})
               /\ bg' = [bg EXCEPT !.pc = "movelog", !.edit = {e}]
               /\ manifests' = Added(e)
               /\ vs' = Pointed(c)
  BY DEF StartMove
<1>3. PICK e : /\ e = Edit(InputDeletions(c), {<<c.level + 1, f>> : f \in c.in0},
                           vs.log, vs.next, {<<c.level, c.last>>})
               /\ bg' = [bg EXCEPT !.pc = "movelog", !.edit = {e}]
               /\ manifests' = Added(e)
               /\ vs' = Pointed(c)
  BY <1>2
<1>4. /\ Running /\ bg = ThreadOf(bg) /\ vs = VersionSetOf(vs) /\ ~Logging
  BY <1>1, Works DEF Durability, Inv, Shape, Thread, Logging
<1>5. e.next = vs.next /\ e.log = vs.log /\ e.last = vs.last
  BY <1>3, EditFields
<1>. DEFINE pc == "movelog"
            edit == {e}
<1>6. bg' = [bg EXCEPT !.pc = pc, !.edit = edit]
  BY <1>3
<1>. HIDE DEF pc, edit
<1>7. bg' = [pc |-> pc, edit |-> edit, c |-> bg.c, num |-> bg.num,
             manual |-> bg.manual]
  BY <1>4, <1>6, ThreadEdit, Zenon
<1>8. bg'.pc = "movelog" /\ bg'.edit = {e}
  BY <1>7 DEF pc, edit
<1>9. vs'.next = vs.next /\ vs'.log = vs.log /\ vs'.last = vs.last
  <2>1. vs' = [vs EXCEPT !.after[c.level] = {c.last}]
    BY <1>3, Zenon DEF Pointed
  <2>. QED
    BY <1>4, <2>1, PointerMoved, PointerApart
<1>10. /\ logs' = logs /\ curfile' = curfile /\ db' = db /\ mem' = mem /\ imm' = imm
       /\ lognum' = lognum /\ UNCHANGED told /\ UNCHANGED writing
  BY <1>1 DEF life
<1>. QED
  BY <1>3, <1>4, <1>5, <1>8, <1>9, <1>10, EditLasts

LEMMA LogMergeLasts ==
  ASSUME Durability, Inv', LogMerge
  PROVE  Durability'
<1>. DEFINE c == Some(bg.c)
            added == {<<c.level + 1, f>> : f \in ToSet(c.done)}
            e0 == Edit(InputDeletions(c), added, vs.log, vs.next,
                       {<<c.level, c.last>>})
            pc == "mergelog"
<1>1. PICK e : e = e0
  OBVIOUS
<1>. DEFINE edit == {e}
<1>2. /\ bg.pc = "merge" /\ bg' = [bg EXCEPT !.pc = pc, !.edit = edit]
      /\ manifests' = Added(e)
      /\ UNCHANGED <<logs, tables, curfile, life, mem, imm, lognum, vs, writing,
                     scheduled, failed, pending, manual, rd, told, stops>>
  BY <1>1 DEF LogMerge
<1>3. Running /\ bg = ThreadOf(bg) /\ ~Logging
  BY <1>2, Works DEF Durability, Inv, Shape, Thread, Logging
<1>4. e.next = vs.next /\ e.log = vs.log /\ e.last = vs.last
  BY <1>1, EditFields
<1>. HIDE DEF e0, pc, c
<1>5. bg'.pc = "mergelog" /\ bg'.edit = {e}
  <2>. HIDE DEF edit
  <2>1. bg' = [pc |-> pc, edit |-> edit, c |-> bg.c, num |-> bg.num,
               manual |-> bg.manual]
    BY <1>2, <1>3, ThreadEdit, Zenon
  <2>. QED
    BY <2>1 DEF edit, pc
<1>6. /\ logs' = logs /\ curfile' = curfile /\ db' = db /\ mem' = mem /\ imm' = imm
      /\ lognum' = lognum /\ UNCHANGED told /\ UNCHANGED writing /\ vs' = vs
  BY <1>2 DEF life
<1>. QED
  BY <1>2, <1>3, <1>4, <1>5, <1>6, EditLasts

LEMMA BuildTableLasts ==
  ASSUME Durability, Inv', BuildTable
  PROVE  Durability'
<1>1. PICK x, f, l :
        /\ x = Some(imm) /\ f = [num |-> bg.num, ents |-> x] /\ f.ents = x
        /\ l = PickLevelForMemTableOutput(vs.v, Smallest(f).k, Largest(f).k)
  <2>1. PICK x : x = Some(imm)
    OBVIOUS
  <2>2. PICK f : f = [num |-> bg.num, ents |-> x] /\ f.ents = x
    <3>. DEFINE r == [num |-> bg.num, ents |-> x]
    <3>1. r.ents = x
      OBVIOUS
    <3>. HIDE DEF r
    <3>. QED
      BY <3>1 DEF r
  <2>. QED
    BY <2>1, <2>2
<1>. DEFINE added == IF x = {} THEN {} ELSE {<<l, f>>}
            pc == "flushlog"
<1>2. PICK e : e = Edit({}, added, lognum, vs.next, {})
  OBVIOUS
<1>. DEFINE edit == {e}
<1>3. /\ bg.pc = "build" /\ bg' = [bg EXCEPT !.pc = pc, !.edit = edit]
      /\ manifests' = Added(e)
      /\ UNCHANGED <<logs, curfile, life, mem, imm, lognum, vs, writing, told>>
  BY <1>1, <1>2, Zenon DEF BuildTable
<1>4. Running /\ bg = ThreadOf(bg) /\ ~Logging /\ imm # {}
  BY <1>3, Works DEF Durability, Inv, Shape, Thread, Logging, Work, Edits
<1>5. e.next = vs.next /\ e.log = lognum /\ e.last = vs.last /\ e.added = added
  <2>. HIDE DEF added
  <2>. QED
    BY <1>2, EditFields
<1>6. imm = {x}
  <2>1. \E E : imm = {E}
    BY <1>4 DEF Durability, Inv, Shape
  <2>. QED
    BY <1>1, <2>1, SomeOfOne
<1>7. \A E \in imm : E # {} => \E a \in e.added : a[1] \in Levels /\ a[2].ents = E
  <2>1. l \in Levels
    BY <1>1, LevelPicked
  <2>2. CASE x # {}
    <3>1. <<l, f>> \in e.added /\ <<l, f>>[1] = l /\ <<l, f>>[2] = f
      BY <1>5, <2>2
    <3>. QED
      BY <1>1, <1>6, <2>1, <3>1
  <2>. QED
    BY <1>6, <2>2
<1>. HIDE DEF added, pc
<1>8. bg'.pc = "flushlog" /\ bg'.edit = {e}
  <2>. HIDE DEF edit
  <2>1. bg' = [pc |-> pc, edit |-> edit, c |-> bg.c, num |-> bg.num,
               manual |-> bg.manual]
    BY <1>3, <1>4, ThreadEdit, Zenon
  <2>. QED
    BY <2>1 DEF edit, pc
<1>9. /\ logs' = logs /\ curfile' = curfile /\ db' = db /\ mem' = mem /\ imm' = imm
      /\ lognum' = lognum /\ UNCHANGED told /\ UNCHANGED writing /\ vs' = vs
  BY <1>3 DEF life
<1>. QED
  BY <1>3, <1>4, <1>5, <1>7, <1>8, <1>9, EditLasts

\* The descriptor may be read back as fewer states, and logs that none of them
\* needs are gone.
LEMMA StatesLost ==
  ASSUME Durability, Inv', Running, bg'.pc \in {"idle", "merge"},
         curfile' = curfile, db' = db, mem' = mem, lognum' = lognum,
         UNCHANGED told, queue' = queue, group' = group, wr' = Woken(wr),
         States' \subseteq States, Points' \subseteq Points,
         vs'.last = vs.last, vs'.next = vs.next,
         DOMAIN logs' \subseteq DOMAIN logs,
         \A n \in DOMAIN logs' : logs'[n] = logs[n],
         \A k \in Points' : \A n \in DOMAIN logs : n >= k => n \in DOMAIN logs',
         \/ imm' = imm /\ vs'.log = vs.log
         \/ vs'.log = lognum
  PROVE  Durability'
<1>1. /\ Inv /\ Logs /\ Grouped /\ Marks /\ Present /\ Promised /\ Active /\ Memory
      /\ Writes /\ Untorn /\ DOMAIN logs \subseteq Nat /\ vs.next \in Nat
      /\ curfile # 0
  BY RunningStates DEF Durability, Work, Disk, Inv, Shape
<1>2. Running'
  BY DEF Running
<1>3. /\ applied' = applied /\ limbo' = limbo /\ durable' = durable /\ Taken' = Taken
  BY DEF told, Taken
<1>4. vs'.log \in Points' /\ vs'.log \in Points
  BY <1>2 DEF Points
<1>5. /\ lognum \in DOMAIN logs /\ lognum \in Nat
      /\ \A n \in Points : n \in Nat /\ n <= lognum
  <2>1. \A st \in States : st.log \in Nat
    BY <1>1 DEF Marks
  <2>2. \A n \in Points : n \in Nat
    BY <1>1, <2>1 DEF Active, Points
  <2>. QED
    BY <1>1, <2>2 DEF Active
<1>6. ASSUME NEW r \in Taken, NEW k \in Points', r.log >= k
      PROVE  (InLog(r) => InLog(r)') /\ (InSync(r) => InSync(r)')
  BY <1>6 DEF InLog, InSync
<1>7. Logs'
  <2>1. \A n \in DOMAIN logs' : n \in DOMAIN logs /\ LogRight(logs'[n])
    BY <1>1 DEF Logs
  <2>2. \A b : Numbers(b) => Numbers(b)'
    BY DEF Numbers
  <2>. QED
    BY <1>1, <2>1, <2>2 DEF Logs
<1>8. Grouped' /\ Marks'
  BY <1>1, <1>3 DEF Grouped, Marks
<1>9. ASSUME NEW r \in Taken
      PROVE  r.log \in Nat
  BY <1>1 DEF Grouped
<1>10. Present'
  <2>1. ASSUME NEW r \in Taken, NEW k \in Points'
        PROVE  r.log < k \/ InLog(r)'
    <3>1. r.log < k \/ InLog(r)
      BY <1>1 DEF Present
    <3>2. k \in Nat
      BY <1>5
    <3>. QED
      BY <1>6, <1>9, <3>1, <3>2
  <2>. QED
    BY <1>1, <1>2, <1>3, <2>1 DEF Present
<1>11. Promised'
  <2>1. ASSUME NEW r \in applied, Safe(r)
        PROVE  Safe(r)'
    <3>1. ASSUME NEW k \in Points'
          PROVE  r.log < k \/ InSync(r)'
      <4>1. r \in Taken /\ k \in Nat
        BY <1>5 DEF Taken
      <4>2. r.log < k \/ InSync(r)
        BY <2>1 DEF Safe
      <4>. QED
        BY <1>6, <1>9, <4>1, <4>2
    <3>. QED
      BY <3>1 DEF Safe
  <2>. QED
    BY <1>1, <1>3, <2>1 DEF Promised
<1>12. lognum \in DOMAIN logs'
  BY <1>4, <1>5
<1>13. Writes' /\ InHand' = InHand
  <2>1. ASSUME NEW r \in InHand, InSync(r)
        PROVE  InSync(r)'
    <3>1. r.log = lognum
      BY DEF InHand
    <3>. QED
      BY <1>12, <2>1, <3>1 DEF InSync
  <2>2. limbo' = limbo /\ vs'.last = vs.last
    BY <1>3
  <2>. QED
    BY <1>1, <2>1, <2>2, OthersWrite
<1>14. Active'
  <2>1. vs'.log \in Nat
    BY <1>4, <1>5
  <2>. QED
    BY <1>1, <1>3, <1>5, <1>12, <1>13, <2>1 DEF Active
<1>15. Memory'
  <2>1. CASE vs'.log = lognum
    BY <1>1, <1>2, <1>3, <1>5, <1>9, <2>1 DEF Memory, Taken
  <2>2. CASE imm' = imm /\ vs'.log = vs.log
    BY <1>1, <1>3, <2>2 DEF Memory
  <2>. QED
    BY <2>1, <2>2
<1>16. Edits'
  BY DEF Edits, Logging
<1>17. Disk'
  BY <1>7, <1>8, <1>10, <1>11 DEF Disk
<1>. QED
  BY <1>1, <1>2, <1>13, <1>14, <1>15, <1>16, <1>17, NotOpening DEF Durability, Work,
     Untorn, Start, Running, Replaying, Settling, Calm

\* The edit is synced and its version is current.
LEMMA InstallLasts ==
  ASSUME Durability, Inv', Logging, NEW e, bg.edit = {e}, vs' = Install(e),
         manifests'[vs.man] = <<ReadState(manifests[vs.man])>>,
         bg'.pc \in {"idle", "merge"},
         curfile' = curfile, db' = db, mem' = mem, lognum' = lognum,
         UNCHANGED told, queue' = queue, group' = group, wr' = Woken(wr),
         DOMAIN logs' \subseteq DOMAIN logs,
         \A n \in DOMAIN logs' : logs'[n] = logs[n],
         \A n \in DOMAIN logs : n >= vs'.log => n \in DOMAIN logs',
         bg.pc # "flushlog" => imm' = imm
  PROVE  Durability'
<1>1. Inv /\ Running /\ Edits /\ vs = VersionSetOf(vs)
  BY EditOf DEF Durability, Work, Inv, Shape
<1>2. vs'.log = e.log /\ vs'.last = vs.last /\ vs'.next = vs.next
  <2>. DEFINE none == {}
              v == ApplyEdit(vs.v, e.deleted, e.added)
  <2>1. vs' = [vs EXCEPT !.v = v, !.log = e.log, !.seek = none]
    BY Zenon DEF Install
  <2>. HIDE DEF none, v
  <2>. QED
    BY <1>1, <2>1, VersionInstalled
<1>3. LastState.log = e.log
  BY <1>1 DEF Edits
<1>4. curfile = vs.man /\ LastState \in States
  BY <1>1, RunningStates
<1>5. manifests'[curfile'] = <<LastState>> /\ Len(<<LastState>>) = 1
  BY <1>4 DEF LastState
<1>6. States' = {LastState}
  <2>1. PICK s : s = LastState
    OBVIOUS
  <2>2. /\ Len(manifests'[curfile']) = 1 /\ manifests'[curfile'][1] = s
    BY <1>5, <2>1
  <2>. QED
    BY <2>1, <2>2 DEF States
<1>7. Points' = {e.log}
  <2>1. Running'
    BY <1>1 DEF Running
  <2>. QED
    BY <1>2, <1>3, <1>6, <2>1 DEF Points
<1>8. States' \subseteq States /\ Points' \subseteq Points
  BY <1>3, <1>4, <1>6, <1>7 DEF Points
<1>9. \/ imm' = imm /\ vs'.log = vs.log
      \/ vs'.log = lognum
  BY <1>1, <1>2 DEF Edits, Logging
<1>10. \A k \in Points' : \A n \in DOMAIN logs : n >= k => n \in DOMAIN logs'
  BY <1>2, <1>7
<1>. QED
  BY <1>1, <1>2, <1>8, <1>9, <1>10, StatesLost

\* Which logs are deleted
LEMMA LogsCleaned ==
  ASSUME Inv, Running, NEW keep, vs'.man = vs.man,
         IF failed THEN manifests' = Synced /\ UNCHANGED <<logs, tables>>
         ELSE DeleteObsolete(vs', keep, logs, tables, Synced)
  PROVE  /\ manifests'[vs.man] = <<ReadState(manifests[vs.man])>>
         /\ DOMAIN logs' \subseteq DOMAIN logs
         /\ \A n \in DOMAIN logs' : logs'[n] = logs[n]
         /\ \A n \in DOMAIN logs : n >= vs'.log => n \in DOMAIN logs'
<1>1. /\ vs.man \in DOMAIN manifests /\ DOMAIN Synced = DOMAIN manifests
      /\ Synced[vs.man] = <<ReadState(manifests[vs.man])>> /\ vs.man \in Nat
  BY SyncedStates DEF Inv, Shape
<1>. HIDE DEF Synced
<1>2. CASE failed
  BY <1>1, <1>2
<1>3. CASE ~failed
  <2>1. DeleteObsolete(vs', keep, logs, tables, Synced)
    BY <1>3
  <2>2. /\ logs' = [n \in {x \in DOMAIN logs : x >= vs'.log} |-> logs[n]]
        /\ manifests' = [n \in {x \in DOMAIN Synced : x >= vs'.man} |-> Synced[n]]
    BY <2>1, Zenon DEF DeleteObsolete
  <2>3. vs.man >= vs'.man
    BY <1>1
  <2>. QED
    BY <1>1, <2>2, <2>3
<1>. QED
  BY <1>2, <1>3

LEMMA FinishEditLasts ==
  ASSUME Durability, Inv', FinishFlush \/ FinishMerge \/ FinishMove
  PROVE  Durability'
<1>. DEFINE e == Some(bg.edit)
<1>1. /\ Logging /\ vs' = Install(e)
      /\ curfile' = curfile /\ db' = db /\ mem' = mem /\ lognum' = lognum
      /\ UNCHANGED told /\ queue' = queue /\ group' = group
      /\ bg.pc # "flushlog" => imm' = imm
  BY DEF FinishFlush, FinishMerge, FinishMove, Logging, life
<1>2. bg.edit = {e} /\ Running /\ Shape /\ Inv
  BY <1>1, EditOf DEF Durability
<1>. HIDE DEF e
<1>3. vs'.man = vs.man
  BY <1>1, <1>2, InstallSets
<1>4. bg'.pc \in {"idle", "merge"} /\ wr' = Woken(wr)
  <2>1. CASE FinishFlush
    BY <1>2, <2>1, FlushEnds DEF FinishFlush
  <2>2. CASE FinishMerge
    BY <2>2, CallEnds DEF FinishMerge
  <2>3. CASE FinishMove
    BY <2>3, CallEnds DEF FinishMove
  <2>. QED
    BY <2>1, <2>2, <2>3
<1>5. /\ manifests'[vs.man] = <<ReadState(manifests[vs.man])>>
      /\ DOMAIN logs' \subseteq DOMAIN logs
      /\ \A n \in DOMAIN logs' : logs'[n] = logs[n]
      /\ \A n \in DOMAIN logs : n >= vs'.log => n \in DOMAIN logs'
  <2>1. CASE FinishFlush \/ FinishMerge
    <3>1. \E keep :
            IF failed THEN manifests' = Synced /\ UNCHANGED <<logs, tables>>
            ELSE DeleteObsolete(vs', keep, logs, tables, Synced)
      BY <2>1, Zenon DEF FinishFlush, FinishMerge
    <3>2. PICK keep :
            IF failed THEN manifests' = Synced /\ UNCHANGED <<logs, tables>>
            ELSE DeleteObsolete(vs', keep, logs, tables, Synced)
      BY <3>1
    <3>. QED
      BY <1>2, <1>3, <3>2, LogsCleaned
  <2>2. CASE FinishMove
    BY <1>2, <2>2, SyncedStates DEF FinishMove
  <2>. QED
    BY <2>1, <2>2
<1>. QED
  BY <1>1, <1>2, <1>4, <1>5, InstallLasts

LEMMA ManifestFailsLasts ==
  ASSUME Durability, Inv', ManifestFails
  PROVE  Durability'
<1>1. /\ Logging
      /\ \/ manifests' = manifests
         \/ manifests' = [manifests EXCEPT ![vs.man] = SubSeq(@, 1, Len(@) - 1)]
      /\ UNCHANGED <<logs, tables, curfile, life, mem, imm, lognum, vs, queue,
                     group, rd, told, stops>>
  BY DEF ManifestFails, EditFails, Logging
<1>2. wr' = Woken(wr) /\ bg'.pc \in {"idle", "merge"}
  <2>1. CASE EndFlush(imm, vs, TRUE)
    BY <2>1, FlushEnds DEF Inv, Durability
  <2>2. CASE \E mn : EndCall(imm, mn, vs, TRUE)
    BY <2>2, CallEnds
  <2>3. EndFlush(imm, vs, TRUE) \/ \E mn : EndCall(imm, mn, vs, TRUE)
    BY Zenon DEF ManifestFails
  <2>. QED
    BY <2>1, <2>2, <2>3
<1>3. Running /\ Inv
  BY <1>1, EditOf DEF Durability
<1>4. /\ curfile = vs.man /\ Descriptor(vs.man)
      /\ Len(manifests[vs.man]) > 1
  BY <1>1, <1>3, InUse DEF Inv, DInv, Current
<1>5. States' \subseteq States
  <2>1. CASE manifests' = manifests
    BY <1>1, <2>1 DEF States
  <2>2. CASE manifests' = [manifests EXCEPT ![vs.man] = SubSeq(@, 1, Len(@) - 1)]
    <3>1. PICK old : old = manifests[curfile]
      OBVIOUS
    <3>2. old \in Seq(ToSet(old)) /\ Len(old) > 1 /\ vs.man \in DOMAIN manifests
      BY <1>4, <3>1 DEF Descriptor
    <3>3. Len(old) \in Nat /\ Len(old) - 1 \in 0..Len(old)
      BY <3>2
    <3>4. manifests'[curfile'] = SubSeq(old, 1, Len(old) - 1)
      BY <1>1, <1>4, <2>2, <3>1, <3>2
    <3>5. /\ Len(SubSeq(old, 1, Len(old) - 1)) = Len(old) - 1
          /\ \A i \in 1..(Len(old) - 1) : SubSeq(old, 1, Len(old) - 1)[i] = old[i]
      BY <3>2, <3>3, FirstOnes
    <3>6. \A i \in 1..(Len(old) - 1) : i \in 1..Len(old)
      BY <3>3
    <3>. QED
      BY <3>1, <3>4, <3>5, <3>6 DEF States
  <2>. QED
    BY <1>1, <2>1, <2>2
<1>6. Points' \subseteq Points
  BY <1>1, <1>3, <1>5 DEF Points, Running, life
<1>7. /\ logs' = logs /\ curfile' = curfile /\ db' = db /\ mem' = mem
      /\ lognum' = lognum /\ UNCHANGED told /\ queue' = queue /\ group' = group
      /\ imm' = imm /\ vs'.log = vs.log /\ vs'.last = vs.last /\ vs'.next = vs.next
  BY <1>1 DEF life
<1>. QED
  BY <1>2, <1>3, <1>5, <1>6, <1>7, StatesLost


-----------------------------------------------------------------------------
(* Stopping and opening.                                                   *)

\* What is cut off a log when the store stops is what was not synced.
Cut(old, new) ==
  /\ LogRight(new) /\ new.synced = old.synced
  /\ old.synced <= Len(new.recs) /\ Len(new.recs) <= Len(old.recs)
  /\ \A i \in 1..Len(new.recs) : new.recs[i] = old.recs[i]

\* The descriptor is still there, with one of its states as the last one.
LEMMA StatesLeft ==
  ASSUME Inv, curfile # 0, curfile' = curfile, StatesKept
  PROVE  States' \subseteq States /\ LastState' \in States'
<1>1. Descriptor(curfile) /\ LastState \in States
  BY StatesRead
<1>2. CASE manifests' = manifests
  <2>1. States' = States /\ LastState' = LastState
    BY <1>2 DEF States, LastState, ReadState
  <2>. QED
    BY <1>1, <2>1
<1>3. CASE \E new : /\ PartOf(new, manifests[curfile])
                   /\ manifests' = [manifests EXCEPT ![curfile] = new]
  <2>1. PICK old : old = manifests[curfile]
    OBVIOUS
  <2>2. Len(old) \in Nat /\ curfile \in DOMAIN manifests
    BY <1>1, <2>1 DEF Descriptor
  <2>3. PICK new : /\ PartOf(new, old)
                   /\ manifests' = [manifests EXCEPT ![curfile] = new]
    BY <1>3, <2>1
  <2>4. manifests'[curfile'] = new
    BY <2>2, <2>3
  <2>5. PICK k \in Nat : /\ Len(new) + k <= Len(old)
                         /\ \A i \in 1..Len(new) : new[i] = old[i + k]
    BY <2>3 DEF PartOf
  <2>6. Len(new) \in Nat /\ Len(new) \in 1..Len(new)
    BY <2>3 DEF PartOf
  <2>7. \A i \in 1..Len(new) : i + k \in 1..Len(old)
    BY <2>2, <2>5, <2>6
  <2>. QED
    <3>1. States = {old[j] : j \in 1..Len(old)}
      BY <2>1 DEF States
    <3>2. States' = {new[i] : i \in 1..Len(new)} /\ LastState' = new[Len(new)]
      BY <2>4 DEF States, LastState, ReadState
    <3>3. \A i \in 1..Len(new) : new[i] \in States
      BY <2>5, <2>7, <3>1
    <3>. QED
      BY <2>6, <3>2, <3>3
<1>. QED
  BY <1>2, <1>3 DEF StatesKept

\* Who is still there after a stop
LEMMA SurvivorsLeft ==
  ASSUME Stopped, curfile # 0
  PROVE  /\ limbo' = {} /\ durable' = durable
         /\ \A r : r \in applied' <=>
              \/ r \in applied /\ r.log < LastState'.log
              \/ /\ r \in Taken /\ r.log >= LastState'.log
                 /\ r.log \in DOMAIN logs' /\ r.ents \in ToSet(logs'[r.log].recs)
<1>1. /\ curfile' = curfile /\ limbo' = {} /\ durable' = durable
      /\ applied' = Survivors
  BY DEF Stopped
<1>2. ReadState(manifests'[curfile]) = LastState'
  BY <1>1 DEF LastState, ReadState
<1>3. PICK st : st = LastState'
  OBVIOUS
<1>. DEFINE there(r) == r.log \in DOMAIN logs' /\ r.log >= st.log
                          /\ r.ents \in ToSet(logs'[r.log].recs)
<1>4. applied' = {r \in applied : r.log < st.log \/ there(r)}
                   \cup {r \in limbo : there(r)}
  BY <1>1, <1>2, <1>3, Zenon DEF Survivors
<1>. HIDE DEF there
<1>5. \A r : r \in applied' <=> \/ r \in applied /\ r.log < st.log
                                \/ r \in Taken /\ there(r)
  BY <1>4 DEF Taken
<1>. QED
  BY <1>1, <1>3, <1>5 DEF there

\* Nothing that the descriptor has not passed is lost but what was not synced.
LEMMA StopLasts ==
  ASSUME Durability, Inv', db # "closed", Stopped, DOMAIN logs' = DOMAIN logs,
         \A n \in DOMAIN logs : Cut(logs[n], logs'[n]), StatesKept
  PROVE  Durability'
<1>1. /\ Inv /\ Logs /\ Grouped /\ Marks /\ Promised /\ Untorn
      /\ DOMAIN logs \subseteq Nat /\ curfile # 0
  BY DEF Durability, Disk, Inv, Shape, DInv, Descriptors
<1>2. /\ db' = "closed" /\ bg' = IdleBg /\ group' = {} /\ curfile' = curfile
      /\ wr' = [w \in Writers |-> NoWriter]
  BY DEF Stopped, Volatile
<1>3. ~(Running')
  BY <1>2 DEF Running
<1>4. States' \subseteq States /\ LastState' \in States' /\ Points' \subseteq Points
      /\ LastState'.log \in Points
  <2>1. States' \subseteq States /\ LastState' \in States'
    BY <1>1, <1>2, StatesLeft
  <2>. QED
    BY <1>3, <2>1 DEF Points
<1>5. PICK st : st = LastState'
  OBVIOUS
<1>6. st \in States /\ st.log \in Nat /\ st.log \in Points
  BY <1>1, <1>4, <1>5 DEF Marks
<1>7. /\ limbo' = {} /\ durable' = durable
      /\ \A r : r \in applied' <=>
           \/ r \in applied /\ r.log < st.log
           \/ /\ r \in Taken /\ r.log >= st.log
              /\ r.log \in DOMAIN logs' /\ r.ents \in ToSet(logs'[r.log].recs)
  BY <1>1, <1>5, SurvivorsLeft
<1>8. Taken' = applied' /\ Taken' \subseteq Taken
  BY <1>7 DEF Taken
<1>9. \A n \in DOMAIN logs :
        /\ logs'[n].recs \in Seq(ToSet(logs'[n].recs))
        /\ DOMAIN logs'[n].recs = 1..Len(logs'[n].recs)
        /\ Len(logs'[n].recs) \in Nat /\ Len(logs[n].recs) \in Nat
        /\ logs[n].synced \in Nat
  <2>1. \A n \in DOMAIN logs : LogRight(logs'[n]) /\ LogRight(logs[n])
    BY <1>1 DEF Cut, Logs
  <2>. QED
    BY <2>1 DEF LogRight
<1>10. Logs'
  <2>1. ASSUME NEW b, Numbers(b)
        PROVE  Numbers(b)'
    <3>1. ASSUME NEW n \in DOMAIN logs, NEW i \in 1..Len(logs'[n].recs),
                 NEW e \in logs'[n].recs[i]
          PROVE  e.s \in Nat /\ e.s <= b
      <4>1. i \in 1..Len(logs[n].recs) /\ e \in logs[n].recs[i]
        BY <1>9, <3>1 DEF Cut
      <4>. QED
        BY <2>1, <4>1 DEF Numbers
    <3>. QED
      BY <3>1 DEF Numbers
  <2>2. \A n \in DOMAIN logs' : LogRight(logs'[n])
    BY DEF Cut
  <2>. QED
    BY <1>1, <2>1, <2>2 DEF Logs
<1>11. Grouped' /\ Marks'
  BY <1>1, <1>2, <1>4, <1>8 DEF Grouped, Marks
<1>12. Present'
  <2>1. ASSUME NEW r \in applied', ~(r.log < st.log)
        PROVE  InLog(r)'
    <3>1. r.log \in DOMAIN logs' /\ r.ents \in ToSet(logs'[r.log].recs)
      BY <1>7, <2>1
    <3>. QED
      BY <1>9, <3>1 DEF InLog, ToSet
  <2>. QED
    BY <1>1, <1>2, <1>3, <1>5, <1>8, <2>1 DEF Present
<1>13. \A r : InSync(r) => InSync(r)' /\ r.ents \in ToSet(logs'[r.log].recs)
  <2>1. ASSUME NEW r, InSync(r)
        PROVE  InSync(r)' /\ r.ents \in ToSet(logs'[r.log].recs)
    <3>1. PICK i \in 1..logs[r.log].synced : logs[r.log].recs[i] = r.ents
      BY <2>1 DEF InSync
    <3>2. r.log \in DOMAIN logs
      BY <2>1 DEF InSync
    <3>3. /\ logs'[r.log].synced = logs[r.log].synced
          /\ i \in 1..Len(logs'[r.log].recs) /\ logs'[r.log].recs[i] = r.ents
      <4>1. PICK old, new : old = logs[r.log] /\ new = logs'[r.log]
        OBVIOUS
      <4>2. Cut(old, new) /\ Len(new.recs) \in Nat /\ old.synced \in Nat
        BY <1>9, <3>2, <4>1
      <4>3. i \in 1..old.synced /\ old.recs[i] = r.ents
        BY <3>1, <4>1
      <4>4. i \in 1..Len(new.recs)
        BY <4>2, <4>3 DEF Cut
      <4>. QED
        BY <4>1, <4>2, <4>3, <4>4 DEF Cut
    <3>4. InSync(r)'
      BY <3>1, <3>2, <3>3 DEF InSync
    <3>. QED
      BY <1>9, <3>2, <3>3, <3>4 DEF ToSet
  <2>. QED
    BY <2>1
<1>14. Promised'
  <2>1. ASSUME NEW r \in applied, Safe(r)
        PROVE  r \in applied' /\ Safe(r)'
    <3>1. Safe(r)'
      BY <1>4, <1>13, <2>1 DEF Safe
    <3>2. r \in Taken /\ r.log \in Nat
      BY <1>1 DEF Taken, Grouped
    <3>3. CASE r.log < st.log
      BY <1>7, <2>1, <3>1, <3>3
    <3>4. CASE ~(r.log < st.log)
      <4>1. InSync(r)
        BY <1>6, <2>1, <3>4 DEF Safe
      <4>2. r.log \in DOMAIN logs /\ r.ents \in ToSet(logs'[r.log].recs)
        BY <1>13, <4>1 DEF InSync
      <4>. QED
        BY <1>6, <1>7, <3>1, <3>2, <3>4, <4>2
    <3>. QED
      BY <3>1, <3>3, <3>4
  <2>. QED
    BY <1>1, <1>2, <1>7, <2>1 DEF Promised
<1>15. Work'
  <2>1. \A w \in Writers : wr'[w].batch = <<>>
    BY <1>2 DEF NoWriter
  <2>2. <<>> \in Seq(ToSet(<<>>))
    OBVIOUS
  <2>3. Batches'
    BY <2>1, <2>2 DEF Batches
  <2>4. bg'.pc = "idle"
    BY <1>2 DEF IdleBg
  <2>5. Edits'
    BY <2>4 DEF Edits, Logging
  <2>. QED
    BY <1>2, <1>3, <2>3, <2>5 DEF Work, Active, Memory, Writes
<1>16. Start'
  BY <1>2, <1>3, <1>7 DEF Start, Replaying, Settling, Calm
<1>. QED
  BY <1>1, <1>10, <1>11, <1>12, <1>14, <1>15, <1>16 DEF Durability, Disk, Untorn

LEMMA StopsLast ==
  ASSUME Durability, Inv', Kill \/ PowerLoss \/ Closed \/ NullRange
  PROVE  Durability'
<1>1. /\ db # "closed" /\ Stopped /\ Logs /\ Inv
      /\ \A n \in DOMAIN logs : LogRight(logs[n])
  <2>1. Inv
    BY DEF Durability
  <2>. QED
    BY <2>1, NullKeepsStates DEF Kill, PowerLoss, Closed, NullRange, Durability,
       Disk, Logs
<1>2. CASE Kill \/ Closed \/ NullRange
  <2>1. logs' = logs /\ StatesKept
    BY <1>1, <1>2, NullKeepsStates DEF Kill, Closed, NullRange, StatesKept
  <2>2. \A n \in DOMAIN logs : Cut(logs[n], logs'[n])
    BY <1>1, <2>1 DEF Cut, LogRight
  <2>. QED
    BY <1>1, <2>1, <2>2, StopLasts
<1>3. CASE PowerLoss
  <2>1. PICK cut \in [DOMAIN logs -> 0..MaxSeq] :
          /\ \A n \in DOMAIN logs :
               logs[n].synced <= cut[n] /\ cut[n] <= Len(logs[n].recs)
          /\ logs' = [n \in DOMAIN logs |->
                       [logs[n] EXCEPT !.recs = SubSeq(@, 1, cut[n])]]
    BY <1>3 DEF PowerLoss
  <2>2. ASSUME NEW n \in DOMAIN logs
        PROVE  Cut(logs[n], logs'[n])
    <3>1. PICK l, k, whole : l = logs[n] /\ k = cut[n] /\ whole = FALSE
      OBVIOUS
    <3>2. /\ l = [recs |-> l.recs, synced |-> l.synced, torn |-> whole]
          /\ l.recs \in Seq(ToSet(l.recs)) /\ l.synced \in 0..Len(l.recs)
      BY <1>1, <3>1 DEF LogRight
    <3>3. k \in 0..Len(l.recs) /\ l.synced <= k
      BY <2>1, <3>1, <3>2
    <3>4. PICK s : s = SubSeq(l.recs, 1, k)
      OBVIOUS
    <3>5. /\ s \in Seq(ToSet(s)) /\ Len(s) = k
          /\ \A i \in 1..k : s[i] = l.recs[i]
      BY <3>2, <3>3, <3>4, FirstOnes
    <3>6. logs'[n] = [l EXCEPT !.recs = s]
      BY <2>1, <3>1, <3>4
    <3>7. logs'[n] = [recs |-> s, synced |-> l.synced, torn |-> whole]
      BY <3>2, <3>6
    <3>8. /\ logs'[n].recs = s /\ logs'[n].synced = l.synced
          /\ logs'[n] = [recs |-> logs'[n].recs, synced |-> logs'[n].synced,
                         torn |-> whole]
      BY <3>7
    <3>9. l.synced \in 0..Len(s) /\ Len(s) <= Len(l.recs)
      BY <3>2, <3>3, <3>5
    <3>10. PICK m : m = logs'[n]
      OBVIOUS
    <3>11. /\ m = [recs |-> m.recs, synced |-> m.synced, torn |-> whole]
           /\ m.recs = s /\ m.synced = l.synced
      BY <3>8, <3>10, Zenon
    <3>12. m.recs \in Seq(ToSet(m.recs)) /\ m.synced \in 0..Len(m.recs)
      BY <3>5, <3>9, <3>11
    <3>13. LogRight(m)
      BY <3>1, <3>11, <3>12, Zenon DEF LogRight
    <3>14. /\ m.synced = l.synced /\ l.synced <= Len(m.recs)
           /\ Len(m.recs) <= Len(l.recs)
           /\ \A i \in 1..Len(m.recs) : m.recs[i] = l.recs[i]
      BY <3>3, <3>5, <3>9, <3>11
    <3>. QED
      BY <3>1, <3>10, <3>13, <3>14, Zenon DEF Cut
  <2>3. DOMAIN logs' = DOMAIN logs
    BY <2>1
  <2>4. StatesKept
    BY <1>1, <1>3, PowerKeepsStates
  <2>. QED
    BY <1>1, <2>2, <2>3, <2>4, StopLasts
<1>. QED
  BY <1>2, <1>3

\* When only the process stops, all that was answered is still there.
LEMMA KillKeepsApplied ==
  ASSUME Durability, Kill \/ Closed \/ NullRange
  PROVE  applied \subseteq applied'
<1>1. /\ Inv /\ db # "closed" /\ Stopped /\ logs' = logs /\ StatesKept
      /\ curfile # 0 /\ curfile' = curfile /\ Present /\ Grouped /\ Marks /\ Logs
  <2>1. Inv /\ Present /\ Grouped /\ Marks /\ Logs
    BY DEF Durability, Disk
  <2>2. db # "closed" /\ Stopped /\ logs' = logs /\ StatesKept
    BY <2>1, NullKeepsStates DEF Kill, Closed, NullRange, StatesKept
  <2>3. curfile # 0 /\ curfile' = curfile
    BY <2>1, <2>2 DEF Stopped, Inv, DInv, Descriptors
  <2>. QED
    BY <2>1, <2>2, <2>3
<1>2. LastState' \in States /\ LastState'.log \in Nat
  BY <1>1, StatesLeft DEF Marks
<1>3. Running \/ LastState' = LastState
  <2>1. CASE Kill \/ Closed
    <3>1. manifests' = manifests
      BY <2>1 DEF Kill, Closed
    <3>. QED
      BY <1>1, <3>1 DEF LastState, ReadState
  <2>2. CASE NullRange
    BY <1>1, <2>2, NullKeepsStates
  <2>. QED
    BY <2>1, <2>2
<1>4. PICK st : st = LastState'
  OBVIOUS
<1>5. \A r : r \in applied' <=>
           \/ r \in applied /\ r.log < st.log
           \/ /\ r \in Taken /\ r.log >= st.log
              /\ r.log \in DOMAIN logs /\ r.ents \in ToSet(logs[r.log].recs)
  BY <1>1, <1>2, <1>4, SurvivorsLeft
<1>6. ASSUME NEW r \in applied
      PROVE  r \in applied'
  <2>1. r \in Taken /\ r.log \in Nat
    BY <1>1 DEF Taken, Grouped
  <2>2. r.log < st.log \/ InLog(r)
    <3>1. CASE Running
      BY <1>1, <1>2, <1>4, <2>1, <3>1 DEF Present, Points
    <3>2. CASE ~Running
      BY <1>1, <1>4, <1>3, <2>1, <3>2 DEF Present
    <3>. QED
      BY <3>1, <3>2
  <2>3. InLog(r) => r.log \in DOMAIN logs /\ r.ents \in ToSet(logs[r.log].recs)
    <3>1. \A n \in DOMAIN logs : DOMAIN logs[n].recs = 1..Len(logs[n].recs)
      BY <1>1 DEF Logs, LogRight
    <3>. QED
      BY <3>1 DEF InLog, ToSet
  <2>. QED
    BY <1>2, <1>4, <1>5, <2>1, <2>2, <2>3
<1>. QED
  BY <1>6

\* Nobody works while the store is opened.
LEMMA IdleWork ==
  ASSUME Durability, ~Running, ~(Running'), UNCHANGED <<writing, bg>>
  PROVE  Work' /\ group = {} /\ bg.pc = "idle"
<1>1. Inv /\ Quiet /\ Batches
  BY DEF Durability, Inv, Work, Writes
<1>2. group = {} /\ bg.pc = "idle"
  BY <1>1 DEF Quiet, Inv, WInv, Group, IdleBg
<1>3. group' = group /\ wr' = wr /\ bg' = bg
  BY DEF writing
<1>4. Batches' /\ Edits'
  BY <1>1, <1>2, <1>3 DEF Batches, Edits, Logging
<1>. QED
  BY <1>2, <1>3, <1>4 DEF Work, Active, Memory, Writes

\* What is on disk stays while the store is opened; the logs may grow.
LEMMA DiskStays ==
  ASSUME Durability, ~Running, ~(Running'), curfile # 0, Logs',
         curfile' = curfile, manifests'[curfile] = manifests[curfile],
         UNCHANGED told,
         \A r : (InLog(r) => InLog(r)') /\ (InSync(r) => InSync(r)')
  PROVE  Disk' /\ LastState' = LastState
<1>1. Grouped /\ Marks /\ Present /\ Promised
  BY DEF Durability, Disk
<1>2. /\ applied' = applied /\ limbo' = limbo /\ durable' = durable /\ Taken' = Taken
  BY DEF told, Taken
<1>3. States' = States /\ LastState' = LastState
  BY DEF States, LastState, ReadState
<1>4. Points' = Points
  BY <1>3 DEF Points
<1>5. Grouped' /\ Marks'
  BY <1>1, <1>2, <1>3 DEF Grouped, Marks
<1>6. Present'
  BY <1>1, <1>2, <1>3 DEF Present
<1>7. Promised'
  <2>1. \A r : Safe(r) => Safe(r)'
    BY <1>4 DEF Safe
  <2>. QED
    BY <1>1, <1>2, <2>1 DEF Promised
<1>. QED
  BY <1>3, <1>5, <1>6, <1>7 DEF Disk

LEMMA SameLogs ==
  ASSUME Logs, logs' = logs
  PROVE  /\ Logs'
         /\ \A r : (InLog(r) => InLog(r)') /\ (InSync(r) => InSync(r)')
<1>1. \A b : Numbers(b) => Numbers(b)'
  BY DEF Numbers
<1>. QED
  BY <1>1 DEF Logs, InLog, InSync

LEMMA NewDBLasts ==
  ASSUME Durability, Inv', NewDB
  PROVE  Durability'
<1>1. /\ db = "closed" /\ curfile = 0 /\ curfile' = 1
      /\ manifests' = With(manifests, 1, <<NewState>>)
      /\ UNCHANGED <<logs, tables, life, mem, imm, lognum, vs, writing, scheduled,
                     bg, failed, pending, manual, rd, told, stops>>
  BY DEF NewDB
<1>2. /\ db' = db /\ logs' = logs /\ UNCHANGED <<writing, bg>>
      /\ applied' = applied /\ limbo' = limbo /\ durable' = durable
  BY <1>1 DEF life, told
<1>3. /\ ~Running /\ ~(Running') /\ Logs /\ Present /\ Untorn
  BY <1>1, <1>2 DEF Running, Durability, Disk
<1>4. Taken' = {} /\ durable' = {} /\ limbo' = {}
  BY <1>1, <1>2, <1>3 DEF Present, Taken
<1>5. Work'
  BY <1>2, <1>3, IdleWork
<1>6. Logs'
  BY <1>2, <1>3, SameLogs
<1>7. NewState.log = 0 /\ NewState.last = 0 /\ NewState.next = 2
  BY DEF NewState
<1>8. States' = {NewState}
  <2>1. PICK s : s = NewState
    OBVIOUS
  <2>2. manifests'[curfile'] = <<s>>
    BY <1>1, <2>1 DEF With
  <2>. QED
    BY <2>1, <2>2 DEF States
<1>9. Marks'
  BY <1>4, <1>7, <1>8 DEF Marks
<1>10. Disk'
  BY <1>1, <1>3, <1>4, <1>6, <1>9 DEF Disk, Grouped, Present, Promised
<1>11. Start'
  BY <1>1, <1>2, <1>4 DEF Start, Replaying, Settling, Calm
<1>. QED
  BY <1>3, <1>5, <1>10, <1>11 DEF Durability, Untorn

LEMMA RecoverLasts ==
  ASSUME Durability, Inv', Recover
  PROVE  Durability'
<1>1. PICK st : st = LastState
  OBVIOUS
<1>2. PICK left, none : left = {x \in DOMAIN logs : x >= st.log} /\ none = {}
  OBVIOUS
<1>3. /\ db = "closed" /\ curfile # 0 /\ db' = "recovering"
      /\ vs' = [v |-> st.v, log |-> st.log, next |-> st.next + 1,
                last |-> st.last, man |-> st.next, after |-> st.after,
                seek |-> none]
      /\ recovery' = {[left |-> left, at |-> 0, added |-> none, last |-> 0]}
      /\ UNCHANGED <<disk, mem, imm, lognum, writing, scheduled, bg, failed,
                     pending, manual, rd, told, stops>>
  BY <1>1, <1>2 DEF Recover, LastState
<1>4. /\ Inv /\ Logs /\ Marks /\ Calm /\ Untorn /\ ~Running /\ ~(Running')
      /\ DOMAIN logs \subseteq Nat
  BY <1>3 DEF Durability, Disk, Start, Running, Inv, Shape
<1>5. /\ logs' = logs /\ manifests' = manifests /\ curfile' = curfile
      /\ limbo' = limbo /\ UNCHANGED told /\ UNCHANGED <<writing, bg>>
  BY <1>3 DEF disk, told
<1>6. Work'
  BY <1>4, <1>5, IdleWork
<1>7. /\ Logs' /\ \A r : (InLog(r) => InLog(r)') /\ (InSync(r) => InSync(r)')
  BY <1>4, <1>5, SameLogs
<1>8. Disk' /\ LastState' = LastState
  BY <1>3, <1>4, <1>5, <1>7, DiskStays
<1>9. /\ st \in States /\ st.log \in Nat /\ st.next \in Nat /\ st.log < st.next
  BY <1>1, <1>3, <1>4, StatesRead DEF Marks
<1>10. vs'.log = st.log /\ vs'.last = st.last /\ vs'.next = st.next + 1
  BY <1>3
<1>11. Replaying'
  <2>1. PICK c : /\ c = [left |-> left, at |-> 0, added |-> none, last |-> 0]
                 /\ c.left = left /\ c.at = 0 /\ c.last = 0 /\ recovery' = {c}
    <3>. DEFINE r == [left |-> left, at |-> 0, added |-> none, last |-> 0]
    <3>1. r.left = left /\ r.at = 0 /\ r.last = 0
      OBVIOUS
    <3>2. recovery' = {r}
      BY <1>3
    <3>. HIDE DEF r
    <3>. QED
      BY <3>1, <3>2 DEF r
  <2>2. \A n \in DOMAIN logs : n < vs'.next \/ n \in left
    BY <1>2, <1>4, <1>9, <1>10
  <2>3. \A n \in DOMAIN logs : n >= vs'.log => n \in left
    BY <1>2, <1>10
  <2>4. \A n \in DOMAIN logs : \A i \in 1..Len(logs[n].recs) : i > 0
    OBVIOUS
  <2>5. left \subseteq {n \in DOMAIN logs' : n >= vs'.log}
    BY <1>2, <1>5, <1>10
  <2>. QED
    BY <1>1, <1>5, <1>8, <1>10, <2>1, <2>2, <2>3, <2>4, <2>5 DEF Replaying
<1>12. Start'
  BY <1>3, <1>4, <1>5, <1>11 DEF Start, Settling, Calm
<1>. QED
  BY <1>4, <1>6, <1>8, <1>12 DEF Durability, Untorn

\* The work of Recover while it goes on
LEMMA ReplayGoesOn ==
  ASSUME Durability, Inv', db = "recovering", db' = db,
         logs' = logs, manifests' = manifests, curfile' = curfile,
         UNCHANGED told, UNCHANGED <<writing, bg>>,
         vs'.log = vs.log, vs'.last = vs.last,
         NEW k, recovery' = {k},
         k.left \subseteq {n \in DOMAIN logs : n >= vs.log},
         k.at \in Nat, k.last \in Nat,
         \A n \in DOMAIN logs : n < vs'.next \/ n \in k.left,
         \A n \in DOMAIN logs : n >= vs.log =>
           \A i \in 1..Len(logs[n].recs) :
             \/ ReadIn(k, logs[n].recs[i])
             \/ n \in k.left /\ i > k.at
             \/ n \in k.left /\ \E m \in k.left : m < n
  PROVE  Durability'
<1>1. /\ Logs /\ Untorn /\ Calm /\ ~Running /\ ~(Running') /\ curfile # 0 /\ Replaying
  BY DEF Durability, Disk, Start, Running, Inv, DInv, Descriptors
<1>2. Work'
  BY <1>1, IdleWork
<1>3. Disk' /\ LastState' = LastState
  <2>1. /\ Logs' /\ \A r : (InLog(r) => InLog(r)') /\ (InSync(r) => InSync(r)')
    BY <1>1, SameLogs
  <2>. QED
    BY <1>1, <2>1, DiskStays
<1>4. vs'.log = LastState'.log /\ vs'.last = LastState'.last
  BY <1>1, <1>3 DEF Replaying
<1>5. Replaying'
  <2>1. \A E : ReadIn(k, E)' <=> ReadIn(k, E)
    BY DEF ReadIn
  <2>. QED
    BY <1>4 DEF Replaying, ReadIn
<1>6. Start'
  <2>1. limbo' = limbo
    BY DEF told
  <2>. QED
    BY <1>1, <1>5, <2>1 DEF Start, Settling, Calm
<1>. QED
  BY <1>1, <1>2, <1>3, <1>6 DEF Durability, Untorn

LEMMA RecoverTableLasts ==
  ASSUME Durability, Inv', RecoverTable
  PROVE  Durability'
<1>1. /\ db = "recovering" /\ db' = db /\ vs' = [vs EXCEPT !.next = vs.next + 1]
      /\ logs' = logs /\ manifests' = manifests /\ curfile' = curfile
      /\ UNCHANGED told /\ UNCHANGED <<writing, bg>>
  BY DEF RecoverTable
<1>2. PICK c \in recovery : \E n \in c.left :
        /\ \A m \in c.left : n <= m
        /\ \E to \in c.at + 1 .. Len(logs[n].recs) :
             recovery' =
               {[c EXCEPT !.at = to,
                          !.added = @ \cup {[num |-> vs.next,
                                             ents |-> Filled(logs[n].recs, c.at, to)]},
                          !.last = Max({e.s : e \in Filled(logs[n].recs, c.at, to)}
                                         \cup {@})]}
  BY DEF RecoverTable
<1>30. PICK n \in c.left :
        /\ \A m \in c.left : n <= m
        /\ \E to \in c.at + 1 .. Len(logs[n].recs) :
             recovery' =
               {[c EXCEPT !.at = to,
                          !.added = @ \cup {[num |-> vs.next,
                                             ents |-> Filled(logs[n].recs, c.at, to)]},
                          !.last = Max({e.s : e \in Filled(logs[n].recs, c.at, to)}
                                         \cup {@})]}
  BY <1>2, Zenon
<1>3. PICK to \in c.at + 1 .. Len(logs[n].recs) :
        recovery' =
          {[c EXCEPT !.at = to,
                     !.added = @ \cup {[num |-> vs.next,
                                        ents |-> Filled(logs[n].recs, c.at, to)]},
                     !.last = Max({e.s : e \in Filled(logs[n].recs, c.at, to)}
                                    \cup {@})]}
  BY <1>30, Zenon
<1>4. PICK E : E = Filled(logs[n].recs, c.at, to)
  OBVIOUS
<1>5. PICK f : f = [num |-> vs.next, ents |-> E] /\ f.ents = E
  <2>. DEFINE r == [num |-> vs.next, ents |-> E]
  <2>1. r.ents = E
    OBVIOUS
  <2>. HIDE DEF r
  <2>. QED
    BY <2>1 DEF r
<1>6. PICK S : S = {e.s : e \in E} \cup {c.last}
  OBVIOUS
<1>7. PICK added, last : added = c.added \cup {f} /\ last = Max(S)
  OBVIOUS
<1>8. PICK k : k = [c EXCEPT !.at = to, !.added = added, !.last = last]
  OBVIOUS
<1>9. recovery' = {k}
  BY <1>3, <1>4, <1>5, <1>6, <1>7, <1>8, Zenon
<1>10. /\ Inv /\ Shape /\ Recovering /\ Replaying /\ Logs /\ DOMAIN logs \subseteq Nat
       /\ vs = VersionSetOf(vs) /\ vs.next \in Nat
  BY DEF Durability, Start, Disk, Inv, Shape
<1>11. /\ c = [left |-> c.left, at |-> c.at, added |-> c.added, last |-> c.last]
  BY <1>10 DEF Recovering
<1>12. k = [left |-> c.left, at |-> to, added |-> added, last |-> last]
  BY <1>8, <1>11, RecoverySets, Zenon
<1>13. k.left = c.left /\ k.at = to /\ k.added = added /\ k.last = last
  BY <1>12
<1>14. /\ c.left \subseteq {x \in DOMAIN logs : x >= vs.log}
       /\ c.at \in Nat /\ c.last \in Nat
       /\ \A x \in DOMAIN logs : x < vs.next \/ x \in c.left
       /\ \A x \in DOMAIN logs : x >= vs.log =>
            \A i \in 1..Len(logs[x].recs) :
              \/ ReadIn(c, logs[x].recs[i])
              \/ x \in c.left /\ i > c.at
              \/ x \in c.left /\ \E m \in c.left : m < x
  BY <1>1, <1>10 DEF Replaying
<1>15. \A x \in DOMAIN logs : Len(logs[x].recs) \in Nat
  BY <1>10 DEF Logs, LogRight
<1>16. /\ vs'.log = vs.log /\ vs'.last = vs.last /\ vs'.next = vs.next + 1
  BY <1>1, <1>10, CountersStay DEF VersionSetOf
<1>17. \A i \in c.at + 1 .. to : logs[n].recs[i] \subseteq E
  BY <1>4 DEF Filled
<1>18. to \in Nat /\ to >= c.at + 1 /\ to <= Len(logs[n].recs)
  BY <1>14, <1>15
<1>31. /\ c.left \subseteq Nat /\ n \in c.left
       /\ \A m \in c.left : n <= m
  <2>1. \A m \in c.left : n <= m
    BY <1>30, Zenon
  <2>. QED
    BY <1>10, <1>14, <2>1
<1>19. last \in Nat /\ c.last <= last /\ \A e \in E : e.s <= last
  <2>1. PICK b \in Nat : Numbers(b)
    BY <1>10 DEF Logs
  <2>2. \A e \in E : e.s \in Nat /\ e.s <= b
    <3>1. ASSUME NEW e \in E PROVE e.s \in Nat /\ e.s <= b
      <4>1. PICK i \in c.at + 1 .. to : e \in logs[n].recs[i]
        BY <1>4, <3>1 DEF Filled
      <4>2. i \in 1..Len(logs[n].recs) /\ n \in DOMAIN logs
        BY <1>14, <1>15, <1>18
      <4>. QED
        BY <2>1, <4>1, <4>2 DEF Numbers
    <3>. QED
      BY <3>1
  <2>3. PICK top \in Nat : b <= top /\ c.last <= top
    <3>1. b + c.last \in Nat /\ b <= b + c.last /\ c.last <= b + c.last
      BY <1>14
    <3>. QED
      BY <3>1
  <2>4. S \in SUBSET Nat /\ S # {} /\ \A x \in S : x <= top
    BY <1>6, <1>14, <2>2, <2>3
  <2>5. last \in Nat /\ \A x \in S : x <= last
    BY <1>7, <2>3, <2>4, Greatest
  <2>. QED
    BY <1>6, <2>5
<1>20. ASSUME NEW F, ReadIn(c, F), \A e \in F : e.s \in Nat
       PROVE  ReadIn(k, F)
  <2>1. \A e \in F : e.s <= last
    BY <1>14, <1>19, <1>20 DEF ReadIn
  <2>. QED
    BY <1>7, <1>13, <1>20, <2>1 DEF ReadIn
<1>21. ASSUME NEW x \in DOMAIN logs, x >= vs.log, NEW i \in 1..Len(logs[x].recs)
       PROVE  \/ ReadIn(k, logs[x].recs[i])
              \/ x \in k.left /\ i > k.at
              \/ x \in k.left /\ \E m \in k.left : m < x
  <2>1. CASE ReadIn(c, logs[x].recs[i])
    <3>1. \A e \in logs[x].recs[i] : e.s \in Nat
      BY <1>10 DEF Logs, Numbers
    <3>. QED
      BY <1>20, <2>1, <3>1
  <2>2. CASE x \in c.left /\ i > c.at /\ x = n
    <3>1. CASE i > to
      BY <1>13, <2>2, <3>1
    <3>2. CASE ~(i > to)
      <4>1. i \in c.at + 1 .. to
        BY <1>14, <1>15, <1>18, <2>2, <3>2
      <4>2. logs[x].recs[i] \subseteq E /\ f \in k.added
        BY <1>7, <1>13, <1>17, <2>2, <4>1
      <4>. QED
        BY <1>5, <1>13, <1>19, <4>2 DEF ReadIn
    <3>. QED
      BY <3>1, <3>2
  <2>3. CASE x \in c.left /\ x # n
    <3>1. n < x
      BY <1>31, <2>3
    <3>. QED
      BY <1>31, <1>13, <2>3, <3>1
  <2>4. CASE x \in c.left /\ x = n /\ \E m \in c.left : m < x
    BY <1>31, <2>4
  <2>. QED
    BY <1>14, <1>21, <2>1, <2>2, <2>3, <2>4
<1>22. \A x \in DOMAIN logs : x < vs'.next \/ x \in k.left
  BY <1>10, <1>13, <1>14, <1>16
<1>. QED
  BY <1>1, <1>9, <1>13, <1>14, <1>16, <1>18, <1>19, <1>21, <1>22, ReplayGoesOn

LEMMA RecoverLogLasts ==
  ASSUME Durability, Inv', RecoverLog
  PROVE  Durability'
<1>1. /\ db = "recovering" /\ db' = db
      /\ logs' = logs /\ manifests' = manifests /\ curfile' = curfile
      /\ UNCHANGED told /\ UNCHANGED <<writing, bg>>
  BY DEF RecoverLog, disk
<1>17. PICK c \in recovery : \E n \in c.left :
        /\ \A m \in c.left : n <= m
        /\ c.at = Len(logs[n].recs)
        /\ recovery' = {[c EXCEPT !.left = @ \ {n}, !.at = 0]}
        /\ vs' = [vs EXCEPT !.next = IF vs.next <= n THEN n + 1 ELSE vs.next]
  BY DEF RecoverLog
<1>2. PICK n \in c.left :
        /\ \A m \in c.left : n <= m
        /\ c.at = Len(logs[n].recs)
        /\ recovery' = {[c EXCEPT !.left = @ \ {n}, !.at = 0]}
        /\ vs' = [vs EXCEPT !.next = IF vs.next <= n THEN n + 1 ELSE vs.next]
  BY <1>17
<1>3. /\ Inv /\ Shape /\ Recovering /\ Replaying /\ Logs /\ DOMAIN logs \subseteq Nat
      /\ vs = VersionSetOf(vs) /\ vs.next \in Nat
  BY DEF Durability, Start, Disk, Inv, Shape
<1>4. /\ c = [left |-> c.left, at |-> c.at, added |-> c.added, last |-> c.last]
  BY <1>3 DEF Recovering
<1>5. PICK left, at : left = c.left \ {n} /\ at = 0
  OBVIOUS
<1>6. PICK k : k = [c EXCEPT !.left = left, !.at = at]
  OBVIOUS
<1>7. k = [left |-> left, at |-> at, added |-> c.added, last |-> c.last]
  BY <1>4, <1>6, RecoverySets, Zenon
<1>8. /\ k.left = left /\ k.at = 0 /\ k.added = c.added /\ k.last = c.last
      /\ recovery' = {k}
  BY <1>2, <1>5, <1>6, <1>7
<1>9. /\ c.left \subseteq {x \in DOMAIN logs : x >= vs.log}
      /\ c.at \in Nat /\ c.last \in Nat
      /\ \A x \in DOMAIN logs : x < vs.next \/ x \in c.left
      /\ \A x \in DOMAIN logs : x >= vs.log =>
           \A i \in 1..Len(logs[x].recs) :
             \/ ReadIn(c, logs[x].recs[i])
             \/ x \in c.left /\ i > c.at
             \/ x \in c.left /\ \E m \in c.left : m < x
  BY <1>1, <1>3 DEF Replaying
<1>10. n \in Nat /\ \A x \in DOMAIN logs : Len(logs[x].recs) \in Nat
  BY <1>3, <1>9 DEF Logs, LogRight
<1>11. PICK next : next = IF vs.next <= n THEN n + 1 ELSE vs.next
  OBVIOUS
<1>12. /\ vs'.log = vs.log /\ vs'.last = vs.last /\ vs'.next = next
  BY <1>2, <1>3, <1>11, CountersStay DEF VersionSetOf
<1>13. next \in Nat /\ n < next /\ vs.next <= next
  BY <1>3, <1>10, <1>11
<1>14. ASSUME NEW x \in DOMAIN logs, x >= vs.log, NEW i \in 1..Len(logs[x].recs)
       PROVE  ReadIn(k, logs[x].recs[i]) \/ (x \in k.left /\ i > k.at)
  <2>1. CASE ReadIn(c, logs[x].recs[i])
    BY <1>8, <2>1 DEF ReadIn
  <2>2. CASE x \in c.left /\ x # n
    BY <1>5, <1>8, <2>2
  <2>3. CASE x = n
    <3>1. ~(i > c.at)
      BY <1>2, <1>10, <2>3
    <3>2. ~\E m \in c.left : m < x
      BY <1>2, <1>3, <1>9, <2>3
    <3>. QED
      BY <1>9, <1>14, <2>1, <3>1, <3>2
  <2>. QED
    BY <1>9, <1>14, <2>1, <2>2, <2>3
<1>15. \A x \in DOMAIN logs : x < vs'.next \/ x \in k.left
  BY <1>3, <1>5, <1>8, <1>9, <1>12, <1>13
<1>16. k.left \subseteq {x \in DOMAIN logs : x >= vs.log}
  BY <1>5, <1>8, <1>9
<1>18. k.at \in Nat /\ k.last \in Nat
  BY <1>8, <1>9
<1>. QED
  BY <1>1, <1>8, <1>12, <1>14, <1>15, <1>16, <1>18, ReplayGoesOn

\* When the logs are read, all that was answered is in a table or was read.
LEMMA AllRead ==
  ASSUME Durability, db = "recovering", NEW c \in recovery, c.left = {},
         NEW r \in applied
  PROVE  /\ r.log \in Nat /\ r.log < vs.next
         /\ r.log < vs.log => \A e \in r.ents : e.s <= vs.last
         /\ r.log >= vs.log => ReadIn(c, r.ents)
<1>1. /\ Inv /\ Marks /\ Present /\ Grouped /\ Replaying /\ ~Running /\ curfile # 0
      /\ DOMAIN logs \subseteq Nat /\ vs.next \in Nat /\ r \in Taken
  BY DEF Durability, Disk, Start, Inv, Shape, DInv, Descriptors, Running, Taken
<1>2. LastState \in States /\ LastState.next <= vs.next /\ LastState.next \in Nat
  <2>1. curfile \in Known
    BY <1>1 DEF Known
  <2>2. \A i \in 1..Len(manifests[curfile]) : manifests[curfile][i].next <= vs.next
    <3>. HIDE DEF Known
    <3>. QED
      BY <1>1, <2>1 DEF Inv, DInv, Descriptors
  <2>3. \A st \in States : st.next <= vs.next
    BY <2>2 DEF States
  <2>. QED
    BY <1>1, <2>3, StatesRead
<1>3. /\ vs.log = LastState.log /\ vs.last = LastState.last
      /\ vs.log \in Nat /\ vs.log < LastState.next /\ r.log \in Nat
  BY <1>1, <1>2 DEF Replaying, Marks, Grouped
<1>4. r.log < vs.log \/ InLog(r)
  BY <1>1, <1>3 DEF Present
<1>5. \A n \in DOMAIN logs : n < vs.next
  BY <1>1 DEF Replaying
<1>6. CASE r.log < vs.log
  BY <1>1, <1>2, <1>3, <1>6 DEF Marks
<1>7. CASE ~(r.log < vs.log)
  <2>1. InLog(r) /\ r.log >= vs.log
    BY <1>3, <1>4, <1>7
  <2>2. PICK i \in 1..Len(logs[r.log].recs) : logs[r.log].recs[i] = r.ents
    BY <2>1 DEF InLog
  <2>3. ReadIn(c, logs[r.log].recs[i])
    BY <1>1, <2>1 DEF Replaying, InLog
  <2>. QED
    BY <1>3, <1>5, <1>7, <2>1, <2>2, <2>3 DEF InLog
<1>. QED
  BY <1>6, <1>7

\* What goes to the new descriptor
LEMMA RecoveryLogged ==
  ASSUME Inv, LogRecovery
  PROVE  \E c \in recovery : \E v, last, new, n, m :
           /\ c.left = {} /\ n = vs.next /\ m = vs.man
           /\ v = ApplyEdit(vs.v, {}, {<<0, f>> : f \in c.added})
           /\ last = IF vs.last < c.last THEN c.last ELSE vs.last
           /\ new.log = n /\ new.next = n + 1 /\ new.last = last
           /\ manifests' = With(manifests, m, <<new>>)
           /\ vs'.v = v /\ vs'.log = n /\ vs'.next = n + 1 /\ vs'.last = last
           /\ vs'.man = m
<1>. DEFINE added(c) == {<<0, f>> : f \in c.added}
            ver(c) == ApplyEdit(vs.v, {}, added(c))
            lst(c) == IF vs.last < c.last THEN c.last ELSE vs.last
            state(c) == [v |-> ver(c), log |-> vs.next, next |-> vs.next + 1,
                         last |-> lst(c), after |-> vs.after]
<1>1. PICK c \in recovery :
        /\ c.left = {}
        /\ manifests' = With(manifests, vs.man, <<state(c)>>)
        /\ vs' = [vs EXCEPT !.v = ver(c), !.log = vs.next, !.next = vs.next + 1,
                            !.last = lst(c)]
  BY Zenon DEF LogRecovery
<1>2. PICK v, last : v = ver(c) /\ last = lst(c)
  OBVIOUS
<1>3. PICK n, m, next : n = vs.next /\ m = vs.man /\ next = n + 1
  OBVIOUS
<1>4. PICK new : new = [v |-> v, log |-> n, next |-> next, last |-> last,
                        after |-> vs.after]
  OBVIOUS
<1>5. new.log = n /\ new.next = next /\ new.last = last
  BY <1>4
<1>6. manifests' = With(manifests, m, <<new>>)
  BY <1>1, <1>2, <1>3, <1>4
<1>7. vs' = [vs EXCEPT !.v = v, !.log = n, !.next = next, !.last = last]
  BY <1>1, <1>2, <1>3
<1>8. vs = VersionSetOf(vs)
  BY DEF Inv, Shape
<1>9. vs' = [v |-> v, log |-> n, next |-> next, last |-> last,
             man |-> vs.man, after |-> vs.after, seek |-> vs.seek]
  BY <1>7, <1>8, VersionRecovered, Zenon
<1>10. /\ vs'.v = v /\ vs'.log = n /\ vs'.next = next /\ vs'.last = last
       /\ vs'.man = m
  BY <1>3, <1>9
<1>. QED
  BY <1>1, <1>2, <1>3, <1>5, <1>6, <1>10, Zenon

LEMMA LogRecoveryLasts ==
  ASSUME Durability, Inv', LogRecovery
  PROVE  Durability'
<1>1. /\ db = "recovering" /\ db' = "opening" /\ lognum' = vs.next
      /\ logs' = With(logs, vs.next, EmptyLog) /\ curfile' = curfile
      /\ UNCHANGED told /\ UNCHANGED <<writing, bg>>
  BY DEF LogRecovery
<1>2. PICK c \in recovery : \E v, last, new, n, m :
           /\ c.left = {} /\ n = vs.next /\ m = vs.man
           /\ v = ApplyEdit(vs.v, {}, {<<0, f>> : f \in c.added})
           /\ last = IF vs.last < c.last THEN c.last ELSE vs.last
           /\ new.log = n /\ new.next = n + 1 /\ new.last = last
           /\ manifests' = With(manifests, m, <<new>>)
           /\ vs'.v = v /\ vs'.log = n /\ vs'.next = n + 1 /\ vs'.last = last
           /\ vs'.man = m
  BY RecoveryLogged DEF Durability
<1>3. PICK v, last, new, n, m :
           /\ c.left = {} /\ n = vs.next /\ m = vs.man
           /\ v = ApplyEdit(vs.v, {}, {<<0, f>> : f \in c.added})
           /\ last = IF vs.last < c.last THEN c.last ELSE vs.last
           /\ new.log = n /\ new.next = n + 1 /\ new.last = last
           /\ manifests' = With(manifests, m, <<new>>)
           /\ vs'.v = v /\ vs'.log = n /\ vs'.next = n + 1 /\ vs'.last = last
           /\ vs'.man = m
  BY <1>2, Zenon
<1>4. /\ Inv /\ Logs /\ Untorn /\ Calm /\ Replaying /\ Grouped /\ ~Running
      /\ ~(Running') /\ n \in Nat /\ m \in Nat /\ DOMAIN logs \subseteq Nat
      /\ curfile # 0 /\ curfile \in Nat /\ curfile < m /\ Marks
  BY <1>1, <1>3 DEF Durability, Disk, Start, Running, Inv, Shape, DInv, Descriptors
<1>5. /\ \A x \in DOMAIN logs : x < n
      /\ c.last \in Nat /\ vs.last \in Nat
  <2>1. \A x \in DOMAIN logs : x < n
    BY <1>1, <1>3, <1>4 DEF Replaying
  <2>2. vs.last = LastState.last /\ LastState \in States
    BY <1>1, <1>4, StatesRead DEF Replaying
  <2>3. vs.last \in Nat
    BY <1>4, <2>2 DEF Marks
  <2>. QED
    BY <1>1, <1>4, <2>1, <2>3 DEF Replaying
<1>6. last \in Nat /\ c.last <= last /\ vs.last <= last
  BY <1>3, <1>5
<1>7. n \notin DOMAIN logs
  BY <1>4, <1>5
<1>8. /\ Logs' /\ DOMAIN logs' = DOMAIN logs \cup {n}
      /\ \A r : (InLog(r) => InLog(r)') /\ (InSync(r) => InSync(r)')
  BY <1>1, <1>3, <1>4, <1>7, LogAdded
<1>9. /\ manifests'[m] = <<new>> /\ manifests'[curfile] = manifests[curfile]
  <2>1. curfile \in DOMAIN manifests /\ curfile # m
    BY <1>4, StatesRead DEF Descriptor
  <2>. QED
    BY <1>3, <2>1 DEF With
<1>10. Disk'
  BY <1>1, <1>4, <1>8, <1>9, DiskStays
<1>11. Work'
  BY <1>1, <1>4, IdleWork
<1>12. Settling'
  <2>1. manifests'[vs'.man][1] = new
    BY <1>3, <1>9, Alone
  <2>2. \A x \in DOMAIN logs' : x < n + 1
    BY <1>4, <1>5, <1>8
  <2>3. ASSUME NEW r \in applied
        PROVE  r.log < n /\ \A e \in r.ents : e.s <= last
    <3>1. /\ r.log \in Nat /\ r.log < n
          /\ r.log < vs.log => \A e \in r.ents : e.s <= vs.last
          /\ r.log >= vs.log => ReadIn(c, r.ents)
      BY <1>1, <1>3, AllRead
    <3>2. ASSUME NEW e \in r.ents
          PROVE  e.s <= last
      <4>1. e.s \in Nat
        BY <1>4 DEF Grouped, Taken
      <4>2. vs.log \in Nat
        <5>1. LastState \in States /\ vs.log = LastState.log
          BY <1>1, <1>4, StatesRead DEF Replaying
        <5>. QED
          BY <1>4, <5>1 DEF Marks
      <4>3. CASE r.log < vs.log
        BY <1>5, <1>6, <3>1, <4>1, <4>3
      <4>4. CASE r.log >= vs.log
        BY <1>5, <1>6, <3>1, <4>1, <4>4 DEF ReadIn
      <4>. QED
        BY <3>1, <4>2, <4>3, <4>4
    <3>. QED
      BY <3>1, <3>2
  <2>4. applied' = applied
    BY <1>1 DEF told
  <2>5. /\ vs'.log = n /\ lognum' = n /\ n \in DOMAIN logs' /\ vs'.last = last
        /\ vs'.next = n + 1 /\ n < n + 1
    BY <1>1, <1>3, <1>4, <1>8
  <2>. QED
    BY <1>3, <1>4, <1>6, <2>1, <2>2, <2>3, <2>4, <2>5 DEF Settling
<1>13. Start'
  <2>1. limbo' = {}
    BY <1>1, <1>4 DEF Calm, told
  <2>. QED
    BY <1>1, <1>12, <2>1 DEF Start, Replaying, Calm
<1>. QED
  BY <1>4, <1>10, <1>11, <1>13 DEF Durability, Untorn

LEMMA OpenLasts ==
  ASSUME Durability, Inv', Open
  PROVE  Durability'
<1>1. /\ db = "opening" /\ db' = "open" /\ curfile' = vs.man /\ lognum' = lognum
      /\ vs' = vs /\ UNCHANGED told /\ UNCHANGED <<writing, bg>>
      /\ DeleteObsolete(vs, {}, logs, tables, manifests)
  BY Zenon DEF Open
<1>2. /\ Inv /\ Logs /\ Untorn /\ Calm /\ Settling /\ Grouped /\ Promised /\ ~Running
      /\ Running' /\ DOMAIN logs \subseteq Nat /\ curfile \in Nat /\ curfile # 0
      /\ curfile < vs.man /\ vs.man \in Nat /\ vs.next \in Nat /\ Writes
  BY <1>1 DEF Durability, Disk, Work, Start, Running, Inv, Shape, DInv, Descriptors
<1>3. vs.man \in DOMAIN manifests /\ Len(manifests[vs.man]) = 1
  <2>1. vs.man \in Known
    BY <1>1 DEF Known
  <2>2. Descriptor(vs.man) /\ Len(manifests[vs.man]) = 1
    <3>. HIDE DEF Known
    <3>. QED
      BY <1>1, <1>2, <2>1 DEF Inv, DInv, Descriptors
  <2>. QED
    BY <2>2 DEF Descriptor
<1>4. /\ logs' = [n \in {x \in DOMAIN logs : x >= vs.log} |-> logs[n]]
      /\ manifests' = [n \in {x \in DOMAIN manifests : x >= vs.man} |-> manifests[n]]
  BY <1>1, Zenon DEF DeleteObsolete
<1>5. manifests'[curfile'] = manifests[vs.man] /\ curfile' # 0
  BY <1>1, <1>2, <1>3, <1>4
<1>6. PICK st : st = manifests[vs.man][1]
  OBVIOUS
<1>7. States' = {st}
  BY <1>3, <1>5, <1>6 DEF States
<1>8. /\ vs.log = lognum /\ lognum \in DOMAIN logs /\ lognum \in Nat
      /\ vs.last \in Nat /\ lognum < vs.next
      /\ st.log = lognum /\ st.last = vs.last /\ lognum < st.next
      /\ \A n \in DOMAIN logs : n < vs.next
      /\ \A r \in applied : r.log < lognum /\ \A e \in r.ents : e.s <= vs.last
  BY <1>1, <1>2, <1>6 DEF Settling
<1>9. Points' = {lognum}
  BY <1>1, <1>2, <1>7, <1>8 DEF Points
<1>10. /\ applied' = applied /\ limbo' = {} /\ durable' = durable
       /\ Taken' = applied
  BY <1>1, <1>2 DEF told, Calm, Taken
<1>11. group = {} /\ bg.pc = "idle" /\ InHand' = {}
  <2>1. group = {} /\ bg.pc = "idle"
    BY <1>2 DEF Inv, Quiet, WInv, Group, IdleBg
  <2>2. group' = group
    BY <1>1 DEF writing
  <2>. QED
    BY <2>1, <2>2 DEF InHand
<1>12. /\ DOMAIN logs' = {x \in DOMAIN logs : x >= vs.log}
       /\ \A n \in DOMAIN logs' : logs'[n] = logs[n]
  BY <1>4
<1>13. Logs'
  <2>1. \A b : Numbers(b) => Numbers(b)'
    BY <1>12 DEF Numbers
  <2>. QED
    BY <1>2, <1>12, <2>1 DEF Logs
<1>14. Grouped' /\ Marks'
  BY <1>2, <1>7, <1>8, <1>10 DEF Grouped, Marks, Taken
<1>15. Present'
  BY <1>2, <1>5, <1>8, <1>9, <1>10 DEF Present
<1>16. Promised'
  <2>1. \A r \in applied : Safe(r)'
    BY <1>8, <1>9 DEF Safe
  <2>. QED
    BY <1>2, <1>10, <2>1 DEF Promised
<1>17. Active'
  <2>1. lognum \in DOMAIN logs'
    BY <1>8, <1>12
  <2>2. \A r \in applied : r.log <= lognum
    BY <1>2, <1>8 DEF Grouped, Taken
  <2>3. \A n \in DOMAIN logs' : n < vs.next
    BY <1>8, <1>12
  <2>. QED
    BY <1>1, <1>8, <1>9, <1>10, <1>11, <2>1, <2>2, <2>3 DEF Active
<1>18. Memory'
  <2>1. \A r \in applied : r.log \in Nat /\ r.log < lognum
    BY <1>2, <1>8 DEF Grouped, Taken
  <2>. QED
    BY <1>1, <1>8, <1>10, <2>1 DEF Memory
<1>19. Edits' /\ Writes'
  BY <1>1, <1>2, <1>11 DEF Edits, Logging, Writes, Batches, writing
<1>. QED
  BY <1>2, <1>13, <1>14, <1>15, <1>16, <1>17, <1>18, <1>19, NotOpening DEF Durability, Disk,
     Work, Untorn, Start, Running, Replaying, Settling, Calm

-----------------------------------------------------------------------------
(* Every step, and what follows from the invariant.                        *)

LEMMA DurableAtFirst ==
  ASSUME Untorn, Init
  PROVE  Durability
<1>1. /\ logs = <<>> /\ manifests = <<>> /\ curfile = 0 /\ db = "closed"
      /\ group = {} /\ bg = IdleBg /\ wr = [w \in Writers |-> NoWriter]
      /\ applied = {} /\ limbo = {} /\ durable = {}
  BY DEF Init
<1>2. ~Running /\ Inv /\ DOMAIN logs = {}
  BY <1>1, InvAtFirst DEF Running
<1>3. Disk
  <2>1. Taken = {}
    BY <1>1 DEF Taken
  <2>. QED
    BY <1>1, <1>2, <2>1 DEF Disk, Logs, Numbers, Grouped, Marks, Present, Promised
<1>4. Work
  <2>1. bg.pc = "idle"
    BY <1>1 DEF IdleBg
  <2>2. \A w \in Writers : wr[w].batch = <<>>
    BY <1>1 DEF NoWriter
  <2>3. Batches
    <3>1. <<>> \in Seq(ToSet(<<>>))
      OBVIOUS
    <3>. QED
      BY <2>2, <3>1, Zenon DEF Batches
  <2>. QED
    BY <1>1, <1>2, <2>1, <2>3 DEF Work, Active, Edits, Memory, Writes, Logging
<1>5. Start
  BY <1>1, <1>2 DEF Start, Replaying, Settling, Calm
<1>. QED
  BY <1>2, <1>3, <1>4, <1>5 DEF Durability

LEMMA DurableStutters ==
  ASSUME Durability, UNCHANGED vars
  PROVE  Durability'
<1>1. /\ logs' = logs /\ manifests' = manifests /\ curfile' = curfile
      /\ db' = db /\ recovery' = recovery /\ mem' = mem /\ imm' = imm
      /\ lognum' = lognum /\ vs' = vs /\ queue' = queue /\ wr' = wr
      /\ group' = group /\ bg' = bg /\ applied' = applied /\ limbo' = limbo
      /\ durable' = durable
  BY DEF vars
<1>2. Inv'
  BY StutterKeeps DEF Durability
<1>3. Disk'
  <2>1. Taken' = Taken /\ Points' = Points /\ States' = States /\ Running' = Running
    BY <1>1 DEF Taken, Points, States, Running
  <2>2. Logs' /\ Grouped' /\ Marks'
    BY <1>1, <2>1 DEF Durability, Disk, Logs, Numbers, Grouped, Marks
  <2>3. \A r : (InLog(r) <=> InLog(r)') /\ (InSync(r) <=> InSync(r)')
    BY <1>1 DEF InLog, InSync
  <2>4. LastState' = LastState
    BY <1>1 DEF LastState
  <2>5. Present'
    BY <1>1, <2>1, <2>3, <2>4 DEF Durability, Disk, Present
  <2>6. Promised'
    BY <1>1, <2>1, <2>3 DEF Durability, Disk, Promised, Safe
  <2>. QED
    BY <2>2, <2>5, <2>6 DEF Disk
<1>4. Work'
  <2>1. /\ Points' = Points /\ Running' = Running /\ Taken' = Taken
        /\ InHand' = InHand /\ LastState' = LastState /\ (Logging <=> Logging')
    BY <1>1 DEF Taken, Points, States, Running, InHand, LastState, FrontCall, Logging
  <2>2. Active' /\ Memory'
    BY <1>1, <2>1 DEF Durability, Work, Active, Memory
  <2>3. Edits'
    BY <1>1, <2>1 DEF Durability, Work, Edits
  <2>4. Writes'
    BY <1>1 DEF Durability, Work, Writes, Batches, GroupRight, Updates, FrontCall,
       InHand, InSync
  <2>. QED
    BY <2>2, <2>3, <2>4 DEF Work
<1>5. Start'
  BY <1>1 DEF Durability, Start, Replaying, Settling, Calm, Running, ReadIn, LastState
<1>. QED
  BY <1>2, <1>3, <1>4, <1>5 DEF Durability, Untorn

LEMMA NextLasts ==
  ASSUME Durability, Next
  PROVE  Durability'
<1>1. Inv'
  BY NextKeeps DEF Durability
<1>2. CASE Calling
  BY <1>1, <1>2, WriteLasts DEF Calling
<1>3. CASE \E w \in Writers : WriterStep(w) \/ WriterFails(w)
  <2>1. PICK w \in Writers : WriterStep(w) \/ WriterFails(w)
    BY <1>3
  <2>2. ~AppendFails(w)
    BY DEF AppendFails, Durability, Untorn
  <2>. QED
    BY <1>1, <2>1, <2>2, FrontLasts, SwitchLasts, StartGroupLasts, RecordLasts,
       FinishLasts DEF WriterStep, WriterFails
<1>4. CASE Background \/ BackgroundFails
  BY <1>1, <1>4, ThreadLasts, BuildTableLasts, FinishEditLasts, StartMoveLasts,
     LogMergeLasts, ManifestFailsLasts DEF Background, BackgroundFails
<1>5. CASE Compacting \/ Reading
  BY <1>1, <1>5, CompactingLasts, ReadingLasts
<1>6. CASE Stopping
  BY <1>1, <1>6, StopsLast, CloseLasts DEF Stopping
<1>7. CASE Opening
  BY <1>1, <1>7, NewDBLasts, RecoverLasts, RecoverTableLasts, RecoverLogLasts,
     LogRecoveryLasts, OpenLasts DEF Opening
<1>. QED
  BY <1>2, <1>3, <1>4, <1>5, <1>6, <1>7 DEF Next

\* The logs, the descriptor and the memtables together hold what was written,
\* in every reachable state, if no append tears a log.
THEOREM DurabilityIsKept ==
  ASSUME Untorn
  PROVE  Spec => []Durability
<1>1. Init => Durability
  BY DurableAtFirst
<1>2. Durability /\ [Next]_vars => Durability'
  BY NextLasts, DurableStutters
<1>. QED
  BY <1>1, <1>2, PTL DEF Spec

\* When only the process stops, or the store is closed, no write that was
\* answered is lost: the property KillLosesNothing, whatever the faults other
\* than a torn log.
THEOREM KillsLoseNothing ==
  ASSUME Untorn
  PROVE  Spec => KillLosesNothing
<1>1. Durability /\ [Next]_vars =>
        [Kill \/ Closed \/ NullRange => applied \subseteq applied']_vars
  BY KillKeepsApplied
<1>. QED
  BY <1>1, DurabilityIsKept, PTL DEF Spec, KillLosesNothing

\* What a caller had synced and was told is among the writes that reads see,
\* in every reachable state, also after the machine stopped.
SyncedIsApplied == durable \subseteq Groups(applied)
THEOREM SyncedStays ==
  ASSUME Untorn
  PROVE  Spec => []SyncedIsApplied
<1>1. Durability => SyncedIsApplied
  <2>. SUFFICES ASSUME Durability PROVE SyncedIsApplied
    OBVIOUS
  <2>1. Present /\ Promised
    BY DEF Durability, Disk
  <2>. QED
    BY <2>1 DEF Present, Promised, SyncedIsApplied, Groups
<1>. QED
  BY <1>1, DurabilityIsKept, PTL


\* The number of the first log that is read
LEMMA LogIsNumber ==
  ASSUME Durability, db # "closed"
  PROVE  vs.log \in Nat
<1>1. CASE Running
  BY <1>1 DEF Durability, Work, Active
<1>2. CASE db = "recovering"
  <2>1. /\ Marks /\ Replaying /\ ~Running /\ curfile # 0 /\ Inv
    BY <1>2 DEF Durability, Disk, Start, Running, Inv, DInv, Descriptors
  <2>2. vs.log = LastState.log /\ LastState \in States
    BY <1>2, <2>1, StatesRead DEF Replaying
  <2>. QED
    BY <2>1, <2>2 DEF Marks
<1>3. CASE db = "opening"
  BY <1>3 DEF Durability, Start, Settling
<1>4. db \in {"closed", "recovering", "opening", "open", "closing"}
  BY DEF Durability, Inv, Shape
<1>. QED
  BY <1>1, <1>2, <1>3, <1>4 DEF Running

\* Which steps move the number of the first log that is read
LEMMA LogMoves ==
  ASSUME Durability, Next, db # "closed"
  PROVE  vs'.log = vs.log \/ vs'.log = 0 \/ FinishFlush \/ LogRecovery
<1>1. Inv /\ Shape /\ vs = VersionSetOf(vs)
  BY DEF Durability, Inv, Shape
<1>2. ASSUME NEW x, vs' = [vs EXCEPT !.next = x]
      PROVE  vs'.log = vs.log
  BY <1>1, <1>2 DEF VersionSetOf
<1>3. ASSUME NEW x, vs' = [vs EXCEPT !.last = x]
      PROVE  vs'.log = vs.log
  BY <1>1, <1>3 DEF VersionSetOf
<1>4. ASSUME NEW x, vs' = [vs EXCEPT !.seek = x]
      PROVE  vs'.log = vs.log
  BY <1>1, <1>4 DEF VersionSetOf
<1>5. ASSUME NEW c, vs' = Pointed(c)
      PROVE  vs'.log = vs.log
  <2>1. PICK l, x : vs' = [vs EXCEPT !.after[l] = x]
    BY <1>5 DEF Pointed
  <2>. QED
    BY <1>1, <2>1, PointerApart
<1>6. CASE Calling
  BY <1>6 DEF Calling, Write
<1>7. CASE \E w \in Writers : WriterStep(w) \/ WriterFails(w)
  <2>1. \/ vs' = vs \/ \E x : vs' = [vs EXCEPT !.next = x]
        \/ \E x : vs' = [vs EXCEPT !.last = x]
    BY <1>7, Zenon DEF WriterStep, WriterFails, RefuseWrite, DelayWrite, WaitForRoom,
       SwitchMemTable, NothingToWrite, StartGroup, AddRecord, FinishWrite,
       SwitchFails, AppendFails, SyncFails
  <2>. QED
    BY <1>2, <1>3, <2>1
<1>8. CASE FinishMerge \/ FinishMove
  <2>1. Logging /\ bg.pc \in {"mergelog", "movelog"} /\ vs' = Install(Some(bg.edit))
    BY <1>8 DEF FinishMerge, FinishMove, Logging
  <2>2. PICK e : e = Some(bg.edit) /\ bg.edit = {e}
    BY <1>1, <2>1, EditOf
  <2>3. e.log = vs.log
    BY <2>1, <2>2 DEF Durability, Work, Edits
  <2>4. vs'.log = e.log
    <3>. DEFINE none == {}
                v == ApplyEdit(vs.v, e.deleted, e.added)
    <3>1. vs' = [vs EXCEPT !.v = v, !.log = e.log, !.seek = none]
      BY <2>1, <2>2, Zenon DEF Install
    <3>. HIDE DEF none, v
    <3>2. vs' = [v |-> v, log |-> e.log, next |-> vs.next, last |-> vs.last,
                 man |-> vs.man, after |-> vs.after, seek |-> none]
      BY <1>1, <3>1, VersionInstalled, Zenon
    <3>. QED
      BY <3>2
  <2>. QED
    BY <2>3, <2>4
<1>9. CASE Background /\ ~FinishMerge /\ ~FinishMove /\ ~FinishFlush
  <2>1. \/ vs' = vs \/ \E x : vs' = [vs EXCEPT !.next = x]
        \/ \E c : vs' = Pointed(c)
    <3>1. CASE StartManual
      BY <3>1, Zenon DEF StartManual
    <3>. QED
      BY <1>9, <3>1, Zenon DEF Background, SkipWork, StartFlush, BuildTable, StartMerge,
         StartMove, MergeOutput, LogMerge
  <2>. QED
    BY <1>2, <1>5, <2>1
<1>10. CASE BackgroundFails \/ Compacting
  BY <1>10 DEF BackgroundFails, BuildFails, ManifestFails, MergeFails, Compacting,
     ManualLoop, CompactRange
<1>11. CASE Reading
  <2>1. vs' = vs \/ \E x : vs' = [vs EXCEPT !.seek = x]
    BY <1>11, Zenon DEF Reading, GetSnapshot, ReleaseSnapshot, StartGet, EndGet
  <2>. QED
    BY <1>4, <2>1
<1>12. CASE Stopping
  <2>1. vs' = vs \/ vs' = ClosedVs
    BY <1>12 DEF Stopping, Kill, PowerLoss, Close, Closed, NullRange, Stopped, Volatile
  <2>. QED
    BY <2>1 DEF ClosedVs
<1>13. CASE Opening
  <2>1. vs' = vs \/ (\E x : vs' = [vs EXCEPT !.next = x]) \/ LogRecovery
    BY <1>13, Zenon DEF Opening, NewDB, Recover, RecoverTable, RecoverLog, Open
  <2>. QED
    BY <1>2, <2>1
<1>. QED
  BY <1>6, <1>7, <1>8, <1>9, <1>10, <1>11, <1>12, <1>13 DEF Next

\* A table that an edit adds is in the version after it.
LEMMA AddedIsThere ==
  ASSUME NEW v, NEW deleted, NEW added, NEW a \in added, a[1] \in Levels
  PROVE  a[2] \in FilesOf(ApplyEdit(v, deleted, added))
<1>1. a[2] \in ApplyEdit(v, deleted, added)[a[1]]
  BY DEF ApplyEdit
<1>. QED
  BY <1>1 DEF FilesOf

LEMMA FlushStores ==
  ASSUME Durability, FinishFlush, NEW r \in applied, vs.log <= r.log, r.log < vs'.log,
         NEW e \in r.ents
  PROVE  \E f \in FilesOf(vs'.v) : e \in f.ents
<1>1. Logging /\ bg.pc = "flushlog" /\ vs' = Install(Some(bg.edit))
  BY DEF FinishFlush, Logging
<1>2. PICK d : d = Some(bg.edit) /\ bg.edit = {d}
  BY <1>1, EditOf DEF Durability
<1>3. Shape /\ vs = VersionSetOf(vs) /\ Running /\ Edits /\ Memory
  BY <1>1, EditOf DEF Durability, Work, Shape
<1>4. vs'.v = ApplyEdit(vs.v, d.deleted, d.added)
  BY <1>1, <1>2, <1>3, InstallSets
<1>5. vs'.log = d.log
  <2>. DEFINE none == {}
              v == ApplyEdit(vs.v, d.deleted, d.added)
  <2>1. vs' = [vs EXCEPT !.v = v, !.log = d.log, !.seek = none]
    BY <1>1, <1>2, Zenon DEF Install
  <2>. HIDE DEF none, v
  <2>2. vs' = [v |-> v, log |-> d.log, next |-> vs.next, last |-> vs.last,
               man |-> vs.man, after |-> vs.after, seek |-> none]
    BY <1>3, <2>1, VersionInstalled, Zenon
  <2>. QED
    BY <2>2
<1>6. d.log = lognum
  BY <1>1, <1>2, <1>3 DEF Edits
<1>7. PICK E \in imm : r.ents \subseteq E
  BY <1>3, <1>5, <1>6 DEF Memory
<1>8. PICK a \in d.added : a[1] \in Levels /\ a[2].ents = E
  BY <1>1, <1>2, <1>3, <1>7 DEF Edits
<1>9. a[2] \in FilesOf(vs'.v)
  BY <1>4, <1>8, AddedIsThere
<1>. QED
  BY <1>7, <1>8, <1>9

LEMMA RecoveryStores ==
  ASSUME Durability, LogRecovery, NEW r \in applied, vs.log <= r.log, NEW e \in r.ents
  PROVE  \E f \in FilesOf(vs'.v) : e \in f.ents
<1>1. PICK c \in recovery :
        /\ c.left = {}
        /\ vs'.v = ApplyEdit(vs.v, {}, {<<0, f>> : f \in c.added})
  BY RecoveryLogged, Zenon DEF Durability
<1>2. db = "recovering" /\ r.log \in Nat /\ vs.log \in Nat
  <2>1. db = "recovering"
    BY DEF LogRecovery
  <2>2. /\ Marks /\ Grouped /\ Replaying /\ ~Running /\ curfile # 0 /\ Inv
    BY <2>1 DEF Durability, Disk, Start, Running, Inv, DInv, Descriptors
  <2>3. vs.log = LastState.log /\ LastState \in States
    BY <2>1, <2>2, StatesRead DEF Replaying
  <2>. QED
    BY <2>1, <2>2, <2>3 DEF Marks, Grouped, Taken
<1>3. ReadIn(c, r.ents)
  BY <1>1, <1>2, AllRead
<1>4. PICK f \in c.added : e \in f.ents
  BY <1>3 DEF ReadIn
<1>5. PICK a : a = <<0, f>> /\ a \in {<<0, x>> : x \in c.added}
  BY <1>4
<1>6. a[1] \in Levels /\ a[2] = f
  BY <1>5, LevelsAssumption DEF Levels
<1>7. f \in FilesOf(vs'.v)
  BY <1>1, <1>5, <1>6, AddedIsThere
<1>. QED
  BY <1>4, <1>7

\* No step takes the logs of a write that was answered out of what a recovery
\* reads before the tables have all its entries: neither the end of a flush nor
\* that of a recovery (edit.SetLogNumber, DeleteObsoleteFiles).
THEOREM PassedLogsAreStored ==
  ASSUME Untorn
  PROVE  Spec => PassedIsStored
<1>1. Durability /\ [Next]_vars => [Passing]_vars
  <2>. SUFFICES ASSUME Durability, Next, db # "closed",
                       NEW r \in applied, vs.log <= r.log, r.log < vs'.log,
                       NEW e \in r.ents
                PROVE  \E f \in FilesOf(vs'.v) : e \in f.ents
    BY DEF Passing
  <2>1. r.log \in Nat
    BY DEF Durability, Disk, Grouped, Taken
  <2>2. CASE vs'.log = vs.log
    <3>1. vs.log <= r.log /\ r.log < vs.log
      BY <2>2
    <3>2. vs.log \in Nat
      BY <3>1, LogIsNumber
    <3>. QED
      BY <2>1, <3>1, <3>2
  <2>3. CASE vs'.log = 0
    BY <2>1, <2>3
  <2>4. CASE FinishFlush
    BY <2>4, FlushStores
  <2>5. CASE LogRecovery
    BY <2>5, RecoveryStores
  <2>. QED
    BY <2>2, <2>3, <2>4, <2>5, LogMoves
<1>. QED
  BY <1>1, DurabilityIsKept, PTL DEF Spec, PassedIsStored


-----------------------------------------------------------------------------
(* The store implements module KVStore.                                    *)

\* The part of the state that module KVStore speaks of
Going ==
  {[ws |-> SubSeq(queue, 1, g.n), after |-> vs.last, ents |-> g.ents] :
     g \in {x \in group : (x.ok \/ x.bad) /\ wr[queue[1]].pc = "inserting"}}
Callers == [w \in Writers |-> [st |-> wr[w].st, batch |-> wr[w].batch,
                               sync |-> wr[w].sync]]
View == <<Groups(applied), Groups(limbo), durable, Going, Callers>>

LEMMA ViewOf == (UNCHANGED View) => UNCHANGED KV!kvVars
  BY DEF View, Going, Callers, KV!kvVars

\* Steps that KVStore does not see
LEMMA SameCallers ==
  ASSUME \A w \in Writers : wr'[w].batch = wr[w].batch /\ wr'[w].sync = wr[w].sync
                            /\ wr'[w].st = wr[w].st
  PROVE  Callers' = Callers
  BY DEF Callers

LEMMA SameGoing ==
  ASSUME Inv, group' = group, queue' = queue, vs'.last = vs.last,
         \A w \in Writers : wr[w].pc # "bgwait" => wr'[w].pc = wr[w].pc
  PROVE  Going' = Going
<1>1. CASE group = {}
  BY <1>1 DEF Going
<1>2. CASE group # {}
  <2>1. Len(queue) > 0 /\ wr[queue[1]].pc \in {"logging", "inserting"}
        /\ queue \in Seq(Writers)
    BY <1>2 DEF Inv, WInv, Group, Queued
  <2>2. queue[1] \in Writers
    BY <2>1
  <2>3. wr'[queue[1]].pc = wr[queue[1]].pc
    BY <2>1, <2>2
  <2>. QED
    BY <2>3 DEF Going
<1>. QED
  BY <1>1, <1>2

LEMMA Unseen ==
  ASSUME Inv, UNCHANGED told, group' = group, queue' = queue, vs'.last = vs.last,
         wr' = wr \/ wr' = Woken(wr)
  PROVE  UNCHANGED View
<1>1. Callers' = Callers
  BY WokenSame, SameCallers
<1>2. Going' = Going
  BY WokenSame, SameGoing
<1>. QED
  BY <1>1, <1>2 DEF View, told, Groups

LEMMA UnseenIdle ==
  ASSUME group = {}, group' = {}, UNCHANGED told,
         \A w \in Writers : wr'[w].batch = wr[w].batch /\ wr'[w].sync = wr[w].sync
                            /\ wr'[w].st = wr[w].st
  PROVE  UNCHANGED View
<1>1. Callers' = Callers
  BY SameCallers
<1>2. Going' = Going
  BY DEF Going
<1>. QED
  BY <1>1, <1>2 DEF View, told, Groups

\* A caller asks.
LEMMA FirstsOfMore ==
  ASSUME NEW S, NEW s \in Seq(S), NEW x \in S, NEW n \in 1..Len(s)
  PROVE  SubSeq(Append(s, x), 1, n) = SubSeq(s, 1, n)
<1>1. \A i \in 1..n : Append(s, x)[i] = s[i]
  BY AppendElements
<1>. QED
  BY <1>1

LEMMA KVCalls ==
  ASSUME NEW w \in Writers, NEW q \in Requests, Callers[w].st # "waiting",
         Callers' = [Callers EXCEPT ![w] =
                       [st |-> "waiting", batch |-> q.batch, sync |-> q.sync]],
         UNCHANGED told, Going' = Going
  PROVE  KV!Next
<1>1. KV!Call(w, q)
  BY DEF KV!Call, Callers, Going, told, Groups
<1>. QED
  BY <1>1 DEF KV!Next

LEMMA WriteIsCall ==
  ASSUME Durability, NEW w \in Writers, NEW q \in Requests, Write(w, q)
  PROVE  KV!Next
<1>1. Inv /\ Queued /\ Calls /\ wr[w].pc = "idle" /\ wr[w].st # "waiting"
  BY DEF Durability, Inv, WInv, Calls, Write
<1>2. PICK c : /\ wr' = [wr EXCEPT ![w] = c] /\ c.batch = q.batch
               /\ c.sync = q.sync /\ c.st = "waiting"
               /\ queue' = Append(queue, w) /\ group' = group /\ vs' = vs
               /\ UNCHANGED told
  <2>1. PICK p, d, f : wr' = [wr EXCEPT ![w] =
                         [pc |-> p, batch |-> q.batch, sync |-> q.sync, delay |-> d,
                          force |-> f, st |-> "waiting"]]
    BY Zenon DEF Write
  <2>2. queue' = Append(queue, w) /\ group' = group /\ vs' = vs /\ UNCHANGED told
    BY DEF Write
  <2>. DEFINE r == [pc |-> p, batch |-> q.batch, sync |-> q.sync, delay |-> d,
                    force |-> f, st |-> "waiting"]
  <2>3. r.batch = q.batch /\ r.sync = q.sync /\ r.st = "waiting"
    OBVIOUS
  <2>4. wr' = [wr EXCEPT ![w] = r]
    BY <2>1
  <2>. HIDE DEF r
  <2>. QED
    BY <2>2, <2>3, <2>4
<1>3. \A x \in Writers : wr'[x] = IF x = w THEN c ELSE wr[x]
  BY <1>1, <1>2 DEF Calls
<1>4. Callers' = [Callers EXCEPT ![w] =
                    [st |-> "waiting", batch |-> q.batch, sync |-> q.sync]]
  BY <1>2, <1>3 DEF Callers
<1>5. Going' = Going
  <2>1. CASE group = {}
    BY <1>2, <2>1 DEF Going
  <2>2. CASE group # {}
    <3>1. PICK g : group = {g} /\ g.n \in 1..Len(queue) /\ Len(queue) > 0
      BY <1>1, <2>2 DEF Inv, WInv, Group
    <3>2. /\ queue \in Seq(Writers) /\ 1 \in 1..Len(queue)
          /\ wr[queue[1]].pc \in {"logging", "inserting"}
      BY <1>1, <2>2, <3>1 DEF Inv, WInv, Group, Queued
    <3>3. queue'[1] = queue[1] /\ queue[1] # w /\ queue[1] \in Writers
      BY <1>1, <1>2, <3>2, AppendElements
    <3>4. wr'[queue'[1]].pc = wr[queue[1]].pc
      BY <1>3, <3>3
    <3>5. SubSeq(queue', 1, g.n) = SubSeq(queue, 1, g.n)
      BY <1>2, <3>1, <3>2, FirstsOfMore
    <3>. QED
      BY <1>2, <3>1, <3>4, <3>5 DEF Going
  <2>. QED
    BY <2>1, <2>2
<1>6. Callers[w].st # "waiting"
  BY <1>1 DEF Callers
<1>. QED
  BY <1>2, <1>4, <1>5, <1>6, KVCalls


\* The first callers of the queue are answered.
LEMMA Answered ==
  ASSUME Inv, NEW n \in 1..Len(queue), NEW st, PopWriters(n, st)
  PROVE  Callers' = [w \in Writers |->
                       IF w \in {queue[i] : i \in 1..n} THEN [KV!Idle EXCEPT !.st = st]
                       ELSE Callers[w]]
<1>. DEFINE out == {queue[i] : i \in 1..n}
            rest == SubSeq(queue, n + 1, Len(queue))
            gone == [NoWriter EXCEPT !.st = st]
<1>1. wr' = [w \in Writers |->
                 IF w \in out THEN gone
                 ELSE IF rest # <<>> /\ w = rest[1]
                   THEN [wr[w] EXCEPT !.pc = "room"] ELSE wr[w]]
  BY Zenon DEF PopWriters
<1>2. [st |-> gone.st, batch |-> gone.batch, sync |-> gone.sync] = [KV!Idle EXCEPT !.st = st]
  <2>1. PICK no : no = FALSE
    OBVIOUS
  <2>2. NoWriter = [pc |-> "idle", batch |-> <<>>, sync |-> no, delay |-> no,
                    force |-> no, st |-> "idle"]
    BY <2>1, Zenon DEF NoWriter
  <2>3. KV!Idle = [st |-> "idle", batch |-> <<>>, sync |-> no]
    BY <2>1, Zenon DEF KV!Idle
  <2>. QED
    BY <2>2, <2>3
<1>3. \A w \in Writers : LET c == [wr[w] EXCEPT !.pc = "room"]
                         IN c.batch = wr[w].batch /\ c.sync = wr[w].sync /\ c.st = wr[w].st
  <2>1. \A w \in Writers : wr[w] = Call(wr[w])
    BY Zenon DEF Inv, WInv, Calls
  <2>. QED
    BY <2>1 DEF Call
<1>. DEFINE told1 == [KV!Idle EXCEPT !.st = st]
<1>. HIDE DEF rest, gone, told1
<1>4. ASSUME NEW w \in Writers
      PROVE  [st |-> wr'[w].st, batch |-> wr'[w].batch, sync |-> wr'[w].sync] =
               IF w \in out THEN told1
               ELSE [st |-> wr[w].st, batch |-> wr[w].batch, sync |-> wr[w].sync]
  <2>1. CASE w \in out
    BY <1>1, <1>2, <2>1 DEF told1
  <2>2. CASE w \notin out
    BY <1>1, <1>3, <2>2
  <2>. QED
    BY <2>1, <2>2
<1>5. Callers' = [w \in Writers |->
                    [st |-> wr'[w].st, batch |-> wr'[w].batch, sync |-> wr'[w].sync]]
  BY DEF Callers
<1>6. \A w \in Writers :
        Callers[w] = [st |-> wr[w].st, batch |-> wr[w].batch, sync |-> wr[w].sync]
  BY DEF Callers
<1>. HIDE DEF out
<1>7. Callers' = [w \in Writers |-> IF w \in out THEN told1 ELSE Callers[w]]
  BY <1>4, <1>5, <1>6
<1>. QED
  BY <1>7, Zenon DEF out, told1

LEMMA KVRefuses ==
  ASSUME Going = {}, Going' = {}, UNCHANGED told, NEW w \in Writers,
         Callers[w].st = "waiting", NEW st \in {"ok", "failed"},
         st = "ok" => Callers[w].batch = <<>>,
         Callers' = [x \in Writers |-> IF x \in {w} THEN [KV!Idle EXCEPT !.st = st]
                                       ELSE Callers[x]]
  PROVE  KV!Next
<1>1. {w} \in (SUBSET {x \in Writers : Callers[x].st = "waiting"}) \ {{}}
  OBVIOUS
<1>2. Groups(applied)' = Groups(applied) /\ Groups(limbo)' = Groups(limbo)
      /\ durable' = durable
  BY DEF told, Groups
<1>3. \E W \in (SUBSET {x \in Writers : Callers[x].st = "waiting"}) \ {{}} :
        \E s \in {"ok", "failed"} :
          /\ s = "ok" => \A x \in W : Callers[x].batch = <<>>
          /\ Callers' = [x \in Writers |-> IF x \in W THEN [KV!Idle EXCEPT !.st = s]
                                           ELSE Callers[x]]
  BY <1>1
<1>4. KV!Refuse
  BY <1>2, <1>3, Zenon DEF KV!Refuse, KV!Waiting, KV!Answer, Callers, Going
<1>. QED
  BY <1>4 DEF KV!Next

LEMMA FrontIsRefuse ==
  ASSUME Durability, NEW w \in Writers,
         RefuseWrite(w) \/ SwitchFails(w) \/ NothingToWrite(w)
  PROVE  KV!Next
<1>1. AtRoom(w) /\ group' = group /\ UNCHANGED told /\ Inv
  BY Zenon DEF RefuseWrite, SwitchFails, NothingToWrite, Durability
<1>2. /\ Len(queue) > 0 /\ queue[1] = w /\ group = {} /\ 1 \in 1..Len(queue)
      /\ wr[w].st = "waiting"
  BY <1>1, FrontFacts
<1>3. PICK st \in {"ok", "failed"} :
        /\ PopWriters(1, st)
        /\ st = "ok" => wr[w].batch = <<>>
  BY Zenon DEF RefuseWrite, SwitchFails, NothingToWrite
<1>4. {queue[i] : i \in 1..1} = {w}
  BY <1>2
<1>5. Callers' = [x \in Writers |-> IF x \in {w} THEN [KV!Idle EXCEPT !.st = st]
                                    ELSE Callers[x]]
  BY <1>1, <1>2, <1>3, <1>4, Answered
<1>6. Callers[w].st = "waiting" /\ (st = "ok" => Callers[w].batch = <<>>)
  BY <1>2, <1>3 DEF Callers
<1>7. Going = {} /\ Going' = {}
  BY <1>1, <1>2 DEF Going
<1>. QED
  BY <1>1, <1>5, <1>6, <1>7, KVRefuses

\* ... or waits, makes room or gathers its group.
LEMMA FrontUnseen ==
  ASSUME Durability, NEW w \in Writers,
         DelayWrite(w) \/ WaitForRoom(w) \/ SwitchMemTable(w) \/ StartGroup(w)
  PROVE  UNCHANGED View
<1>1. AtRoom(w) /\ UNCHANGED told /\ Inv
  BY Zenon DEF DelayWrite, WaitForRoom, SwitchMemTable, StartGroup, Durability
<1>2. /\ queue[1] = w /\ group = {} /\ wr[w] = Call(wr[w])
      /\ wr = [x \in Writers |-> Call(wr[x])]
  BY <1>1, FrontFacts DEF Inv, WInv, Calls
<1>3. PICK c : wr' = [wr EXCEPT ![w] = c] /\ c.batch = wr[w].batch
               /\ c.sync = wr[w].sync /\ c.st = wr[w].st
               /\ (StartGroup(w) => c.pc = "logging")
  <2>. DEFINE no == FALSE
              a == [wr[w] EXCEPT !.delay = no]
              b == [wr[w] EXCEPT !.pc = "bgwait"]
              d == [wr[w] EXCEPT !.force = no]
              e == [wr[w] EXCEPT !.pc = "logging"]
  <2>1. \/ wr' = [wr EXCEPT ![w] = a] /\ ~StartGroup(w)
        \/ wr' = [wr EXCEPT ![w] = b] /\ ~StartGroup(w)
        \/ wr' = [wr EXCEPT ![w] = d] /\ ~StartGroup(w)
        \/ wr' = [wr EXCEPT ![w] = e]
    BY Zenon DEF DelayWrite, WaitForRoom, SwitchMemTable, StartGroup
  <2>. HIDE DEF no
  <2>2. /\ a.batch = wr[w].batch /\ a.sync = wr[w].sync /\ a.st = wr[w].st
        /\ b.batch = wr[w].batch /\ b.sync = wr[w].sync /\ b.st = wr[w].st
        /\ d.batch = wr[w].batch /\ d.sync = wr[w].sync /\ d.st = wr[w].st
        /\ e.batch = wr[w].batch /\ e.sync = wr[w].sync /\ e.st = wr[w].st
        /\ e.pc = "logging"
    BY <1>2 DEF Call
  <2>. HIDE DEF a, b, d, e
  <2>. QED
    BY <2>1, <2>2, Zenon
<1>4. \A x \in Writers : wr'[x].batch = wr[x].batch /\ wr'[x].sync = wr[x].sync
                         /\ wr'[x].st = wr[x].st
  BY <1>2, <1>3
<1>5. CASE group' = {}
  BY <1>1, <1>2, <1>4, <1>5, UnseenIdle
<1>6. CASE StartGroup(w)
  <2>1. queue' = queue /\ wr'[w].pc = "logging"
    BY <1>2, <1>3, <1>6 DEF StartGroup
  <2>2. Going = {} /\ Going' = {}
    BY <1>2, <2>1 DEF Going
  <2>3. Callers' = Callers
    BY <1>4, SameCallers
  <2>. QED
    BY <1>1, <2>2, <2>3 DEF View, told, Groups
<1>7. group' = group \/ StartGroup(w)
  BY Zenon DEF DelayWrite, WaitForRoom, SwitchMemTable
<1>. QED
  BY <1>2, <1>5, <1>6, <1>7


\* A group's record goes to the log.
Begins(ws, n, ents, r) ==
  /\ Going = {} /\ r = [ws |-> ws, after |-> n, ents |-> ents] /\ Going' = {r}
  /\ ws \in Seq({x \in Writers : Callers[x].st = "waiting"})
  /\ \A i, j \in DOMAIN ws : ws[i] = ws[j] => i = j
  /\ \E i \in DOMAIN ws : Callers[ws[i]].batch # <<>>
  /\ n >= KV!LastOf(Groups(applied) \cup Groups(limbo))
  /\ ents = Numbered(FlattenSeq([i \in DOMAIN ws |-> Callers[ws[i]].batch]), n)
  /\ Groups(limbo)' = Groups(limbo) \cup {ents}
  /\ applied' = applied /\ durable' = durable /\ Callers' = Callers

\* A group whose effects are in doubt is one that KVStore's Begin admits.
LEMMA KVBegins ==
  ASSUME NEW ws, NEW n, NEW ents, NEW r, Begins(ws, n, ents, r)
  PROVE  KV!Next
<1>1. /\ Going = {} /\ Going' = {r}
      /\ applied' = applied /\ durable' = durable /\ Callers' = Callers
      /\ Groups(limbo)' = Groups(limbo) \cup {ents}
  BY Zenon DEF Begins
<1>2. r = [ws |-> ws, after |-> n, ents |-> ents]
  BY Zenon DEF Begins
<1>3. r.ws = ws /\ r.after = n /\ r.ents = ents
  BY <1>2
<1>4. /\ ws \in Seq({x \in Writers : Callers[x].st = "waiting"})
      /\ \A i, j \in DOMAIN ws : ws[i] = ws[j] => i = j
      /\ \E i \in DOMAIN ws : Callers[ws[i]].batch # <<>>
      /\ n >= KV!LastOf(Groups(applied) \cup Groups(limbo))
  BY Zenon DEF Begins
<1>5. PICK s : s = [i \in DOMAIN ws |-> Callers[ws[i]].batch]
  OBVIOUS
<1>6. ents = Numbered(FlattenSeq(s), n)
  BY <1>5, Zenon DEF Begins
<1>7. KV!Numbered(KV!FlattenSeq(s), n) = Numbered(FlattenSeq(s), n)
  <2>1. KV!FlattenSeq(s) = FlattenSeq(s)
    BY Zenon DEF KV!FlattenSeq, FlattenSeq
  <2>2. \A x : KV!Numbered(x, n) = Numbered(x, n)
    BY Zenon DEF KV!Numbered, Numbered
  <2>. QED
    BY <2>1, <2>2
<1>8. r.ents = KV!Numbered(KV!FlattenSeq([i \in DOMAIN r.ws |-> Callers[r.ws[i]].batch]),
                           r.after)
  <2>1. ents = KV!Numbered(KV!FlattenSeq(s), n)
    BY <1>6, <1>7, Zenon
  <2>. QED
    BY <1>3, <1>5, <2>1, Zenon
<1>9. /\ r.ws \in Seq({x \in Writers : Callers[x].st = "waiting"})
      /\ \A i, j \in DOMAIN r.ws : r.ws[i] = r.ws[j] => i = j
      /\ \E i \in DOMAIN r.ws : Callers[r.ws[i]].batch # <<>>
      /\ r.after >= KV!LastOf(Groups(applied) \cup Groups(limbo))
      /\ Groups(limbo)' = Groups(limbo) \cup {r.ents}
  BY <1>1, <1>3, <1>4, Zenon
<1>10. Groups(applied)' = Groups(applied)
  <2>1. applied' = applied
    BY <1>1
  <2>. QED
    BY <2>1 DEF Groups
<1>11. r \in Going'
  BY <1>1, Zenon
<1>12. KV!Begin
  BY <1>1, <1>8, <1>9, <1>10, <1>11, Zenon DEF KV!Begin, KV!Waiting, Callers, Going
<1>. QED
  BY <1>12 DEF KV!Next

\* The numbers of the groups end where the store's last number is.
LEMMA LastBound ==
  ASSUME Durability, Running, InHand = {}
  PROVE  vs.last \in Nat /\ vs.last >= KV!LastOf(Groups(applied) \cup Groups(limbo))
<1>. DEFINE G == Groups(applied) \cup Groups(limbo)
            S == {e.s : e \in UNION G} \cup {0}
<1>1. vs.last \in Nat
  BY DEF Durability, Work, Active
<1>2. \A g \in G : \E r \in Taken : r.ents = g
  BY DEF Groups, Taken
<1>3. \A e \in UNION G : e.s \in Nat /\ e.s <= vs.last
  BY <1>2 DEF Durability, Work, Active, Disk, Grouped
<1>4. S \in SUBSET Nat /\ S # {} /\ \A n \in S : n <= vs.last
  BY <1>1, <1>3
<1>5. KV!LastOf(G) = CHOOSE n \in S : \A e \in UNION G : e.s <= n
  BY Zenon DEF KV!LastOf, KV!Entries
<1>. HIDE DEF S
<1>6. \E n \in S : \A e \in UNION G : e.s <= n
  <2>1. Max(S) \in S /\ \A n \in S : n <= Max(S)
    BY <1>1, <1>4, Greatest
  <2>2. \A e \in UNION G : e.s \in S
    BY DEF S
  <2>. QED
    BY <2>1, <2>2
<1>. HIDE DEF G
<1>7. KV!LastOf(G) \in S
  BY <1>5, <1>6
<1>8. KV!LastOf(G) <= vs.last /\ KV!LastOf(G) \in Nat
  BY <1>4, <1>7
<1>. QED
  BY <1>1, <1>8 DEF G

\* The first callers of the queue
LEMMA FirstCallers ==
  ASSUME NEW S, NEW s \in Seq(S), NEW n \in 1..Len(s)
  PROVE  /\ SubSeq(s, 1, n) \in Seq({s[i] : i \in 1..n})
         /\ DOMAIN SubSeq(s, 1, n) = 1..n
         /\ \A i \in 1..n : SubSeq(s, 1, n)[i] = s[i]
  OBVIOUS

LEMMA RecordIsBegin ==
  ASSUME Durability, NEW w \in Writers, AddRecord(w) \/ SyncFails(w)
  PROVE  KV!Next
<1>1. /\ Inv /\ Writes /\ Queued /\ queue \in Seq(Writers)
  BY DEF Durability, Work, Inv, WInv, Queued
<1>2. /\ wr[w].pc = "logging" /\ queue' = queue /\ vs' = vs
      /\ wr' = [wr EXCEPT ![w] = [wr[w] EXCEPT !.pc = "inserting"]]
      /\ limbo' = limbo \cup {[ents |-> Some(group).ents, log |-> lognum]}
      /\ applied' = applied /\ durable' = durable
  BY Zenon DEF AddRecord, SyncFails
<1>3. /\ Len(queue) > 0 /\ queue[1] = w /\ Running /\ wr[w] = Call(wr[w])
      /\ \E g : group = {g} /\ g.n \in 1..Len(queue)
  BY <1>1, <1>2, WritingFacts
<1>4. PICK g : group = {g} /\ g.n \in 1..Len(queue)
  BY <1>3
<1>5. /\ GroupRight(g) /\ g.ok /\ ~g.bad /\ wr[w].batch # <<>>
      /\ g.ents = Numbered(Updates(g.n), vs.last)
  BY <1>1, <1>2, <1>3, <1>4 DEF Writes, GroupRight, FrontCall
<1>6. PICK h : /\ group' = {h} /\ h.n = g.n /\ h.ents = g.ents
               /\ h.ok \/ h.bad
  BY <1>4, <1>5, GroupRecorded
<1>7. /\ \A x \in Writers : /\ wr'[x].batch = wr[x].batch
                            /\ wr'[x].sync = wr[x].sync
                            /\ wr'[x].st = wr[x].st
      /\ wr'[w].pc = "inserting"
  <2>. DEFINE c == [wr[w] EXCEPT !.pc = "inserting"]
  <2>1. c.batch = wr[w].batch /\ c.sync = wr[w].sync /\ c.st = wr[w].st
        /\ c.pc = "inserting"
    BY <1>3 DEF Call
  <2>2. wr' = [wr EXCEPT ![w] = c]
    BY <1>2
  <2>. HIDE DEF c
  <2>. QED
    BY <1>1, <2>1, <2>2 DEF Inv, WInv, Calls
<1>8. PICK ws, n, ents, r :
        /\ ws = SubSeq(queue, 1, g.n) /\ n = vs.last /\ ents = g.ents
        /\ r = [ws |-> ws, after |-> n, ents |-> ents]
  BY Zenon
<1>9. Going = {}
  BY <1>2, <1>3 DEF Going
<1>10. Going' = {r}
  <2>1. {x \in group' : (x.ok \/ x.bad) /\ wr'[queue'[1]].pc = "inserting"} = {h}
    BY <1>2, <1>3, <1>6, <1>7
  <2>2. Going' = {[ws |-> SubSeq(queue', 1, x.n), after |-> vs'.last, ents |-> x.ents] :
                    x \in {h}}
    BY <2>1 DEF Going
  <2>. QED
    BY <1>2, <1>6, <1>8, <2>2
<1>11. /\ DOMAIN ws = 1..g.n /\ \A i \in 1..g.n : ws[i] = queue[i]
       /\ ws \in Seq({queue[i] : i \in 1..g.n})
  <2>. DEFINE t == SubSeq(queue, 1, g.n)
  <2>1. /\ DOMAIN t = 1..g.n /\ \A i \in 1..g.n : t[i] = queue[i]
        /\ t \in Seq({queue[i] : i \in 1..g.n})
    BY <1>1, <1>4, FirstCallers
  <2>2. ws = t
    BY <1>8
  <2>. HIDE DEF t
  <2>. QED
    BY <2>1, <2>2
<1>12. \A i \in 1..g.n : i \in 1..Len(queue) /\ queue[i] \in Writers
  BY <1>1, <1>4
<1>13. \A i \in 1..g.n : /\ Callers[queue[i]].st = "waiting"
                         /\ Callers[queue[i]].batch = wr[queue[i]].batch
  BY <1>1, <1>12 DEF Queued, Callers
<1>14. ws \in Seq({x \in Writers : Callers[x].st = "waiting"})
  <2>1. {queue[i] : i \in 1..g.n} \subseteq {x \in Writers : Callers[x].st = "waiting"}
    BY <1>12, <1>13
  <2>. QED
    BY <1>11, <2>1
<1>15. \A i, j \in DOMAIN ws : ws[i] = ws[j] => i = j
  BY <1>1, <1>11, <1>12 DEF Queued
<1>16. \E i \in DOMAIN ws : Callers[ws[i]].batch # <<>>
  <2>1. 1 \in 1..g.n
    BY <1>4
  <2>. QED
    BY <1>3, <1>5, <1>11, <1>13, <2>1
<1>17. n >= KV!LastOf(Groups(applied) \cup Groups(limbo))
  <2>1. InHand = {}
    BY <1>2, <1>3 DEF InHand, FrontCall
  <2>. QED
    BY <1>3, <1>8, <2>1, LastBound
<1>18. ents = Numbered(FlattenSeq([i \in DOMAIN ws |-> Callers[ws[i]].batch]), n)
  <2>1. [i \in DOMAIN ws |-> Callers[ws[i]].batch] = [i \in 1..g.n |-> wr[queue[i]].batch]
    BY <1>11, <1>13
  <2>. QED
    BY <1>5, <1>8, <2>1 DEF Updates
<1>19. Groups(limbo)' = Groups(limbo) \cup {ents}
  <2>1. PICK rec : /\ rec = [ents |-> g.ents, log |-> lognum] /\ rec.ents = g.ents
    <3>. DEFINE x == [ents |-> g.ents, log |-> lognum]
    <3>1. x.ents = g.ents
      OBVIOUS
    <3>. HIDE DEF x
    <3>. QED
      BY <3>1 DEF x
  <2>2. limbo' = limbo \cup {rec}
    BY <1>2, <1>4, <2>1, SomeOfOne
  <2>. QED
    BY <1>8, <2>1, <2>2 DEF Groups
<1>20. Callers' = Callers
  BY <1>7, SameCallers
<1>21. Begins(ws, n, ents, r)
  BY <1>2, <1>8, <1>9, <1>10, <1>14, <1>15, <1>16, <1>17, <1>18, <1>19, <1>20,
     Zenon DEF Begins
<1>. QED
  BY <1>21, KVBegins


\* A group is applied, or fails, and its callers are answered.
Answers(r, st) ==
  /\ Going = {r} /\ Going' = {}
  /\ Callers' = [w \in Writers |-> IF w \in ToSet(r.ws) THEN [KV!Idle EXCEPT !.st = st]
                                   ELSE Callers[w]]
Commits(r) ==
  /\ Groups(applied)' = Groups(applied) \cup {r.ents}
  /\ Groups(limbo)' = Groups(limbo) \ {r.ents}
  /\ durable' = IF \E i \in DOMAIN r.ws : Callers[r.ws[i]].sync
                  THEN durable \cup {r.ents} ELSE durable

LEMMA KVCommits ==
  ASSUME NEW r, Answers(r, "ok"), Commits(r)
  PROVE  KV!Next
<1>1. KV!ToSet(r.ws) = ToSet(r.ws)
  BY Zenon DEF KV!ToSet, ToSet
<1>2. r \in Going
  BY Zenon DEF Answers
<1>3. /\ Going' = {}
      /\ Callers' = [w \in Writers |-> IF w \in KV!ToSet(r.ws)
                                       THEN [KV!Idle EXCEPT !.st = "ok"]
                                       ELSE Callers[w]]
  BY <1>1, Zenon DEF Answers
<1>4. KV!Commit
  BY <1>2, <1>3, Zenon DEF KV!Commit, KV!Answer, Commits, Callers, Going
<1>. QED
  BY <1>4 DEF KV!Next

LEMMA KVFails ==
  ASSUME NEW r, Answers(r, "failed"), UNCHANGED told
  PROVE  KV!Next
<1>1. KV!ToSet(r.ws) = ToSet(r.ws)
  BY Zenon DEF KV!ToSet, ToSet
<1>2. r \in Going
  BY Zenon DEF Answers
<1>3. Groups(applied)' = Groups(applied) /\ Groups(limbo)' = Groups(limbo)
      /\ durable' = durable
  BY DEF told, Groups
<1>4. /\ Going' = {}
      /\ Callers' = [w \in Writers |-> IF w \in KV!ToSet(r.ws)
                                       THEN [KV!Idle EXCEPT !.st = "failed"]
                                       ELSE Callers[w]]
  BY <1>1, Zenon DEF Answers
<1>5. KV!Fail
  BY <1>2, <1>3, <1>4, Zenon DEF KV!Fail, KV!Answer, Callers, Going
<1>. QED
  BY <1>5 DEF KV!Next

LEMMA FinishIsAnswer ==
  ASSUME Durability, NEW w \in Writers, FinishWrite(w)
  PROVE  KV!Next
<1>1. /\ Inv /\ Writes /\ Queued /\ queue \in Seq(Writers) /\ wr[w].pc = "inserting"
  BY DEF Durability, Work, Inv, WInv, Queued, FinishWrite
<1>2. /\ Running /\ FrontCall = wr[w] /\ queue[1] = w
      /\ \E g : group = {g} /\ g.n \in 1..Len(queue)
  BY <1>1, WritingFacts DEF FrontCall
<1>3. PICK g : group = {g} /\ g.n \in 1..Len(queue)
  BY <1>2
<1>4. Some(group) = g
  BY <1>3, SomeOfOne
<1>5. Active /\ GroupRight(g)
  BY <1>1, <1>2, <1>3 DEF Durability, Work, Writes
<1>6. PICK rec : rec = [ents |-> g.ents, log |-> lognum] /\ rec.ents = g.ents
  <2>. DEFINE r == [ents |-> g.ents, log |-> lognum]
  <2>1. r.ents = g.ents
    OBVIOUS
  <2>. HIDE DEF r
  <2>. QED
    BY <2>1 DEF r
<1>7. InHand = {rec} /\ rec \in limbo /\ ((g.ok /\ ~g.bad) \/ (~g.ok /\ g.bad))
  <2>1. InHand = {rec}
    BY <1>1, <1>2, <1>3, <1>6 DEF InHand
  <2>. QED
    BY <1>1, <1>2, <1>5, <2>1 DEF GroupRight
<1>8. PICK sync : sync = \E i \in 1..g.n : wr[queue[i]].sync
  OBVIOUS
<1>9. /\ PopWriters(g.n, IF g.ok THEN "ok" ELSE "failed")
      /\ applied' = (IF g.ok THEN applied \cup {rec} ELSE applied)
      /\ limbo' = (IF g.ok THEN limbo \ {rec} ELSE limbo)
      /\ durable' = (IF g.ok /\ sync THEN durable \cup {g.ents} ELSE durable)
      /\ group' = {}
  BY <1>4, <1>6, <1>8, Zenon DEF FinishWrite
<1>10. PICK ws, r :
         /\ ws = SubSeq(queue, 1, g.n)
         /\ r = [ws |-> ws, after |-> vs.last, ents |-> g.ents]
         /\ r.ws = ws /\ r.ents = g.ents
  <2>1. PICK ws, n : ws = SubSeq(queue, 1, g.n) /\ n = vs.last
    BY Zenon
  <2>. DEFINE r == [ws |-> ws, after |-> n, ents |-> g.ents]
  <2>2. r.ws = ws /\ r.ents = g.ents
    OBVIOUS
  <2>3. r = [ws |-> ws, after |-> vs.last, ents |-> g.ents]
    BY <2>1
  <2>. HIDE DEF r
  <2>. QED
    BY <2>1, <2>2, <2>3
<1>11. Going = {r} /\ Going' = {}
  <2>1. {x \in group : (x.ok \/ x.bad) /\ wr[queue[1]].pc = "inserting"} = {g}
    BY <1>1, <1>2, <1>3, <1>7
  <2>2. Going = {[ws |-> SubSeq(queue, 1, x.n), after |-> vs.last, ents |-> x.ents] :
                   x \in {g}}
    BY <2>1 DEF Going
  <2>. QED
    BY <1>9, <1>10, <2>2 DEF Going
<1>12. /\ DOMAIN ws = 1..g.n /\ \A i \in 1..g.n : ws[i] = queue[i]
  <2>. DEFINE t == SubSeq(queue, 1, g.n)
  <2>1. /\ DOMAIN t = 1..g.n /\ \A i \in 1..g.n : t[i] = queue[i]
    BY <1>1, <1>3, FirstCallers
  <2>2. ws = t
    BY <1>10
  <2>. HIDE DEF t
  <2>. QED
    BY <2>1, <2>2
<1>13. ToSet(r.ws) = {queue[i] : i \in 1..g.n}
  BY <1>10, <1>12 DEF ToSet
<1>14. ASSUME NEW st, PopWriters(g.n, st)
       PROVE  Answers(r, st)
  <2>1. Callers' = [x \in Writers |->
                      IF x \in {queue[i] : i \in 1..g.n} THEN [KV!Idle EXCEPT !.st = st]
                      ELSE Callers[x]]
    BY <1>1, <1>3, <1>14, Answered
  <2>. QED
    BY <1>11, <1>13, <2>1, Zenon DEF Answers
<1>15. CASE g.ok
  <2>1. Answers(r, "ok")
    <3>1. PopWriters(g.n, "ok")
      BY <1>9, <1>15, Zenon
    <3>. QED
      BY <1>14, <3>1
  <2>2. Groups(applied)' = Groups(applied) \cup {r.ents}
    <3>1. applied' = applied \cup {rec}
      BY <1>9, <1>15
    <3>. QED
      BY <1>6, <1>10, <3>1 DEF Groups
  <2>3. Groups(limbo)' = Groups(limbo) \ {r.ents}
    <3>1. limbo' = limbo \ {rec}
      BY <1>9, <1>15
    <3>2. ASSUME NEW x \in limbo, x # rec
          PROVE  x.ents # g.ents
      <4>1. \A e \in x.ents : e.s <= vs.last /\ e.s \in Nat
        BY <1>2, <1>5, <1>7, <3>2 DEF Active, Taken, Durability, Disk, Grouped
      <4>2. PICK e : e \in g.ents /\ vs.last < e.s /\ e.s \in Nat
        BY <1>5 DEF GroupRight
      <4>3. vs.last \in Nat
        BY <1>2, <1>5 DEF Active
      <4>. QED
        BY <4>1, <4>2, <4>3
    <3>. QED
      BY <1>6, <1>10, <3>1, <3>2 DEF Groups
  <2>4. (\E i \in DOMAIN r.ws : Callers[r.ws[i]].sync) <=> sync
    <3>1. \A i \in 1..g.n : queue[i] \in Writers
      BY <1>1, <1>3
    <3>2. \A i \in 1..g.n : Callers[queue[i]].sync = wr[queue[i]].sync
      BY <3>1 DEF Callers
    <3>3. DOMAIN r.ws = 1..g.n /\ \A i \in 1..g.n : r.ws[i] = queue[i]
      BY <1>10, <1>12
    <3>. QED
      BY <1>8, <3>2, <3>3, Zenon
  <2>5. durable' = IF \E i \in DOMAIN r.ws : Callers[r.ws[i]].sync
                     THEN durable \cup {r.ents} ELSE durable
    BY <1>9, <1>10, <1>15, <2>4
  <2>6. Commits(r)
    BY <2>2, <2>3, <2>5, Zenon DEF Commits
  <2>. QED
    BY <2>1, <2>6, KVCommits
<1>16. CASE ~g.ok
  <2>1. PopWriters(g.n, "failed")
    BY <1>9, <1>16, Zenon
  <2>2. UNCHANGED told
    BY <1>9, <1>16 DEF told
  <2>. QED
    BY <1>14, <2>1, <2>2, KVFails
<1>. QED
  BY <1>15, <1>16


\* The other threads, and the opening of the store, are not seen.
LEMMA LastStays ==
  ASSUME Inv, Background \/ BackgroundFails \/ Compacting \/ Reading \/ Close
  PROVE  vs'.last = vs.last
<1>1. Shape /\ vs = VersionSetOf(vs)
  BY DEF Inv, Shape
<1>2. ASSUME NEW x, vs' = [vs EXCEPT !.next = x]
      PROVE  vs'.last = vs.last
  BY <1>1, <1>2 DEF VersionSetOf
<1>3. ASSUME NEW x, vs' = [vs EXCEPT !.seek = x]
      PROVE  vs'.last = vs.last
  BY <1>1, <1>3 DEF VersionSetOf
<1>4. ASSUME NEW c, vs' = Pointed(c)
      PROVE  vs'.last = vs.last
  <2>1. PICK l, x : vs' = [vs EXCEPT !.after[l] = x]
    BY <1>4 DEF Pointed
  <2>. QED
    BY <1>1, <2>1, PointerApart
<1>5. CASE FinishFlush \/ FinishMerge \/ FinishMove
  <2>1. PICK e : vs' = Install(e)
    BY <1>5 DEF FinishFlush, FinishMerge, FinishMove
  <2>. DEFINE none == {}
              v == ApplyEdit(vs.v, e.deleted, e.added)
  <2>2. vs' = [vs EXCEPT !.v = v, !.log = e.log, !.seek = none]
    BY <2>1, Zenon DEF Install
  <2>. HIDE DEF none, v
  <2>3. vs' = [v |-> v, log |-> e.log, next |-> vs.next, last |-> vs.last,
               man |-> vs.man, after |-> vs.after, seek |-> none]
    BY <1>1, <2>2, VersionInstalled, Zenon
  <2>. QED
    BY <2>3
<1>6. CASE Background /\ ~FinishMerge /\ ~FinishMove /\ ~FinishFlush
  <2>1. \/ vs' = vs \/ \E x : vs' = [vs EXCEPT !.next = x]
        \/ \E c : vs' = Pointed(c)
    <3>1. CASE StartManual
      BY <3>1, Zenon DEF StartManual
    <3>. QED
      BY <1>6, <3>1, Zenon DEF Background, SkipWork, StartFlush, BuildTable, StartMerge,
         StartMove, MergeOutput, LogMerge
  <2>. QED
    BY <1>2, <1>4, <2>1
<1>7. CASE BackgroundFails \/ Compacting \/ Close
  BY <1>7 DEF BackgroundFails, BuildFails, ManifestFails, MergeFails, Compacting,
     ManualLoop, CompactRange, Close
<1>8. CASE Reading
  <2>1. vs' = vs \/ \E x : vs' = [vs EXCEPT !.seek = x]
    BY <1>8, Zenon DEF Reading, GetSnapshot, ReleaseSnapshot, StartGet, EndGet
  <2>. QED
    BY <1>3, <2>1
<1>. QED
  BY <1>5, <1>6, <1>7, <1>8

LEMMA OthersUnseen ==
  ASSUME Durability, Background \/ BackgroundFails \/ Compacting \/ Reading \/ Close
  PROVE  UNCHANGED View
<1>1. Inv /\ Shape
  BY DEF Durability, Inv
<1>2. vs'.last = vs.last
  BY <1>1, LastStays
<1>3. UNCHANGED told /\ group' = group /\ queue' = queue
  BY Zenon DEF Background, SkipWork, StartFlush, BuildTable, FinishFlush, StartMerge,
     StartMove, FinishMove, StartManual, MergeOutput, LogMerge, FinishMerge,
     BackgroundFails, BuildFails, ManifestFails, MergeFails, Compacting, ManualLoop,
     CompactRange, Reading, GetSnapshot, ReleaseSnapshot, StartGet, EndGet, Close,
     writing
<1>4. wr' = wr \/ wr' = Woken(wr)
  <2>1. ASSUME \E im, mn, s, f : EndCall(im, mn, s, f)
        PROVE  wr' = Woken(wr)
    BY <2>1, CallEnds
  <2>2. ASSUME \E im, s, f : EndFlush(im, s, f)
        PROVE  wr' = Woken(wr)
    BY <1>1, <2>2, FlushEnds
  <2>3. CASE SkipWork \/ FinishMove \/ FinishMerge \/ MergeFails \/ StartManual
    <3>1. (\E im, mn, s, f : EndCall(im, mn, s, f)) \/ wr' = wr
      BY <2>3, Zenon DEF SkipWork, FinishMove, FinishMerge, MergeFails, StartManual
    <3>. QED
      BY <2>1, <3>1
  <2>4. CASE BuildFails \/ FinishFlush
    <3>1. \E im, s, f : EndFlush(im, s, f)
      BY <2>4, Zenon DEF BuildFails, FinishFlush
    <3>. QED
      BY <2>2, <3>1
  <2>5. CASE ManifestFails
    <3>1. (\E im, mn, s, f : EndCall(im, mn, s, f)) \/ (\E im, s, f : EndFlush(im, s, f))
      BY <2>5, Zenon DEF ManifestFails
    <3>. QED
      BY <2>1, <2>2, <3>1
  <2>6. CASE StartFlush \/ BuildTable \/ StartMerge \/ StartMove \/ MergeOutput
             \/ LogMerge \/ Compacting \/ Reading \/ Close
    BY <2>6, Zenon DEF StartFlush, BuildTable, StartMerge, StartMove, MergeOutput,
       LogMerge, Compacting, ManualLoop, CompactRange, Reading, GetSnapshot,
       ReleaseSnapshot, StartGet, EndGet, Close, writing
  <2>. QED
    BY <2>3, <2>4, <2>5, <2>6 DEF Background, BackgroundFails
<1>. QED
  BY <1>1, <1>2, <1>3, <1>4, Unseen

LEMMA OpeningUnseen ==
  ASSUME Durability, Opening
  PROVE  UNCHANGED View
<1>1. UNCHANGED told /\ UNCHANGED writing /\ ~Running
  BY Zenon DEF Opening, NewDB, Recover, RecoverTable, RecoverLog, LogRecovery, Open,
     Running
<1>2. group = {} /\ group' = {} /\ wr' = wr
  BY <1>1 DEF Durability, Inv, Quiet, WInv, Group, writing
<1>. QED
  BY <1>1, <1>2, UnseenIdle

\* A stop keeps what was synced.
LEMMA StopIsCrash ==
  ASSUME Durability, Durability', Kill \/ PowerLoss \/ Closed \/ NullRange
  PROVE  KV!Next
<1>1. Stopped /\ Volatile
  BY DEF Kill, PowerLoss, Closed, NullRange, Stopped
<1>2. /\ durable' = durable /\ limbo' = {} /\ group' = {}
      /\ wr' = [w \in Writers |-> NoWriter]
      /\ applied' \subseteq applied \cup limbo
  BY <1>1, Zenon DEF Stopped, Volatile, Survivors
<1>3. Groups(applied)' \in SUBSET (Groups(applied) \cup Groups(limbo))
  BY <1>2 DEF Groups
<1>4. durable \subseteq Groups(applied)'
  <2>1. Present' /\ Promised' /\ durable' = durable
    BY <1>2 DEF Durability, Disk
  <2>. QED
    BY <2>1 DEF Present, Promised, Groups
<1>5. Groups(limbo)' = {} /\ Going' = {}
  BY <1>2 DEF Groups, Going
<1>6. Callers' = [w \in Writers |-> KV!Idle]
  <2>1. PICK no : no = FALSE
    OBVIOUS
  <2>2. NoWriter = [pc |-> "idle", batch |-> <<>>, sync |-> no, delay |-> no,
                    force |-> no, st |-> "idle"]
    BY <2>1, Zenon DEF NoWriter
  <2>3. KV!Idle = [st |-> "idle", batch |-> <<>>, sync |-> no]
    BY <2>1, Zenon DEF KV!Idle
  <2>4. [st |-> NoWriter.st, batch |-> NoWriter.batch, sync |-> NoWriter.sync] = KV!Idle
    BY <2>2, <2>3
  <2>5. \A w \in Writers : wr'[w] = NoWriter
    BY <1>2
  <2>6. Callers' = [w \in Writers |-> [st |-> wr'[w].st, batch |-> wr'[w].batch,
                                       sync |-> wr'[w].sync]]
    BY DEF Callers
  <2>. QED
    BY <2>4, <2>5, <2>6
<1>7. KV!Crash
  BY <1>2, <1>3, <1>4, <1>5, <1>6, Zenon DEF KV!Crash, Callers, Going
<1>. QED
  BY <1>7 DEF KV!Next

LEMMA KVStarts ==
  ASSUME Init
  PROVE  KV!Init
<1>1. /\ applied = {} /\ limbo = {} /\ durable = {} /\ group = {}
      /\ wr = [w \in Writers |-> NoWriter]
  BY DEF Init
<1>2. Groups(applied) = {} /\ Groups(limbo) = {} /\ Going = {}
  BY <1>1 DEF Groups, Going
<1>3. Callers = [w \in Writers |-> KV!Idle]
  <2>1. PICK no : no = FALSE
    OBVIOUS
  <2>2. NoWriter = [pc |-> "idle", batch |-> <<>>, sync |-> no, delay |-> no,
                    force |-> no, st |-> "idle"]
    BY <2>1, Zenon DEF NoWriter
  <2>3. KV!Idle = [st |-> "idle", batch |-> <<>>, sync |-> no]
    BY <2>1, Zenon DEF KV!Idle
  <2>4. [st |-> NoWriter.st, batch |-> NoWriter.batch, sync |-> NoWriter.sync] = KV!Idle
    BY <2>2, <2>3
  <2>5. \A w \in Writers : wr[w] = NoWriter
    BY <1>1
  <2>. QED
    BY <2>4, <2>5 DEF Callers
<1>. QED
  BY <1>1, <1>2, <1>3, Zenon DEF KV!Init, Callers, Going

LEMMA StepIsAllowed ==
  ASSUME Durability, Durability', Next
  PROVE  KV!Next \/ UNCHANGED View
<1>1. CASE Calling
  BY <1>1, WriteIsCall DEF Calling
<1>2. CASE \E w \in Writers : WriterStep(w) \/ WriterFails(w)
  <2>1. PICK w \in Writers : WriterStep(w) \/ WriterFails(w)
    BY <1>2
  <2>2. ~AppendFails(w)
    BY DEF AppendFails, Durability, Untorn
  <2>. QED
    BY <2>1, <2>2, FrontIsRefuse, FrontUnseen, RecordIsBegin, FinishIsAnswer
       DEF WriterStep, WriterFails
<1>3. CASE Background \/ BackgroundFails \/ Compacting \/ Reading
  BY <1>3, OthersUnseen
<1>4. CASE Stopping
  BY <1>4, OthersUnseen, StopIsCrash DEF Stopping
<1>5. CASE Opening
  BY <1>5, OpeningUnseen
<1>. QED
  BY <1>1, <1>2, <1>3, <1>4, <1>5 DEF Next

\* The store does what its callers are promised: with logs, tables and the
\* descriptor it implements KVStore, where a write is applied as a whole and
\* once, in the order of its numbers, and a stop keeps every synced one.
THEOREM StoreImplementsKV ==
  ASSUME Untorn
  PROVE  Spec => KVSpec
<1>1. Init => KV!Init
  BY KVStarts
<1>2. Durability /\ Durability' /\ [Next]_vars => [KV!Next]_KV!kvVars
  <2>1. CASE UNCHANGED vars
    <3>1. UNCHANGED View
      BY <2>1 DEF vars, View, Groups, Going, Callers
    <3>. QED
      BY <3>1, ViewOf
  <2>. QED
    BY <2>1, StepIsAllowed, ViewOf
<1>. QED
  BY <1>1, <1>2, DurabilityIsKept, PTL DEF Spec, KVSpec, KV!Spec
=============================================================================
