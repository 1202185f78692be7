----------------------------- MODULE Transactions -----------------------------
(***************************************************************************)
(* The repo's writes and transactions (FRepo) over the tree of pending     *)
(* writes: sets and updates, transactions with their queues per path,      *)
(* their reruns, the puts on their way, and the answers, disconnections    *)
(* and purges of the connection.  Every handler runs on the one queue of   *)
(* the repo, so it is one action; repo is the state it goes through.       *)
(*                                                                         *)
(* marks names what has gone wrong in a known way; but for dropped, the    *)
(* model goes no further then:                                             *)
(*  hidden     a rebuild made a transaction's hidden write visible,        *)
(*  unnoticed  a write was removed beside another of overlapping paths     *)
(*             without a rebuild,                                          *)
(*  dropped    a transaction marked for abort left its queue unanswered,   *)
(*  mutated    a dictionary of queues changed while it was enumerated.     *)
(***************************************************************************)
EXTENDS WriteTree

CONSTANTS
  UserWrites,    \* the [path, data] of sets and updates
  Runs,          \* the [path, leaf, apply] of transactions: the block puts a
                 \* value at leaf below path; apply: with local events
  MaxWrites,     \* bound on write ids
  MaxRuns,       \* bound on transactions
  MaxRetries,    \* kFTransactionMaxRetries
  MaxDrops,      \* bound on lost connections
  Servers        \* data of the server, without a leaf above a pending write

VARIABLES repo, online, drops

vars == <<repo, online, drops>>

(* A put on its way: of the user's write with this id, or of transactions.  *)
UserPut(id, path) == [id |-> id, txns |-> {}, path |-> path, sent |-> online]
RunPut(txns, path) == [id |-> -1, txns |-> txns, path |-> path, sent |-> online]

Init == /\ repo = [tree |-> NoWrites, next |-> 0, txns |-> <<>>,
                   flight |-> <<>>, marks |-> {}, missing |-> FALSE]
        /\ online = TRUE
        /\ drops = 0

-----------------------------------------------------------------------------
(* The write tree as the repo uses it.                                      *)

Comparable(p, q) == Contain(p, q) \/ Contain(q, p)

MarksOf(tree, id) ==
  LET at == IndexOf(tree, id)
      r == tree.all[at]
      rest == Others(tree, at)
      rebuilt == r.visible /\ ~Shadowed(tree, at) /\ Overlaps(tree, at)
      simple == r.visible /\ ~Shadowed(tree, at) /\ ~Overlaps(tree, at)
  IN  {m \in {"hidden", "unnoticed"} :
         \E i \in DOMAIN rest :
           \/ m = "hidden" /\ rebuilt /\ ~rest[i].visible
           \/ /\ m = "unnoticed" /\ simple /\ rest[i].visible
              /\ \E p \in Written(r), q \in Written(rest[i]) : Comparable(p, q)}

AckUserWrite(st, id) ==
  IF id \notin Ids(st.tree) THEN [st EXCEPT !.missing = TRUE]
  ELSE [st EXCEPT !.tree = RemoveWriteId(@, id),
                  !.marks = @ \cup MarksOf(st.tree, id)]

ApplyUserWrite(st, path, data, visible) ==
  [st EXCEPT !.tree = AddToTree(@, Record(st.next, path, data, visible)),
             !.next = @ + 1]

-----------------------------------------------------------------------------
(* The queues: transactions by path, in the order they were started.        *)

Queued(st) == {i \in DOMAIN st.txns : st.txns[i].queued}
QueuedPaths(st) == {st.txns[i].path : i \in Queued(st)}
QueueAt(st, p) == {i \in Queued(st) : Contain(p, st.txns[i].path)}
OwnQueue(st, p) == {i \in Queued(st) : st.txns[i].path = p}

AncestorTransactionNode(st, p) ==
  LET above == {q \in QueuedPaths(st) : Contain(q, p)}
  IN  IF above = {} THEN p
      ELSE CHOOSE q \in above : \A r \in above : Contain(q, r)

Ended(st, i) == [st EXCEPT !.txns[i].status = "completed",
                           !.txns[i].queued = FALSE, !.txns[i].ended = @ + 1]

InOrder(st, txns) == SelectSeq([i \in DOMAIN st.txns |-> i],
                               LAMBDA i : i \in txns)

SendTransactionQueue(st, p) ==
  LET queue == QueueAt(st, p)
  IN  [st EXCEPT
         !.txns = [i \in DOMAIN @ |-> IF i \in queue
                     THEN [@[i] EXCEPT !.status = "sent", !.retries = @ + 1]
                     ELSE @[i]],
         !.flight = Append(@, RunPut(queue, p))]

SendAllReady(st) ==
  LET tops == {p \in QueuedPaths(st) :
                 \A q \in QueuedPaths(st) : Contain(q, p) => q = p}
      ready == {p \in tops :
                  \A i \in QueueAt(st, p) : st.txns[i].status = "run"}
  IN  FoldSet(LAMBDA p, s : SendTransactionQueue(s, p), st, ready)

Output(leaf, id) == At(<<>>, At(leaf, id))   \* each run has a value of its own

(* A transaction of a queue that is rerun: go says which update blocks      *)
(* succeed.                                                                 *)
RerunOne(st, i, go) ==
  LET t == st.txns[i]
      again == [ApplyUserWrite(st, t.path, Output(t.leaf, st.next), t.apply)
                  EXCEPT !.txns[i].id = st.next]
  IN  CASE t.status = "needsAbort" ->
             Ended(IF t.canceled THEN st ELSE AckUserWrite(st, t.id), i)
        [] t.status = "run" /\ t.retries < MaxRetries /\ go[i] ->
             AckUserWrite(again, t.id)
        [] t.status = "run" /\ (t.retries >= MaxRetries \/ ~go[i]) ->
             Ended(AckUserWrite(st, t.id), i)
        [] OTHER -> st

Rerun(st, path, go) ==
  LET queue == QueueAt(st, AncestorTransactionNode(st, path))
  IN  IF queue = {} THEN st
      ELSE SendAllReady(FoldLeft(LAMBDA s, i : RerunOne(s, i, go), st,
                                 InOrder(st, queue)))

(* Those that were sent are marked and stay at the front of their queue,    *)
(* as many as were not marked before; the others end at once.               *)
AbortNode(st, p, why) ==
  LET queue == InOrder(st, OwnQueue(st, p))
      status == [k \in DOMAIN queue |-> st.txns[queue[k]].status]
      sent == Cardinality({k \in DOMAIN queue : status[k] = "sent"})
      AbortOne(s, k) ==
        LET i == queue[k]
        IN  CASE status[k] = "sentNeedsAbort" -> s
              [] status[k] = "sent" ->
                   [s EXCEPT !.txns[i].status = "sentNeedsAbort",
                             !.txns[i].canceled = (why = "canceled")]
              [] OTHER ->
                   [IF why = "set" THEN AckUserWrite(s, s.txns[i].id) ELSE s
                      EXCEPT !.txns[i].ended = @ + 1]
      left == {queue[k] : k \in sent + 1 .. Len(queue)}
      after == FoldLeft(AbortOne, st, [k \in DOMAIN queue |-> k])
  IN  [after EXCEPT
         !.txns = [i \in DOMAIN @ |->
                     [@[i] EXCEPT !.queued = @ /\ i \notin left]],
         !.marks = @ \cup {m \in {"dropped"} : \E i \in left :
                             after.txns[i].status = "sentNeedsAbort"}]

(* Clearing the queue of one child while another is still to be visited.    *)
Mutates(st, p) ==
  \E i, j \in QueueAt(st, p) \ OwnQueue(st, p) :
    /\ ~Comparable(st.txns[i].path, st.txns[j].path)
    /\ \A k \in OwnQueue(st, st.txns[i].path) : st.txns[k].status # "sent"

Abort(st, p, why) ==
  LET ancestors == [k \in 1 .. Len(p) |-> SubSeq(p, 1, Len(p) - k)]
      below == {q \in QueuedPaths(st) : Contain(p, q) /\ q # p}
      marked == [st EXCEPT !.marks = @ \cup {m \in {"mutated"} : Mutates(st, p)}]
  IN  FoldLeft(LAMBDA s, q : AbortNode(s, q, why), marked,
               ancestors \o <<p>> \o SetToSeq(below))

-----------------------------------------------------------------------------
(* The calls of the application.                                            *)

Outcomes == [1 .. MaxRuns -> BOOLEAN]
Goes == {go \in Outcomes : \A i \in 1 .. MaxRuns : i \in Queued(repo) \/ go[i]}

(* set:withNode: and update:withNodes: cancel the transactions around every *)
(* path they write and rerun those around what that touched.                *)
Write(w, go) ==
  LET put == UserPut(repo.next, w.path)
      written == ApplyUserWrite(repo, w.path, w.data, TRUE)
      Cancel(q, s) ==
        LET p == w.path \o q
        IN  Rerun(Abort(s, p, "set"), AncestorTransactionNode(s, p), go)
  IN  repo' = FoldSet(Cancel, [written EXCEPT !.flight = Append(@, put)],
                      DOMAIN w.data)

(* startTransactionOnPath:, when the first run of the block succeeds.       *)
StartTransaction(r) ==
  LET t == [path |-> r.path, leaf |-> r.leaf, apply |-> r.apply,
            id |-> repo.next,
            status |-> "run", canceled |-> FALSE, retries |-> 0,
            queued |-> TRUE, ended |-> 0]
      added == ApplyUserWrite(repo, r.path, Output(r.leaf, repo.next), r.apply)
  IN  /\ Len(repo.txns) < MaxRuns
      /\ repo' = SendAllReady([added EXCEPT !.txns = Append(@, t)])

-----------------------------------------------------------------------------
(* The connection's callbacks.                                              *)

Answers(put) == IF put.txns = {} THEN {"ok", "error"}
                                 ELSE {"ok", "datastale", "error"}

(* ackWrite of a set or an update: the transactions around it are rerun     *)
(* when that raised events.                                                 *)
AckWrite(st, put, events, go) ==
  LET acked == AckUserWrite(st, put.id)
  IN  IF events THEN Rerun(acked, put.path, go) ELSE acked

(* The callback of sendTransactionQueue. *)
RunAnswered(st, put, status, go) ==
  LET Completed(s, i) == Ended(AckUserWrite(s, s.txns[i].id), i)
      Failed(t) ==
        CASE status = "datastale" /\ t.status # "sentNeedsAbort" ->
               [t EXCEPT !.status = "run"]
          [] status = "datastale" /\ t.status = "sentNeedsAbort" ->
               [t EXCEPT !.status = "needsAbort"]
          [] OTHER -> [t EXCEPT !.status = "needsAbort",
                                !.canceled = (status = "canceled")]
  IN  IF status = "ok"
      THEN Rerun(SendAllReady(FoldLeft(Completed, st, InOrder(st, put.txns))),
                 put.path, go)
      ELSE Rerun([st EXCEPT !.txns = [i \in DOMAIN @ |->
                    IF i \in put.txns THEN Failed(@[i]) ELSE @[i]]],
                 put.path, go)

Answer(status, events, go) ==
  LET put == Head(repo.flight)
      rest == [repo EXCEPT !.flight = Tail(@)]
  IN  /\ repo.flight # <<>> /\ put.sent
      /\ status \in Answers(put)
      /\ put.txns # {} => ~events
      /\ repo' = IF put.txns = {} THEN AckWrite(rest, put, events, go)
                                  ELSE RunAnswered(rest, put, status, go)

(* New data of the server around a path. *)
DataUpdate(p, go) == repo' = Rerun(repo, p, go)

(* onDisconnect: the transactions that were sent fail, other puts are kept  *)
(* for the next connection.                                                 *)
Disconnect(go) ==
  LET sent == SelectSeq(repo.flight, LAMBDA put : put.txns # {} /\ put.sent)
      kept == SelectSeq(repo.flight, LAMBDA put : put.txns = {} \/ ~put.sent)
      waiting == [k \in DOMAIN kept |-> [kept[k] EXCEPT !.sent = FALSE]]
      failed == FoldLeft(LAMBDA s, put : RunAnswered(s, put, "error", go),
                         [repo EXCEPT !.flight = waiting], sent)
  IN  /\ online /\ drops < MaxDrops
      /\ online' = FALSE
      /\ drops' = drops + 1
      /\ repo' = [failed EXCEPT !.flight =
                    [k \in DOMAIN @ |-> [@[k] EXCEPT !.sent = FALSE]]]

Connect ==
  /\ ~online
  /\ online' = TRUE
  /\ repo' = [repo EXCEPT !.flight =
                [k \in DOMAIN @ |-> [@[k] EXCEPT !.sent = TRUE]]]
  /\ UNCHANGED drops

(* purgeOutstandingWrites: every write goes at once, then every put is      *)
(* called back as cancelled.                                                *)
Purge(go) ==
  LET emptied == [repo EXCEPT !.tree.all = <<>>, !.tree.visible = Nothing]
      Cancelled(s, put) == IF put.txns = {} THEN s
                           ELSE RunAnswered(s, put, "canceled", go)
      purged == FoldLeft(Cancelled, Abort(emptied, <<>>, "canceled"),
                         repo.flight)
  IN  repo' = [purged EXCEPT !.flight = <<>>]

AsKnown == repo.marks \subseteq {"dropped"}

Paths == {w.path : w \in UserWrites} \cup {r.path : r \in Runs}

Next ==
  /\ AsKnown
  /\ \/ /\ \E go \in Goes :
             \/ \E w \in UserWrites : Write(w, go)
             \/ \E status \in {"ok", "datastale", "error"}, e \in BOOLEAN :
                  Answer(status, e, go)
             \/ \E p \in Paths : DataUpdate(p, go)
             \/ Purge(go)
        /\ UNCHANGED <<online, drops>>
     \/ (\E r \in Runs : StartTransaction(r)) /\ UNCHANGED <<online, drops>>
     \/ \E go \in Goes : Disconnect(go)
     \/ Connect
  /\ repo'.next <= MaxWrites

Spec == Init /\ [][Next]_vars

-----------------------------------------------------------------------------
Here == {<<>>} \cup Paths \cup {Append(p, 1) : p \in Paths}
Keys3 == 1 .. 3
Shown(s) == Overlay(Visible(repo.tree), s)

(* Every view shows the server's data with the visible pending writes one   *)
(* after the other, whatever was answered, refused, rerun or purged before, *)
(* and a view without data of the server claims nothing else                *)
(* (calculateCompleteEventCacheAtPath without exclusions).                  *)
ViewsAreRight ==
  AsKnown =>
    \A s \in Servers :
      LET shown == Shown(s)
      IN  \A p \in Here :
            /\ EventCache(repo.tree, p, {Child(s, p)}) = {Child(shown, p)}
            /\ EventCache(repo.tree, p, {}) \subseteq {Child(shown, p)}

(* The children, changed children and next children that a view computes    *)
(* on its own are those of what it shows (calculateCompleteEventChildren,   *)
(* calculateEventCacheAfterServerOverwrite, calculateCompleteChild,         *)
(* calculateNextNodeAfterPost).                                             *)
PartsOf(seen, server, p) ==
  LET children == EventChildren(repo.tree, p, server)
      keys == Keys(seen)
      After(k) == {j \in keys : j > k}
  IN  /\ \A k \in Keys(children) :
           Child(children, <<k>>) = Child(seen, <<k>>)
      /\ Keys(server) \cap keys \subseteq Keys(children)
      /\ \A k \in Keys3 :
           /\ AfterServerOverwrite(repo.tree, p, <<k>>, server)
                \subseteq {Child(seen, <<k>>)}
           /\ CompleteChild(repo.tree, p, k, {server}) = {Child(seen, <<k>>)}
           /\ NextNodeAfterPost(repo.tree, p, k, {server})
                = {j \in After(k) : \A i \in After(k) : j <= i}
PartsAreRight ==
  AsKnown =>
    \A s \in Servers :
      LET shown == Shown(s)
      IN  \A p \in Here : PartsOf(Child(shown, p), Child(s, p), p)

(* The block of a transaction is given what its path would show with the    *)
(* hidden writes and without those of the runs that are made again, except  *)
(* where an update above the path writes to more or less than the path's    *)
(* own key, which the code takes for something else (latestStateAtPath).    *)
Misread(p) ==
  \E i \in DOMAIN repo.tree.all :
    LET r == repo.tree.all[i]
    IN  /\ ~IsOverwrite(r) /\ IsStrictPrefix(r.path, p)
        /\ \E q \in Written(r) :
             Comparable(q, p) /\ ~(q = p /\ Len(p) = Len(r.path) + 1)
RunsSeeTheLatest ==
  AsKnown =>
    \A p \in Paths, s \in Servers,
       again \in SUBSET {repo.txns[i].id : i \in Queued(repo)} :
      ~Misread(p) =>
        LatestState(repo.tree, p, {Child(s, p)}, again) =
          Child(Overlay(SelectSeq(repo.tree.all, LAMBDA r : r.id \notin again),
                        s), p)

(* A write is pending exactly as long as its put waits for an answer or its *)
(* transaction is queued, no removal asks for a write that is not there, a  *)
(* transaction ends once and is queued until then, and nothing stays        *)
(* visible after the last write (FRepo's handlers over FWriteTree).         *)
NothingIsStuck ==
  repo.marks = {} =>
    /\ Ids(repo.tree) =
         {repo.flight[k].id : k \in {k \in DOMAIN repo.flight :
                                      repo.flight[k].txns = {}}}
         \cup {repo.txns[i].id : i \in Queued(repo)}
    /\ \A i \in DOMAIN repo.txns :
         repo.txns[i].ended = IF repo.txns[i].queued THEN 0 ELSE 1
    /\ repo.tree.all = <<>> => repo.tree.visible = Nothing
    /\ ~repo.missing

(* Once nothing is queued or on its way, the completion block of every      *)
(* transaction has been called, whether it was successful or not            *)
(* (FIRDatabaseReference.h on runTransactionBlock:andCompletionBlock:).     *)
EveryRunEnds ==
  repo.flight = <<>> /\ Queued(repo) = {} =>
    \A i \in DOMAIN repo.txns : repo.txns[i].ended = 1
=============================================================================
