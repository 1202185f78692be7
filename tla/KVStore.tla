------------------------------ MODULE KVStore -------------------------------
(***************************************************************************)
(* What LevelDB promises its callers (include/leveldb/db.h, options.h):    *)
(* a write is applied as a whole or not at all, once, in the order of      *)
(* sequence numbers; several callers' writes may be applied together; a    *)
(* crash may lose applied writes and may keep unanswered ones, but never   *)
(* loses one that was answered after a sync.  Module LevelDB implements    *)
(* this with logs, tables and manifests.                                   *)
(***************************************************************************)
EXTENDS Integers, Sequences, FiniteSets, SequencesExt

CONSTANTS
  Writers,
  Requests  \* [batch, sync]: what a caller may ask for

VARIABLES
  applied,  \* the groups of writes that reads see: sets of entries
  limbo,    \* groups a crash may bring back although nobody was told
  durable,  \* the applied groups a caller had synced
  going,    \* the group being written: [ws, after, ents], or {}
  calls     \* each writer's call

kvVars == <<applied, limbo, durable, going, calls>>

Idle == [st |-> "idle", batch |-> <<>>, sync |-> FALSE]

Entries(G) == UNION G
LastOf(G) ==
  CHOOSE n \in {e.s : e \in Entries(G)} \cup {0} :
    \A e \in Entries(G) : e.s <= n

(* The entries of batches written one after the other after number n.       *)
Numbered(updates, n) ==
  {[k |-> updates[i].k, s |-> n + i, del |-> updates[i].del] :
     i \in DOMAIN updates}

Waiting == {w \in Writers : calls[w].st = "waiting"}
Answer(W, st) ==
  calls' = [w \in Writers |-> IF w \in W THEN [Idle EXCEPT !.st = st]
                              ELSE calls[w]]

Init ==
  /\ applied = {} /\ limbo = {} /\ durable = {} /\ going = {}
  /\ calls = [w \in Writers |-> Idle]

(* A caller asks for a batch; the empty one only waits for its turn. *)
Call(w, q) ==
  /\ calls[w].st # "waiting"
  /\ calls' = [calls EXCEPT ![w] =
                 [st |-> "waiting", batch |-> q.batch, sync |-> q.sync]]
  /\ UNCHANGED <<applied, limbo, durable, going>>

(* The batches of some waiting callers, each once, go to the log as one     *)
(* group; its numbers come after all that are in use, how far is up to the  *)
(* store.                                                                   *)
Begin ==
  /\ going = {}
  /\ \E g \in going' :
       /\ going' = {g}
       /\ g.ws \in Seq(Waiting)
       /\ \A i, j \in DOMAIN g.ws : g.ws[i] = g.ws[j] => i = j
       /\ \E i \in DOMAIN g.ws : calls[g.ws[i]].batch # <<>>
       /\ g.after >= LastOf(applied \cup limbo)
       /\ g.ents = Numbered(FlattenSeq([i \in DOMAIN g.ws |->
                                          calls[g.ws[i]].batch]), g.after)
       /\ limbo' = limbo \cup {g.ents}
  /\ UNCHANGED <<applied, durable, calls>>

(* The group is applied and all its callers are answered. *)
Commit ==
  /\ \E g \in going :
       /\ applied' = applied \cup {g.ents}
       /\ limbo' = limbo \ {g.ents}
       /\ durable' = IF \E i \in DOMAIN g.ws : calls[g.ws[i]].sync
                       THEN durable \cup {g.ents} ELSE durable
       /\ Answer(ToSet(g.ws), "ok")
  /\ going' = {}

(* The group fails: its callers learn so, a crash may still bring it back. *)
Fail ==
  /\ \E g \in going : Answer(ToSet(g.ws), "failed")
  /\ going' = {}
  /\ UNCHANGED <<applied, limbo, durable>>

(* Callers are refused before anything was written, or had nothing to write. *)
Refuse ==
  /\ going = {}
  /\ \E W \in (SUBSET Waiting) \ {{}} : \E st \in {"ok", "failed"} :
       /\ st = "ok" => \A w \in W : calls[w].batch = <<>>
       /\ Answer(W, st)
  /\ UNCHANGED <<applied, limbo, durable, going>>

(* The process or the machine stops: what was synced is there afterwards. *)
Crash ==
  /\ applied' \in SUBSET (applied \cup limbo)
  /\ durable \subseteq applied'
  /\ limbo' = {} /\ going' = {}
  /\ calls' = [w \in Writers |-> Idle]
  /\ UNCHANGED durable

Next ==
  \/ \E w \in Writers, q \in Requests : Call(w, q)
  \/ Begin \/ Commit \/ Fail \/ Refuse \/ Crash

Spec == Init /\ [][Next]_kvVars
=============================================================================
