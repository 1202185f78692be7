------------------------------ MODULE WriteTree ------------------------------
(***************************************************************************)
(* The pending writes of the client (FWriteTree), kept twice: allWrites is *)
(* the list of them in order, visibleWrites lays the visible ones over     *)
(* each other (FCompoundWrite on FImmutableTree), so that a view is the    *)
(* server's data with one compound write applied.                          *)
(*                                                                         *)
(* A path is a sequence of keys.  A node is the function from the paths of *)
(* its leaves to their values, and a compound write the function from the  *)
(* paths of its writes to the nodes written there; priorities are left     *)
(* out.  A node that may be nil is a set of at most one node.              *)
(***************************************************************************)
EXTENDS Integers, Sequences, FiniteSets, FiniteSetsExt, SequencesExt, TLC

Contain(p, q) == IsPrefix(p, q)                       \* [p contains:q]
Relative(p, q) == SubSeq(q, Len(p) + 1, Len(q))       \* relativePathFrom:to:

Nothing == [p \in {} |-> 0]      \* the empty node, and the empty write
At(p, v) == p :> v

-----------------------------------------------------------------------------
(* Nodes (FLeafNode, FChildrenNode).                                        *)

Child(n, p) ==
  [q \in {Relative(p, r) : r \in {r \in DOMAIN n : Contain(p, r)}} |->
     n[p \o q]]

(* A leaf above p gives way to what is put below it, unless that is empty. *)
UpdateChild(n, p, child) ==
  LET kept == {q \in DOMAIN n : /\ ~Contain(p, q)
                                /\ Contain(q, p) => child = Nothing}
      new == {p \o q : q \in DOMAIN child}
  IN  [q \in kept \cup new |-> IF q \in new THEN child[Relative(p, q)]
                                            ELSE n[q]]

Keys(n) == {q[1] : q \in DOMAIN n \ {<<>>}}

-----------------------------------------------------------------------------
(* Compound writes.                                                         *)

RootMost(w, p) ==
  {q \in DOMAIN w : /\ Contain(q, p)
                    /\ \A r \in DOMAIN w : Contain(r, q) => r = q}

RemoveWriteAtPath(w, p) ==
  [q \in {q \in DOMAIN w : ~Contain(p, q)} |-> w[q]]

AddWrite(w, p, n) ==
  IF RootMost(w, p) = {}
  THEN At(p, n) @@ RemoveWriteAtPath(w, p)
  ELSE LET q == CHOOSE q \in RootMost(w, p) : TRUE
       IN  [w EXCEPT ![q] = UpdateChild(@, Relative(q, p), n)]

AddCompoundWrite(w, p, writes) ==
  FoldSet(LAMBDA q, v : AddWrite(v, p \o q, writes[q]), w, DOMAIN writes)

CompleteNode(w, p) == {Child(w[q], Relative(q, p)) : q \in RootMost(w, p)}

ChildCompoundWrite(w, p) ==
  LET top == CompleteNode(w, p)
  IN  IF top # {} THEN At(<<>>, CHOOSE n \in top : TRUE) ELSE Child(w, p)

ApplyToNode(w, n) ==
  FoldSet(LAMBDA q, m : UpdateChild(m, q, w[q]), n, DOMAIN w)

CompleteChildren(w) ==
  IF <<>> \in DOMAIN w
  THEN [k \in Keys(w[<<>>]) |-> Child(w[<<>>], <<k>>)]
  ELSE [k \in {q[1] : q \in {q \in DOMAIN w : Len(q) = 1}} |-> w[<<k>>]]

-----------------------------------------------------------------------------
(* Records and the tree of them.  An overwrite writes at its own path, a    *)
(* merge at paths below it.                                                 *)

Record(id, path, data, visible) ==
  [id |-> id, path |-> path, data |-> data, visible |-> visible]
IsOverwrite(r) == DOMAIN r.data = {<<>>}
Written(r) == {r.path \o q : q \in DOMAIN r.data}

NoWrites == [all |-> <<>>, visible |-> Nothing, last |-> -1]
Ids(tree) == {tree.all[i].id : i \in DOMAIN tree.all}

AddToTree(tree, r) ==
  [all |-> Append(tree.all, r), last |-> r.id,
   visible |-> IF r.visible THEN AddCompoundWrite(tree.visible, r.path, r.data)
                            ELSE tree.visible]

RecordContains(r, p) == \E q \in Written(r) : Contain(q, p)

(* What a record writes at and below the root of a layer.  For a merge      *)
(* above the root the code takes the complete node there and goes down      *)
(* from it once more.                                                       *)
Layer(w, r, root) ==
  LET down == Relative(r.path, root)
      child == CompleteNode(r.data, down)
  IN  CASE Contain(root, r.path) ->
             AddCompoundWrite(w, Relative(root, r.path), r.data)
        [] ~Contain(root, r.path) /\ Contain(r.path, root) /\ IsOverwrite(r) ->
             AddWrite(w, <<>>, Child(r.data[<<>>], down))
        [] ~Contain(root, r.path) /\ Contain(r.path, root) /\ ~IsOverwrite(r)
             /\ child # {} ->
             AddWrite(w, <<>>, Child(CHOOSE n \in child : TRUE, Tail(down)))
        [] OTHER -> w

LayerTree(writes, root) ==
  FoldLeft(LAMBDA w, r : Layer(w, r, root), Nothing, writes)

(* removeWriteId and what it finds about the removed write at index at.     *)
IndexOf(tree, id) ==
  CHOOSE i \in DOMAIN tree.all : tree.all[i].id = id
Others(tree, at) == RemoveAt(tree.all, at)

\* Mutant: earlier writes shadow too.
Shadowed_AnyOrder(tree, at) ==
  \E i \in 1 .. Len(tree.all) - 1 :
    /\ Others(tree, at)[i].visible
    /\ RecordContains(Others(tree, at)[i], tree.all[at].path)
Shadowed(tree, at) ==
  \E i \in at .. Len(tree.all) - 1 :
    /\ Others(tree, at)[i].visible
    /\ RecordContains(Others(tree, at)[i], tree.all[at].path)
Overlaps(tree, at) ==
  \E i \in 1 .. Len(tree.all) - 1 :
    /\ Others(tree, at)[i].visible
    /\ Contain(tree.all[at].path, Others(tree, at)[i].path)

(* resetTree layers every record, the hidden ones too (defaultFilter).      *)
ResetTree(writes) ==
  [all |-> writes, visible |-> LayerTree(writes, <<>>),
   last |-> IF writes = <<>> THEN -1 ELSE Last(writes).id]

RemoveWriteId(tree, id) ==
  LET at == IndexOf(tree, id)
      r == tree.all[at]
      rest == Others(tree, at)
  IN  IF ~r.visible \/ Shadowed(tree, at) THEN [tree EXCEPT !.all = rest]
      ELSE IF Overlaps(tree, at) THEN ResetTree(rest)
      ELSE [tree EXCEPT !.all = rest,
              !.visible = FoldSet(LAMBDA q, w : RemoveWriteAtPath(w, q),
                                  tree.visible, Written(r))]

-----------------------------------------------------------------------------
(* What the views ask of the tree.                                          *)

EventCache(tree, p, cache) ==
  LET top == CompleteNode(tree.visible, p)
      sub == ChildCompoundWrite(tree.visible, p)
  IN  IF top # {} THEN top
      ELSE IF sub = Nothing THEN cache
      ELSE IF cache = {} /\ CompleteNode(sub, <<>>) = {} THEN {}
      ELSE {ApplyToNode(sub, n) : n \in IF cache = {} THEN {Nothing} ELSE cache}

(* With hidden writes and without the excluded ones, for transactions.      *)
LatestState(tree, p, cache, excluded) ==
  LET Kept(r) == /\ r.id \notin excluded
                 /\ Contain(r.path, p) \/ Contain(p, r.path)
      base == IF cache = {} THEN Nothing ELSE CHOOSE n \in cache : TRUE
  IN  ApplyToNode(LayerTree(SelectSeq(tree.all, Kept), p), base)

EventChildren(tree, p, children) ==
  LET top == CompleteNode(tree.visible, p)
      merge == ChildCompoundWrite(tree.visible, p)
      Merged(k) == ApplyToNode(ChildCompoundWrite(merge, <<k>>),
                               Child(children, <<k>>))
      Complete == CompleteChildren(merge)
  IN  IF top # {}
      THEN LET n == CHOOSE n \in top : TRUE
           IN  [q \in DOMAIN n \ {<<>>} |-> n[q]]
      ELSE FoldSet(LAMBDA k, n : UpdateChild(n, <<k>>, Complete[k]),
                   FoldSet(LAMBDA k, n : UpdateChild(n, <<k>>, Merged(k)),
                           Nothing, Keys(children)),
                   DOMAIN Complete)

AfterServerOverwrite(tree, p, child, server) ==
  IF CompleteNode(tree.visible, p \o child) # {} THEN {}
  ELSE {ApplyToNode(ChildCompoundWrite(tree.visible, p \o child),
                    Child(server, child))}

CompleteChild(tree, p, key, cache) ==
  LET path == Append(p, key)
      top == CompleteNode(tree.visible, path)
  IN  IF top # {} THEN top
      ELSE {ApplyToNode(ChildCompoundWrite(tree.visible, path),
                        Child(n, <<key>>)) : n \in cache}

(* The child after a key, in the order of keys. *)
NextNodeAfterPost(tree, p, key, cache) ==
  LET merge == ChildCompoundWrite(tree.visible, p)
      shown == IF CompleteNode(merge, <<>>) # {} THEN CompleteNode(merge, <<>>)
               ELSE {ApplyToNode(merge, n) : n \in cache}
      later == {k \in UNION {Keys(n) : n \in shown} : k > key}
  IN  {k \in later : \A j \in later : k <= j}

-----------------------------------------------------------------------------
(* The meaning of pending writes: one after the other on the server's data. *)
Overlay(writes, server) ==
  FoldLeft(LAMBDA n, r :
             FoldSet(LAMBDA q, m : UpdateChild(m, r.path \o q, r.data[q]),
                     n, DOMAIN r.data),
           server, writes)
Visible(tree) == SelectSeq(tree.all, LAMBDA r : r.visible)
=============================================================================
