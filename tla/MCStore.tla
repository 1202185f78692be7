------------------------------ MODULE MCStore -------------------------------
(* The scenes of the store's run: each lets some things happen together, so *)
(* that every one of them stays small.                                     *)
EXTENDS MCLevelDB

VARIABLE scene
Scene(top, writers, asks, happens) ==
  [top |-> top, writers |-> writers, asks |-> asks, happens |-> happens]
Scenes(w, v) ==
  {Scene(4, {w}, PutAndBatch, {"kill", "power"}),
   Scene(3, {w}, PutAndBatch, {"kill", "power", "again"}),
   Scene(3, {w}, PutAndBatch, {"reads", "kill", "power"}),
   Scene(3, {w}, PutAndBatch, {"reads", "close"}),
   Scene(3, {w}, PutAndBatch, {"fails", "kill", "power"}),
   Scene(3, {w}, PutAndBatch, {"range", "fails"}),
   Scene(4, {w}, PutAndBatch, {"range"}),
   Scene(3, {w}, PutAndBatch, {"torn"}),
   Scene(6, {w}, AroundAGap, {}),
   Scene(4, {w}, PutAndBatch, {"reads", "wear"}),
   Scene(3, {w, v}, MixedWrites, {}),
   Scene(2, {w, v}, MixedWrites, {"fails"}),
   Scene(2, {w, v}, MixedWrites, {"power"})}
Happens(x) == x \in scene.happens /\ UNCHANGED scene
(* Bound: a flush that fails within a merge is tried again at each of its    *)
(* keys, with a new file number.                                           *)
MaxNumber == 10
MayStop == stops = 0 \/ "again" \in scene.happens

MCInit ==
  /\ Init
  /\ LET w == CHOOSE x \in Writers : TRUE
         v == CHOOSE x \in Writers : x # w
     IN scene \in Scenes(w, v)
MCNext ==
  \/ /\ \E w \in scene.writers, q \in scene.asks :
          Write(w, q) /\ NumbersAfter(q) <= scene.top
     /\ UNCHANGED scene
  \/ UNCHANGED scene /\ \E w \in Writers : WriterStep(w)
  \/ Happens("fails") /\ \E w \in Writers : SwitchFails(w) \/ SyncFails(w)
  \/ Happens("torn") /\ \E w \in Writers : AppendFails(w)
  \/ UNCHANGED scene /\ Background
  \/ Happens("fails") /\ BackgroundFails /\ vs.next <= MaxNumber
  \/ db = "closing" /\ BackgroundFails /\ UNCHANGED scene
  \/ Happens("range") /\ MayStop /\ (Compacting \/ NullRange)
  \/ Happens("reads") /\ Reading
       /\ (vs'.seek # vs.seek => "wear" \in scene.happens)
  \/ Happens("kill") /\ MayStop /\ Kill
  \/ Happens("power") /\ MayStop /\ PowerLoss
  \/ Happens("close") /\ (Close \/ Closed)
  \/ UNCHANGED scene /\ Opening
MCSpec == MCInit /\ [][MCNext]_<<vars, scene>> /\ Fairness

(* The files of a level stay apart while no range is asked to be compacted. *)
LevelsStayDisjoint == "range" \notin scene.happens => LevelsDisjoint
=============================================================================
