--------------------------- MODULE BackgroundQueue ---------------------------
(***************************************************************************)
(* PosixEnv::Schedule and BGThread (util/env_posix.cc): what threads       *)
(* schedule is run by one background thread, started with the first item,  *)
(* which waits for a signal while its queue is empty.                      *)
(***************************************************************************)
EXTENDS Integers, Sequences, SequencesExt

CONSTANTS
  MaxItems       \* bound: how many items are scheduled

VARIABLES
  scheduled,     \* how many were; the items are numbered
  queue,         \* queue_
  bg,            \* the thread: "none", "awake", "waiting" or "running"
  ran            \* the items it ran, in order

queueVars == <<scheduled, queue, bg, ran>>

\* Mutant: a signal only when there is something in the queue.
Signals_Late == queue # <<>>
Signals == queue = <<>>
Schedule ==
  /\ scheduled < MaxItems
  /\ scheduled' = scheduled + 1
  /\ bg' = IF bg = "none" \/ (bg = "waiting" /\ Signals) THEN "awake" ELSE bg
  /\ queue' = Append(queue, scheduled + 1)
  /\ UNCHANGED ran

(* One turn under the mutex: wait again, or take the first item.            *)
Take ==
  /\ bg = "awake"
  /\ IF queue = <<>> THEN bg' = "waiting" /\ UNCHANGED <<queue, ran>>
     ELSE /\ queue' = Tail(queue) /\ ran' = Append(ran, Head(queue))
          /\ bg' = "running"
  /\ UNCHANGED scheduled
(* pthread_cond_wait may return without a signal. *)
Wake == bg = "waiting" /\ bg' = "awake" /\ UNCHANGED <<scheduled, queue, ran>>

(* The function runs unlocked; it may schedule more (MaybeScheduleCompaction). *)
Return == bg = "running" /\ bg' = "awake" /\ UNCHANGED <<scheduled, queue, ran>>

Init == scheduled = 0 /\ queue = <<>> /\ bg = "none" /\ ran = <<>>
Next == Schedule \/ Take \/ Wake \/ Return

-----------------------------------------------------------------------------
(* Items run once each, in their order, and the thread never sleeps on one. *)
NoItemIsLost ==
  /\ ran \o queue = [i \in 1 .. scheduled |-> i]
  /\ queue # <<>> => bg \in {"awake", "running"}
=============================================================================
