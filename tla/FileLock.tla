------------------------------ MODULE FileLock ------------------------------
(***************************************************************************)
(* The lock that keeps a database to one user: PosixEnv::LockFile and      *)
(* UnlockFile (util/env_posix.cc), a table per process and a lock of the   *)
(* kernel.  Each system call, and each call of the table, is a step.       *)
(***************************************************************************)
EXTENDS Integers, FiniteSets

CONSTANTS
  Processes,
  ThreadsOf(_)     \* the threads of a process that open the database

VARIABLES
  locked,      \* the processes whose PosixLockTable holds the name
  owner,       \* the process that has the fcntl lock ("nobody")
  thread       \* what each thread is at

lockVars == <<locked, owner, thread>>

Threads == UNION {ThreadsOf(p) : p \in Processes}
ProcessOf(t) == CHOOSE p \in Processes : t \in ThreadsOf(p)

At(t, pc) == thread[t] = pc
To(t, pc) == thread' = [thread EXCEPT ![t] = pc]

(* fcntl: a process that closes any of its descriptors of a file loses its  *)
(* locks of the file.                                                      *)
Close(t) == owner' = IF owner = ProcessOf(t) THEN "nobody" ELSE owner

Open(t) ==
  At(t, "idle") /\ To(t, "opened") /\ UNCHANGED <<locked, owner>>

\* Mutant: the table is not asked.
InTable_Never(t) == FALSE
InTable(t) == ProcessOf(t) \in locked
Insert(t) ==
  /\ At(t, "opened")
  /\ IF InTable(t) THEN Close(t) /\ To(t, "idle") /\ UNCHANGED locked
     ELSE /\ locked' = locked \cup {ProcessOf(t)}
          /\ To(t, "inserted") /\ UNCHANGED owner

SetLock(t) ==
  /\ At(t, "inserted")
  /\ IF owner \in {"nobody", ProcessOf(t)}
       THEN owner' = ProcessOf(t) /\ To(t, "held")
       ELSE Close(t) /\ To(t, "refused")
  /\ UNCHANGED locked
Refused(t) ==
  /\ At(t, "refused") /\ To(t, "idle")
  /\ locked' = locked \ {ProcessOf(t)} /\ UNCHANGED owner

Unlock(t) ==
  /\ At(t, "held") /\ To(t, "unlocked")
  /\ owner' = IF owner = ProcessOf(t) THEN "nobody" ELSE owner
  /\ UNCHANGED locked
Remove(t) ==
  /\ At(t, "unlocked") /\ To(t, "removed")
  /\ locked' = locked \ {ProcessOf(t)} /\ UNCHANGED owner
CloseLock(t) ==
  At(t, "removed") /\ Close(t) /\ To(t, "idle") /\ UNCHANGED locked

(* A process is killed, and started again later. *)
Exit(p) ==
  /\ \E t \in ThreadsOf(p) : ~At(t, "idle")
  /\ owner' = IF owner = p THEN "nobody" ELSE owner
  /\ locked' = locked \ {p}
  /\ thread' = [t \in Threads |->
                  IF t \in ThreadsOf(p) THEN "idle" ELSE thread[t]]

Init ==
  locked = {} /\ owner = "nobody" /\ thread = [t \in Threads |-> "idle"]

Next ==
  \/ \E t \in Threads : Open(t) \/ Insert(t) \/ SetLock(t) \/ Refused(t)
  \/ \E t \in Threads : Unlock(t) \/ Remove(t) \/ CloseLock(t)
  \/ \E p \in Processes : Exit(p)

-----------------------------------------------------------------------------
Holding == {t \in Threads : At(t, "held")}

(* Within a process the lock is one thread's, also while another is giving  *)
(* it back or is refused.                                                  *)
OneHolderPerProcess ==
  \A p \in Processes : Cardinality(Holding \cap ThreadsOf(p)) <= 1

(* What env.h promises: no two hold the lock, in one process or in two.     *)
OneHolder == Cardinality(Holding) <= 1
=============================================================================
