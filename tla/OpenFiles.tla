------------------------------ MODULE OpenFiles ------------------------------
(***************************************************************************)
(* The files that threads have open for reading (util/env_posix.cc): a     *)
(* table is mapped into memory while the first Limiter allows it, has a    *)
(* descriptor of its own while the second does, and is opened anew for     *)
(* every read after that.  A step is what one thread does between two      *)
(* calls of a Limiter.                                                     *)
(***************************************************************************)
EXTENDS Integers, FiniteSets

CONSTANTS
  Readers,          \* threads that open, read and close a file
  MaxMmaps, MaxOpenFiles

VARIABLES
  mmaps, fds,       \* Limiter::allowed_ of mmap_limit_ and fd_limit_
  file              \* what each reader has: [pc, open], open its
                    \*   descriptors

filesVars == <<mmaps, fds, file>>

Is(r, pc) == file[r].pc = pc
To(r, pc, open) == file' = [file EXCEPT ![r] = [pc |-> pc, open |-> open]]

(* NewRandomAccessFile: open *)
Open(r) == Is(r, "none") /\ To(r, "opened", 1) /\ UNCHANGED <<mmaps, fds>>

(* Limiter::Acquire: allowed_ is read before the mutex is taken and again.  *)
AcquireMmap(r) ==
  /\ Is(r, "opened")
  /\ IF mmaps > 0 THEN mmaps' = mmaps - 1 /\ To(r, "mapping", 1)
     ELSE To(r, "unmapped", 1) /\ UNCHANGED mmaps
  /\ UNCHANGED fds
Mapped(r) ==
  Is(r, "mapping") /\ To(r, "mmap", 0) /\ UNCHANGED <<mmaps, fds>>
(* GetFileSize or mmap failed: the descriptor is closed, the unit returned. *)
\* Mutant: the unit is kept.
Returned_Not(n) == n
Returned(n) == n + 1
MapFails(r) ==
  /\ Is(r, "mapping") /\ mmaps' = Returned(mmaps) /\ To(r, "none", 0)
  /\ UNCHANGED fds

(* PosixRandomAccessFile *)
AcquireFd(r) ==
  /\ Is(r, "unmapped")
  /\ IF fds > 0 THEN fds' = fds - 1 /\ To(r, "fd", 1)
     ELSE To(r, "temporary", 0) /\ UNCHANGED fds
  /\ UNCHANGED mmaps

BeginRead(r) ==
  Is(r, "temporary") /\ To(r, "reading", 1) /\ UNCHANGED <<mmaps, fds>>
EndRead(r) ==
  Is(r, "reading") /\ To(r, "temporary", 0) /\ UNCHANGED <<mmaps, fds>>

(* The destructors. *)
Unmap(r) ==
  Is(r, "mmap") /\ mmaps' = mmaps + 1 /\ To(r, "none", 0) /\ UNCHANGED fds
Delete(r) ==
  /\ file[r].pc \in {"fd", "temporary"}
  /\ fds' = IF Is(r, "fd") THEN fds + 1 ELSE fds
  /\ To(r, "none", 0) /\ UNCHANGED mmaps

Init ==
  /\ mmaps = MaxMmaps /\ fds = MaxOpenFiles
  /\ file = [r \in Readers |-> [pc |-> "none", open |-> 0]]

Next ==
  \/ \E r \in Readers : Open(r) \/ AcquireMmap(r) \/ Mapped(r) \/ MapFails(r)
  \/ \E r \in Readers : AcquireFd(r) \/ BeginRead(r) \/ EndRead(r)
  \/ \E r \in Readers : Unmap(r) \/ Delete(r)

-----------------------------------------------------------------------------
Having(pcs) == {r \in Readers : file[r].pc \in pcs}

(* No unit is lost or given twice, whatever fails; a reader that does       *)
(* nothing has a descriptor only out of MaxOpenFiles.                      *)
LimitsAreKept ==
  /\ mmaps = MaxMmaps - Cardinality(Having({"mapping", "mmap"}))
  /\ fds = MaxOpenFiles - Cardinality(Having({"fd"}))
  /\ mmaps >= 0 /\ fds >= 0
  /\ \A r \in Readers :
       file[r].open =
         IF r \in Having({"none", "mmap", "temporary"}) THEN 0 ELSE 1
=============================================================================
