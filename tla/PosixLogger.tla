----------------------------- MODULE PosixLogger -----------------------------
(***************************************************************************)
(* The info log (util/posix_logger.h): Logv formats a line into a buffer   *)
(* on the stack and, if it does not fit, once more into a larger one.      *)
(* Threads log at once; a line is a length, its bytes are numbered, and a  *)
(* pointer into a buffer is how many bytes it is from base.                *)
(***************************************************************************)
EXTENDS Integers, Sequences

CONSTANTS
  Threads,
  Small,            \* the size of buffer: 500
  Large,            \* the size of the second one: 30000
  Headers,          \* the lengths of a time and thread id
  Lengths,          \* the lengths of messages
  MaxLines          \* bound: lines in the file

VARIABLES
  thread,           \* per thread: the call of Logv it is in
  heap,             \* how many buffers are allocated
  file              \* the lines written: their bytes, and what they should say

loggerVars == <<thread, heap, file>>

Idle == [pc |-> "idle", prefix |-> 0, length |-> 0, newline |-> FALSE,
         bufsize |-> 0, p |-> 0]

-----------------------------------------------------------------------------
(* What snprintf and vsnprintf leave: the bytes that fit but for the NUL    *)
(* that ends them, and the length of all of them as the result.  The byte   *)
(* at n is the newline that ends the message, or another.                   *)
ByteAt(c, n) ==
  IF c.newline /\ n = c.prefix + c.length THEN "newline" ELSE "other"

Logv(t, prefix, length, newline) ==
  /\ thread[t].pc = "idle" /\ (newline => length > 0)
  /\ thread' = [thread EXCEPT ![t] =
       [Idle EXCEPT !.pc = "format", !.bufsize = Small, !.prefix = prefix,
                    !.length = length, !.newline = newline]]
  /\ UNCHANGED <<heap, file>>

(* One round of the loop: too long for the first buffer, it goes on with    *)
(* the second; too long for the second, the text is cut.  Then a newline is *)
(* added if there is none.                                                  *)
Format(t) ==
  LET c == thread[t]
      wanted == IF c.prefix < c.bufsize THEN c.prefix + c.length ELSE c.prefix
      p == IF wanted >= c.bufsize THEN c.bufsize - 1 ELSE wanted
  IN  /\ c.pc = "format"
      /\ IF wanted >= c.bufsize /\ c.bufsize = Small
         THEN /\ thread' = [thread EXCEPT ![t].bufsize = Large]
              /\ heap' = heap + 1
         ELSE /\ thread' = [thread EXCEPT ![t] =
                   [c EXCEPT !.pc = "write",
                             !.p = IF p = 0 \/ ByteAt(c, p) # "newline"
                                   THEN p + 1 ELSE p]]
              /\ UNCHANGED heap
      /\ UNCHANGED file

(* fwrite and fflush of the whole line; the second buffer is deleted.       *)
Write(t) ==
  LET c == thread[t]
  IN  /\ c.pc = "write" /\ Len(file) < MaxLines
      /\ file' = Append(file, [size |-> c.p, text |-> c.prefix + c.length,
                               newline |-> c.newline])
      /\ heap' = IF c.bufsize = Large THEN heap - 1 ELSE heap
      /\ thread' = [thread EXCEPT ![t] = Idle]

-----------------------------------------------------------------------------
Init == thread = [t \in Threads |-> Idle] /\ heap = 0 /\ file = <<>>

Next ==
  \E t \in Threads :
    \/ Format(t) \/ Write(t)
    \/ \E prefix \in Headers, length \in Lengths, newline \in BOOLEAN :
         Logv(t, prefix, length, newline)

-----------------------------------------------------------------------------
(* A line never leaves its buffer, is all of its text and one newline       *)
(* unless it is longer than the larger buffer, and then as much of it as    *)
(* fits; every buffer is deleted (Logv and its assert).                     *)
LinesAreWhole ==
  /\ \A t \in Threads : thread[t].p <= thread[t].bufsize
  /\ \A i \in DOMAIN file :
       LET l == file[i]
           all == IF l.newline THEN l.text ELSE l.text + 1
       IN  l.size = IF all <= Large THEN all ELSE Large
  /\ (\A t \in Threads : thread[t].pc = "idle") => heap = 0
=============================================================================
