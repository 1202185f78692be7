-------------------------------- MODULE Status --------------------------------
(***************************************************************************)
(* Statuses of the LevelDB library (util/status.cc): an object holds NULL  *)
(* for OK or a block of its own with the length, the code and the message. *)
(* Objects are made, copied, assigned and destroyed in any order; a        *)
(* message is a sequence of pieces, and its length the number of them.     *)
(***************************************************************************)
EXTENDS Integers, Sequences, FiniteSets

CONSTANTS
  Objects,          \* the variables of type Status
  Codes,            \* the codes other than kOk
  Texts             \* the messages: sequences of pieces, <<>> when none

VARIABLES
  state_,           \* per object: a block, NULL, or Gone when there is none
  heap,             \* what each allocated block holds
  meant             \* per object: the code and the messages it was made with

statusVars == <<state_, heap, meant>>

NULL == 0
Gone == -1
Blocks == 1 .. Cardinality(Objects) + 1
OK == [code |-> "kOk", msg |-> <<>>, msg2 |-> <<>>]
Colon == <<": ">>

-----------------------------------------------------------------------------
(* The second message follows the first after a colon, if it is not empty.  *)
Made(code, msg, msg2) ==
  LET len2 == Len(msg2)
      text == IF len2 # 0 THEN msg \o Colon \o msg2 ELSE msg
  IN  [size |-> Len(msg) + (IF len2 # 0 THEN 1 + len2 ELSE 0),
       code |-> code, chars |-> text]

Fresh(h) == CHOOSE b \in Blocks : b \notin DOMAIN h
Put(h, b, s) == [c \in DOMAIN h \cup {b} |-> IF c = b THEN s ELSE h[c]]
Delete(h, b) == [c \in DOMAIN h \ {b} |-> h[c]]

CopyState(s) ==
  [size |-> s.size, code |-> s.code, chars |-> SubSeq(s.chars, 1, s.size)]

Alive(o) == state_[o] # Gone
ok(o) == state_[o] = NULL
code(o) == IF ok(o) THEN "kOk" ELSE heap[state_[o]].code
Type(c) == IF c = "kNotSupported" THEN "Not implemented: " ELSE c
ToString(o) ==
  IF ok(o) THEN <<"OK">>
  ELSE LET s == heap[state_[o]]
       IN  <<Type(s.code)>> \o SubSeq(s.chars, 1, s.size)

-----------------------------------------------------------------------------
(* Status(), OK()                                                           *)
Default(o) ==
  /\ ~Alive(o) /\ state_' = [state_ EXCEPT ![o] = NULL]
  /\ meant' = [meant EXCEPT ![o] = OK] /\ UNCHANGED heap

(* NotFound, Corruption, NotSupported, InvalidArgument, IOError             *)
Error(o, c, msg, msg2) ==
  LET b == Fresh(heap)
  IN  /\ ~Alive(o) /\ state_' = [state_ EXCEPT ![o] = b]
      /\ heap' = Put(heap, b, Made(c, msg, msg2))
      /\ meant' = [meant EXCEPT ![o] = [code |-> c, msg |-> msg, msg2 |-> msg2]]

Copy(o, s) ==
  /\ ~Alive(o) /\ Alive(s)
  /\ IF ok(s) THEN state_' = [state_ EXCEPT ![o] = NULL] /\ UNCHANGED heap
     ELSE LET b == Fresh(heap)
          IN  /\ state_' = [state_ EXCEPT ![o] = b]
              /\ heap' = Put(heap, b, CopyState(heap[state_[s]]))
  /\ meant' = [meant EXCEPT ![o] = meant[s]]

Freed(o) == IF ok(o) THEN heap ELSE Delete(heap, state_[o])

(* operator=: an object assigned to itself, or OK to OK, stays.             *)
Assign(o, s) ==
  /\ Alive(o) /\ Alive(s)
  /\ IF state_[o] = state_[s] THEN UNCHANGED <<state_, heap>>
     ELSE IF ok(s)
          THEN state_' = [state_ EXCEPT ![o] = NULL] /\ heap' = Freed(o)
          ELSE LET b == Fresh(Freed(o))
               IN  /\ state_' = [state_ EXCEPT ![o] = b]
                   /\ heap' = Put(Freed(o), b, CopyState(heap[state_[s]]))
  /\ meant' = [meant EXCEPT ![o] = meant[s]]

Destroy(o) ==
  /\ Alive(o) /\ heap' = Freed(o)
  /\ state_' = [state_ EXCEPT ![o] = Gone]
  /\ meant' = [meant EXCEPT ![o] = OK]

-----------------------------------------------------------------------------
Init ==
  /\ state_ = [o \in Objects |-> Gone] /\ heap = [b \in {} |-> OK]
  /\ meant = [o \in Objects |-> OK]

Next ==
  \E o \in Objects :
    \/ Default(o) \/ Destroy(o)
    \/ \E c \in Codes, msg \in Texts, msg2 \in Texts : Error(o, c, msg, msg2)
    \/ \E s \in Objects : Copy(o, s) \/ Assign(o, s)

-----------------------------------------------------------------------------
(* Every object that is not OK has a block of its own, no other block is    *)
(* allocated, and it says what it was made with, however often it was       *)
(* copied or assigned since.                                                *)
StatusesAreOwned ==
  /\ DOMAIN heap = {state_[o] : o \in Objects} \ {NULL, Gone}
  /\ \A o \in Objects :
       Alive(o) =>
         /\ code(o) = meant[o].code
         /\ ~ok(o) =>
              /\ \A s \in Objects : s # o => state_[s] # state_[o]
              /\ ToString(o) =
                   <<Type(meant[o].code)>> \o meant[o].msg
                     \o (IF meant[o].msg2 = <<>> THEN <<>>
                         ELSE Colon \o meant[o].msg2)
=============================================================================
