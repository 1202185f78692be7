-------------------------------- MODULE Arena --------------------------------
(***************************************************************************)
(* The memory of a memtable's nodes and keys (util/arena.cc): pieces are   *)
(* cut from the current block and live until the arena goes; a large piece *)
(* has a block of its own, and a small one that does not fit starts a new  *)
(* block.  An address is a block and an offset in it; new[] returns blocks *)
(* that are aligned.                                                       *)
(***************************************************************************)
EXTENDS Integers, Sequences

CONSTANTS
  kBlockSize,       \* 4096
  align,            \* 8, or the size of a pointer if that is more
  PointerSize,
  Requests,         \* the sizes that are asked for
  MaxPieces         \* bound

(* What the constants are in the code. *)
ArenaAssumption ==
  /\ kBlockSize \in Nat \ {0} /\ align \in Nat \ {0} /\ PointerSize \in Nat
  /\ Requests \subseteq Nat \ {0} /\ MaxPieces \in Nat

VARIABLES
  blocks,           \* blocks_: their sizes
  alloc_ptr,        \* [block, at]; block 0 is NULL
  alloc_bytes_remaining,
  memory_usage,
  pieces            \* what was given out: [block, at, bytes, aligned]

arenaVars ==
  <<blocks, alloc_ptr, alloc_bytes_remaining, memory_usage, pieces>>

Piece(block, at, bytes, aligned) ==
  [block |-> block, at |-> at, bytes |-> bytes, aligned |-> aligned]
Give(block, at, bytes, aligned) ==
  pieces' = Append(pieces, Piece(block, at, bytes, aligned))

AllocateNewBlock(bytes) ==
  /\ blocks' = Append(blocks, bytes)
  /\ memory_usage' = memory_usage + bytes + PointerSize

(* AllocateFallback: more than a quarter of a block is allocated apart, and *)
(* the current block goes on; else what remains of it is wasted.            *)
\* Mutant: a large piece makes its block the current one.
Apart_Current(bytes, aligned) ==
  /\ bytes > kBlockSize \div 4
  /\ AllocateNewBlock(bytes)
  /\ Give(Len(blocks) + 1, 0, bytes, aligned)
  /\ alloc_ptr' = [block |-> Len(blocks) + 1, at |-> 0]
  /\ UNCHANGED alloc_bytes_remaining
Apart(bytes, aligned) ==
  /\ bytes > kBlockSize \div 4
  /\ AllocateNewBlock(bytes)
  /\ Give(Len(blocks) + 1, 0, bytes, aligned)
  /\ UNCHANGED <<alloc_ptr, alloc_bytes_remaining>>
Fresh(bytes, aligned) ==
  /\ bytes <= kBlockSize \div 4
  /\ AllocateNewBlock(kBlockSize)
  /\ Give(Len(blocks) + 1, 0, bytes, aligned)
  /\ alloc_ptr' = [block |-> Len(blocks) + 1, at |-> bytes]
  /\ alloc_bytes_remaining' = kBlockSize - bytes
AllocateFallback(bytes, aligned) ==
  Apart(bytes, aligned) \/ Fresh(bytes, aligned)

Cut(slop, bytes, aligned) ==
  /\ Give(alloc_ptr.block, alloc_ptr.at + slop, bytes, aligned)
  /\ alloc_ptr' = [alloc_ptr EXCEPT !.at = @ + slop + bytes]
  /\ alloc_bytes_remaining' = alloc_bytes_remaining - (slop + bytes)
  /\ UNCHANGED <<blocks, memory_usage>>

Allocate(bytes) ==
  IF bytes <= alloc_bytes_remaining THEN Cut(0, bytes, FALSE)
  ELSE AllocateFallback(bytes, FALSE)

(* The address is rounded up, whatever was cut before.                      *)
\* Mutant: it is not.
Slop_None == 0
Slop ==
  IF alloc_ptr.at % align = 0 THEN 0 ELSE align - (alloc_ptr.at % align)
AllocateAligned(bytes) ==
  IF bytes + Slop <= alloc_bytes_remaining THEN Cut(Slop, bytes, TRUE)
  ELSE AllocateFallback(bytes, TRUE)

Init ==
  /\ blocks = <<>> /\ alloc_ptr = [block |-> 0, at |-> 0]
  /\ alloc_bytes_remaining = 0 /\ memory_usage = 0 /\ pieces = <<>>

Next ==
  /\ Len(pieces) < MaxPieces
  /\ \E bytes \in Requests : Allocate(bytes) \/ AllocateAligned(bytes)

Spec == Init /\ [][Next]_arenaVars

-----------------------------------------------------------------------------
TypeOK ==
  /\ blocks \in Seq(Nat)
  /\ alloc_ptr \in [block : Nat, at : Nat]
  /\ alloc_bytes_remaining \in Nat /\ memory_usage \in Nat
  /\ pieces \in Seq([block : Nat, at : Nat, bytes : Nat, aligned : BOOLEAN])

Apartness(x, y) ==
  x.block = y.block => x.at + x.bytes <= y.at \/ y.at + y.bytes <= x.at

(* Every piece is inside of a block and apart from every other, so that no  *)
(* node of a memtable is written over, and what is used as a node begins at *)
(* an aligned address (Arena::Allocate, AllocateAligned).                   *)
PiecesAreApart ==
  \A i \in DOMAIN pieces :
    /\ pieces[i].block \in DOMAIN blocks
    /\ pieces[i].at + pieces[i].bytes <= blocks[pieces[i].block]
    /\ pieces[i].aligned => pieces[i].at % align = 0
    /\ \A j \in DOMAIN pieces : i # j => Apartness(pieces[i], pieces[j])
=============================================================================
