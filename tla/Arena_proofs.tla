---------------------------- MODULE Arena_proofs ----------------------------
(***************************************************************************)
(* The pieces an arena gives out are apart, for every block size, every    *)
(* alignment and all sequences of requests.                                *)
(***************************************************************************)
EXTENDS Arena, TLAPS

\* What is cut next lies behind everything in its block.
CurrentBlock ==
  /\ alloc_ptr.block = 0 => alloc_bytes_remaining = 0
  /\ alloc_ptr.block # 0 =>
       /\ alloc_ptr.block \in DOMAIN blocks
       /\ alloc_ptr.at + alloc_bytes_remaining <= blocks[alloc_ptr.block]
       /\ \A i \in DOMAIN pieces :
            pieces[i].block = alloc_ptr.block =>
              pieces[i].at + pieces[i].bytes <= alloc_ptr.at
  /\ \A i \in DOMAIN pieces : pieces[i].block \in DOMAIN blocks

IInv == ArenaAssumption /\ TypeOK /\ CurrentBlock /\ PiecesAreApart

APiece == [block : Nat, at : Nat, bytes : Nat, aligned : BOOLEAN]

-----------------------------------------------------------------------------
\* One more piece, behind all others of its block, is apart from them.
LEMMA PieceBehind ==
  ASSUME IInv, NEW x \in APiece, pieces' = Append(pieces, x),
         blocks' \in Seq(Nat),
         \A b \in DOMAIN blocks :
           b \in DOMAIN blocks' /\ blocks'[b] = blocks[b],
         x.block \in DOMAIN blocks', x.at + x.bytes <= blocks'[x.block],
         x.aligned => x.at % align = 0,
         \A i \in DOMAIN pieces : pieces[i].block = x.block =>
           pieces[i].at + pieces[i].bytes <= x.at
  PROVE  /\ pieces' \in Seq(APiece) /\ PiecesAreApart'
         /\ \A i \in DOMAIN pieces' : pieces'[i].block \in DOMAIN blocks'
<1>. DEFINE n == Len(pieces)
<1>1. pieces \in Seq(APiece) /\ blocks \in Seq(Nat)
  BY DEF IInv, TypeOK, APiece
<1>2. n \in Nat /\ DOMAIN pieces = 1..n
  BY <1>1
<1>3. /\ pieces' \in Seq(APiece) /\ DOMAIN pieces' = 1..n + 1
      /\ pieces'[n + 1] = x /\ \A i \in 1..n : pieces'[i] = pieces[i]
  BY <1>1
<1>4. \A i \in 1..n + 1 : i \in 1..n \/ i = n + 1
  BY <1>2
<1>5. \A i \in 1..n :
        /\ pieces'[i].block \in DOMAIN blocks'
        /\ pieces'[i].at + pieces'[i].bytes <= blocks'[pieces'[i].block]
        /\ pieces'[i].aligned => pieces'[i].at % align = 0
  BY <1>2, <1>3 DEF IInv, PiecesAreApart
<1>6. \A i, j \in 1..n : i # j => Apartness(pieces'[i], pieces'[j])
  BY <1>2, <1>3 DEF IInv, PiecesAreApart
<1>7. \A i \in 1..n : Apartness(pieces'[i], x) /\ Apartness(x, pieces'[i])
  BY <1>2, <1>3 DEF Apartness
<1>8. \A i, j \in 1..n + 1 : i # j => Apartness(pieces'[i], pieces'[j])
  <2>. TAKE i \in 1..n + 1, j \in 1..n + 1
  <2>. HAVE i # j
  <2>1. CASE i \in 1..n /\ j \in 1..n
    BY <2>1, <1>6
  <2>2. CASE i \in 1..n /\ j = n + 1
    BY <2>2, <1>7, <1>3
  <2>3. CASE i = n + 1 /\ j \in 1..n
    BY <2>3, <1>7, <1>3
  <2>. QED
    BY <2>1, <2>2, <2>3, <1>4
<1>9. PiecesAreApart'
  BY <1>3, <1>4, <1>5, <1>8 DEF PiecesAreApart
<1>. QED
  BY <1>3, <1>4, <1>5, <1>9

\* A new block is behind the others and has no piece yet.
LEMMA BlockIsNew ==
  ASSUME IInv, NEW bytes \in Nat, AllocateNewBlock(bytes)
  PROVE  /\ blocks' \in Seq(Nat) /\ memory_usage' \in Nat
         /\ Len(blocks) + 1 \in Nat \ {0}
         /\ Len(blocks) + 1 \in DOMAIN blocks'
         /\ blocks'[Len(blocks) + 1] = bytes
         /\ \A b \in DOMAIN blocks :
              b \in DOMAIN blocks' /\ blocks'[b] = blocks[b]
         /\ \A i \in DOMAIN pieces : pieces[i].block # Len(blocks) + 1
<1>1. blocks \in Seq(Nat) /\ memory_usage \in Nat /\ PointerSize \in Nat
  BY DEF IInv, ArenaAssumption, TypeOK
<1>2. /\ blocks' = Append(blocks, bytes)
      /\ memory_usage' = memory_usage + bytes + PointerSize
  BY DEF AllocateNewBlock
<1>3. \A i \in DOMAIN pieces : pieces[i].block \in DOMAIN blocks
  BY DEF IInv, CurrentBlock
<1>. QED
  BY <1>1, <1>2, <1>3

LEMMA ApartKeeps ==
  ASSUME IInv, NEW bytes \in Requests, NEW aligned \in BOOLEAN,
         Apart(bytes, aligned)
  PROVE  IInv'
<1>. DEFINE new == Len(blocks) + 1
            x == Piece(new, 0, bytes, aligned)
<1>1. bytes \in Nat
  BY DEF IInv, ArenaAssumption
<1>2. /\ pieces' = Append(pieces, x) /\ AllocateNewBlock(bytes)
      /\ UNCHANGED <<alloc_ptr, alloc_bytes_remaining>>
  BY DEF Apart, Give
<1>3. /\ blocks' \in Seq(Nat) /\ memory_usage' \in Nat /\ new \in Nat \ {0}
      /\ new \in DOMAIN blocks' /\ blocks'[new] = bytes
      /\ \A b \in DOMAIN blocks :
           b \in DOMAIN blocks' /\ blocks'[b] = blocks[b]
      /\ \A i \in DOMAIN pieces : pieces[i].block # new
  BY <1>1, <1>2, BlockIsNew
<1>. HIDE DEF new
<1>4. /\ x \in APiece /\ x.block = new /\ x.at = 0 /\ x.bytes = bytes
      /\ x.aligned = aligned
  BY <1>1, <1>3 DEF APiece, Piece
<1>. HIDE DEF x
<1>5. 0 % align = 0
  BY DEF IInv, ArenaAssumption
<1>6. /\ pieces' \in Seq(APiece) /\ PiecesAreApart'
      /\ \A i \in DOMAIN pieces' : pieces'[i].block \in DOMAIN blocks'
  BY <1>1, <1>2, <1>3, <1>4, <1>5, PieceBehind
<1>7. TypeOK'
  BY <1>2, <1>3, <1>6 DEF IInv, TypeOK, APiece
<1>8. CurrentBlock'
  <2>1. pieces \in Seq(APiece)
    BY DEF IInv, TypeOK, APiece
  <2>2. \A i \in DOMAIN pieces' :
          (i \in DOMAIN pieces /\ pieces'[i] = pieces[i]) \/ pieces'[i] = x
    BY <2>1, <1>2, <1>4
  <2>3. alloc_ptr.block # 0 => alloc_ptr.block # new
    <3>1. alloc_ptr.block # 0 => alloc_ptr.block \in DOMAIN blocks
      BY DEF IInv, CurrentBlock
    <3>2. new \notin DOMAIN blocks
      BY DEF new, IInv, TypeOK
    <3>. QED
      BY <3>1, <3>2
  <2>. QED
    BY <1>2, <1>3, <1>4, <1>6, <2>2, <2>3 DEF IInv, CurrentBlock
<1>. QED
  BY <1>6, <1>7, <1>8 DEF IInv, ArenaAssumption

LEMMA FreshKeeps ==
  ASSUME IInv, NEW bytes \in Requests, NEW aligned \in BOOLEAN,
         Fresh(bytes, aligned)
  PROVE  IInv'
<1>. DEFINE new == Len(blocks) + 1
            x == Piece(new, 0, bytes, aligned)
<1>1. bytes \in Nat /\ kBlockSize \in Nat /\ bytes <= kBlockSize
  <2>1. bytes \in Nat /\ kBlockSize \in Nat
    BY DEF IInv, ArenaAssumption
  <2>2. bytes <= kBlockSize \div 4
    BY DEF Fresh
  <2>3. kBlockSize \div 4 \in Nat /\ kBlockSize \div 4 <= kBlockSize
    BY <2>1
  <2>. QED
    BY <2>1, <2>2, <2>3
<1>2. /\ pieces' = Append(pieces, x) /\ AllocateNewBlock(kBlockSize)
      /\ alloc_ptr' = [block |-> new, at |-> bytes]
      /\ alloc_bytes_remaining' = kBlockSize - bytes
  BY DEF Fresh, Give
<1>3. /\ blocks' \in Seq(Nat) /\ memory_usage' \in Nat /\ new \in Nat \ {0}
      /\ new \in DOMAIN blocks' /\ blocks'[new] = kBlockSize
      /\ \A b \in DOMAIN blocks :
           b \in DOMAIN blocks' /\ blocks'[b] = blocks[b]
      /\ \A i \in DOMAIN pieces : pieces[i].block # new
  BY <1>1, <1>2, BlockIsNew
<1>. HIDE DEF new
<1>4. /\ x \in APiece /\ x.block = new /\ x.at = 0 /\ x.bytes = bytes
      /\ x.aligned = aligned
  BY <1>1, <1>3 DEF APiece, Piece
<1>. HIDE DEF x
<1>5. 0 % align = 0
  BY DEF IInv, ArenaAssumption
<1>6. /\ pieces' \in Seq(APiece) /\ PiecesAreApart'
      /\ \A i \in DOMAIN pieces' : pieces'[i].block \in DOMAIN blocks'
  BY <1>1, <1>2, <1>3, <1>4, <1>5, PieceBehind
<1>7. /\ alloc_ptr' \in [block : Nat, at : Nat]
      /\ alloc_bytes_remaining' \in Nat
      /\ alloc_ptr'.block = new /\ alloc_ptr'.at = bytes
      /\ alloc_ptr'.at + alloc_bytes_remaining' = kBlockSize
  BY <1>1, <1>2, <1>3
<1>8. TypeOK'
  BY <1>3, <1>6, <1>7 DEF TypeOK, APiece
<1>9. CurrentBlock'
  <2>1. pieces \in Seq(APiece)
    BY DEF IInv, TypeOK, APiece
  <2>2. \A i \in DOMAIN pieces' :
          (i \in DOMAIN pieces /\ pieces'[i] = pieces[i]) \/ pieces'[i] = x
    BY <2>1, <1>2, <1>4
  <2>3. \A i \in DOMAIN pieces' : pieces'[i].block = new =>
          pieces'[i].at + pieces'[i].bytes <= bytes
    BY <2>2, <1>1, <1>3, <1>4
  <2>4. alloc_ptr'.block # 0 /\ alloc_ptr'.block \in DOMAIN blocks'
    BY <1>3, <1>7
  <2>5. alloc_ptr'.at + alloc_bytes_remaining' <= blocks'[alloc_ptr'.block]
    <3>1. blocks'[alloc_ptr'.block] = kBlockSize
      BY <1>3, <1>7
    <3>2. alloc_ptr'.at + alloc_bytes_remaining' = kBlockSize
      BY <1>7
    <3>. QED
      BY <3>1, <3>2, <1>1
  <2>6. \A i \in DOMAIN pieces' : pieces'[i].block = alloc_ptr'.block =>
          pieces'[i].at + pieces'[i].bytes <= alloc_ptr'.at
    BY <1>7, <2>3
  <2>. QED
    BY <1>6, <2>4, <2>5, <2>6 DEF CurrentBlock
<1>. QED
  BY <1>6, <1>8, <1>9 DEF IInv, ArenaAssumption

LEMMA CutKeeps ==
  ASSUME IInv, NEW bytes \in Requests, NEW slop \in Nat,
         NEW aligned \in BOOLEAN, Cut(slop, bytes, aligned),
         slop + bytes <= alloc_bytes_remaining,
         aligned => (alloc_ptr.at + slop) % align = 0
  PROVE  IInv'
<1>. DEFINE x == Piece(alloc_ptr.block, alloc_ptr.at + slop, bytes, aligned)
<1>1. bytes \in Nat \ {0} /\ alloc_bytes_remaining \in Nat
  BY DEF IInv, ArenaAssumption, TypeOK
<1>2. alloc_ptr \in [block : Nat, at : Nat] /\ blocks \in Seq(Nat)
  BY DEF IInv, TypeOK
<1>3. /\ pieces' = Append(pieces, x)
      /\ alloc_ptr' = [alloc_ptr EXCEPT !.at = @ + slop + bytes]
      /\ alloc_bytes_remaining' = alloc_bytes_remaining - (slop + bytes)
      /\ UNCHANGED <<blocks, memory_usage>>
  BY DEF Cut, Give
<1>4. /\ x \in APiece /\ x.block = alloc_ptr.block
      /\ x.at = alloc_ptr.at + slop /\ x.bytes = bytes
      /\ x.aligned = aligned
  BY <1>1, <1>2 DEF APiece, Piece
<1>. HIDE DEF x
<1>5. /\ alloc_ptr.block \in DOMAIN blocks
      /\ alloc_ptr.at + alloc_bytes_remaining <= blocks[alloc_ptr.block]
      /\ \A i \in DOMAIN pieces : pieces[i].block = alloc_ptr.block =>
           pieces[i].at + pieces[i].bytes <= alloc_ptr.at
  BY <1>1 DEF IInv, CurrentBlock
<1>6. blocks[alloc_ptr.block] \in Nat
  BY <1>2, <1>5
<1>7. \A i \in DOMAIN pieces : pieces[i].at \in Nat /\ pieces[i].bytes \in Nat
  <2>1. pieces \in Seq(APiece)
    BY DEF IInv, TypeOK, APiece
  <2>2. \A i \in DOMAIN pieces : pieces[i] \in APiece
    BY <2>1
  <2>. QED
    BY <2>2 DEF APiece
<1>8. /\ pieces' \in Seq(APiece) /\ PiecesAreApart'
      /\ \A i \in DOMAIN pieces' : pieces'[i].block \in DOMAIN blocks'
  <2>1. x.at + x.bytes <= blocks'[x.block]
    BY <1>1, <1>2, <1>3, <1>4, <1>5, <1>6
  <2>2. \A i \in DOMAIN pieces : pieces[i].block = x.block =>
          pieces[i].at + pieces[i].bytes <= x.at
    BY <1>2, <1>4, <1>5, <1>7
  <2>3. blocks' \in Seq(Nat) /\ x.block \in DOMAIN blocks'
    BY <1>2, <1>3, <1>4, <1>5
  <2>. QED
    BY <1>2, <1>3, <1>4, <2>1, <2>2, <2>3, PieceBehind
<1>9. /\ alloc_ptr' \in [block : Nat, at : Nat]
      /\ alloc_ptr'.block = alloc_ptr.block
      /\ alloc_ptr'.at = alloc_ptr.at + slop + bytes
      /\ alloc_bytes_remaining' \in Nat
      /\ alloc_ptr'.at + alloc_bytes_remaining'
           = alloc_ptr.at + alloc_bytes_remaining
  <2>1. alloc_ptr.at + slop + bytes \in Nat
    BY <1>1, <1>2
  <2>2. /\ alloc_ptr' \in [block : Nat, at : Nat]
        /\ alloc_ptr'.block = alloc_ptr.block
        /\ alloc_ptr'.at = alloc_ptr.at + slop + bytes
    BY <2>1, <1>2, <1>3
  <2>3. alloc_bytes_remaining' \in Nat
    BY <1>1, <1>3
  <2>. QED
    BY <2>2, <2>3, <1>1, <1>2, <1>3
<1>10. TypeOK'
  BY <1>3, <1>8, <1>9 DEF IInv, TypeOK, APiece
<1>11. CurrentBlock'
  <2>1. pieces \in Seq(APiece)
    BY DEF IInv, TypeOK, APiece
  <2>2. \A i \in DOMAIN pieces' :
          (i \in DOMAIN pieces /\ pieces'[i] = pieces[i]) \/ pieces'[i] = x
    BY <2>1, <1>3, <1>4
  <2>3. \A i \in DOMAIN pieces' : pieces'[i].block = alloc_ptr.block =>
          pieces'[i].at + pieces'[i].bytes <= alloc_ptr'.at
    <3>. TAKE i \in DOMAIN pieces'
    <3>. HAVE pieces'[i].block = alloc_ptr.block
    <3>1. CASE i \in DOMAIN pieces /\ pieces'[i] = pieces[i]
      <4>1. pieces[i].at + pieces[i].bytes <= alloc_ptr.at
        BY <3>1, <1>5
      <4>2. pieces[i].at + pieces[i].bytes \in Nat
        BY <3>1, <1>7
      <4>3. /\ alloc_ptr.at \in Nat /\ alloc_ptr'.at \in Nat
            /\ alloc_ptr.at <= alloc_ptr'.at
        BY <1>1, <1>2, <1>9
      <4>4. pieces[i].at + pieces[i].bytes <= alloc_ptr'.at
        BY <4>1, <4>2, <4>3
      <4>. QED
        BY <4>4, <3>1
    <3>2. CASE pieces'[i] = x
      BY <3>2, <1>1, <1>2, <1>4, <1>9
    <3>. QED
      BY <2>2, <3>1, <3>2
  <2>4. alloc_ptr.block # 0
    BY <1>2, <1>5
  <2>. QED
    BY <1>3, <1>5, <1>8, <1>9, <2>3, <2>4 DEF CurrentBlock
<1>. QED
  BY <1>8, <1>10, <1>11 DEF IInv, ArenaAssumption

\* The rounded address is aligned.
LEMMA SlopAligns ==
  ASSUME IInv
  PROVE  Slop \in Nat /\ (alloc_ptr.at + Slop) % align = 0
<1>1. alloc_ptr.at \in Nat /\ align \in Nat \ {0}
  BY DEF IInv, ArenaAssumption, TypeOK
<1>. DEFINE a == alloc_ptr.at
            r == a % align
            q == a \div align
<1>2. a = q * align + r /\ r \in 0..align - 1 /\ q \in Int
  BY <1>1
<1>. HIDE DEF q, r
<1>3. (q + 1) * align = q * align + align
  BY <1>1, <1>2
<1>4. a + (align - r) = (q + 1) * align
  BY <1>1, <1>2, <1>3
<1>5. ((q + 1) * align) % align = 0
  BY <1>1, <1>2
<1>6. (a + (align - r)) % align = 0 /\ align - r \in Nat
  BY <1>1, <1>2, <1>4, <1>5
<1>7. Slop = IF r = 0 THEN 0 ELSE align - r
  BY DEF Slop, r
<1>8. CASE r = 0
  BY <1>1, <1>7, <1>8 DEF r
<1>9. CASE r # 0
  BY <1>6, <1>7, <1>9
<1>. QED
  BY <1>8, <1>9

-----------------------------------------------------------------------------
\* The inductive invariant: all pieces are inside and apart, and the current
\* block has room only behind them (Arena::Allocate, AllocateAligned).
THEOREM ArenaInvariant ==
  ASSUME ArenaAssumption
  PROVE  Spec => []IInv
<1>1. Init => IInv
  BY ArenaAssumption DEF Init, IInv, TypeOK, CurrentBlock, PiecesAreApart
<1>2. ASSUME IInv, [Next]_arenaVars
      PROVE  IInv'
  <2>1. ASSUME NEW bytes \in Requests, NEW aligned \in BOOLEAN,
               AllocateFallback(bytes, aligned)
        PROVE  IInv'
    BY <1>2, <2>1, ApartKeeps, FreshKeeps DEF AllocateFallback
  <2>2. ASSUME NEW bytes \in Requests, Allocate(bytes)
        PROVE  IInv'
    <3>1. CASE bytes <= alloc_bytes_remaining
      <4>1. Cut(0, bytes, FALSE) /\ bytes \in Nat
        BY <1>2, <2>2, <3>1 DEF Allocate, IInv, ArenaAssumption
      <4>2. 0 + bytes <= alloc_bytes_remaining
        BY <4>1, <3>1
      <4>. QED
        BY <1>2, <4>1, <4>2, CutKeeps
    <3>2. CASE ~(bytes <= alloc_bytes_remaining)
      BY <2>2, <3>2, <2>1 DEF Allocate
    <3>. QED
      BY <3>1, <3>2
  <2>3. ASSUME NEW bytes \in Requests, AllocateAligned(bytes)
        PROVE  IInv'
    <3>1. CASE bytes + Slop <= alloc_bytes_remaining
      <4>1. Cut(Slop, bytes, TRUE) /\ bytes \in Nat
        BY <1>2, <2>3, <3>1 DEF AllocateAligned, IInv, ArenaAssumption
      <4>2. Slop \in Nat /\ (alloc_ptr.at + Slop) % align = 0
        BY <1>2, SlopAligns
      <4>3. Slop + bytes <= alloc_bytes_remaining
        BY <4>1, <4>2, <3>1
      <4>. QED
        BY <1>2, <4>1, <4>2, <4>3, CutKeeps
    <3>2. CASE ~(bytes + Slop <= alloc_bytes_remaining)
      BY <2>3, <3>2, <2>1 DEF AllocateAligned
    <3>. QED
      BY <3>1, <3>2
  <2>4. CASE UNCHANGED arenaVars
    BY <1>2, <2>4
       DEF arenaVars, IInv, ArenaAssumption, TypeOK, CurrentBlock,
           PiecesAreApart
  <2>. QED
    BY <1>2, <2>2, <2>3, <2>4 DEF Next
<1>. QED
  BY <1>1, <1>2, PTL DEF Spec

\* No piece of memory is given out twice, and aligned ones are aligned.
THEOREM PiecesStayApart ==
  ASSUME ArenaAssumption
  PROVE  Spec => []PiecesAreApart
<1>1. IInv => PiecesAreApart
  BY DEF IInv
<1>. QED
  BY <1>1, ArenaInvariant, PTL
=============================================================================
