--------------------------- MODULE Checksum_proofs ---------------------------
(***************************************************************************)
(* Extend computes the checksum bit by bit, for all buffers, addresses and *)
(* checksums: the tables and the steps of four bytes rest on the register  *)
(* being linear.  And every checksum comes out of its mask again: the      *)
(* borrows of a subtraction are the carries of the addition.               *)
(***************************************************************************)
EXTENDS Checksum, SequenceFacts, TLAPS

-----------------------------------------------------------------------------
\* What words are made of.

LEMMA XorIn ==
  ASSUME NEW v, NEW w, NEW b
  PROVE  b \in Xor(v, w) <=> ((b \in v) # (b \in w))
  BY DEF Xor

LEMMA XorWord ==
  ASSUME NEW v \in Word, NEW w \in Word
  PROVE  Xor(v, w) \in Word
  BY DEF Xor, Word

LEMMA XorSwap ==
  ASSUME NEW u, NEW v, NEW w
  PROVE  /\ Xor(v, w) = Xor(w, v)
         /\ Xor(Xor(u, v), w) = Xor(u, Xor(v, w))
         /\ Xor(Xor(u, w), w) = u /\ Xor({}, w) = w
  BY DEF Xor

LEMMA ByteWord ==
  ASSUME NEW c \in Byte
  PROVE  c \in Word
<1>1. 0 .. 7 \subseteq 0 .. 31
  OBVIOUS
<1>. QED
  BY <1>1 DEF Byte, Word

LEMMA ShiftWord ==
  ASSUME NEW v, NEW n
  PROVE  ShiftRight(v, n) \in Word
  BY DEF ShiftRight, Word

-----------------------------------------------------------------------------
\* The register is linear.

LEMMA ShiftLinear ==
  ASSUME NEW v, NEW w, NEW n
  PROVE  ShiftRight(Xor(v, w), n) = Xor(ShiftRight(v, n), ShiftRight(w, n))
  BY DEF ShiftRight, Xor

LEMMA BitLinear ==
  ASSUME NEW v \in Word, NEW w \in Word
  PROVE  Bit(v) \in Word /\ Bit(Xor(v, w)) = Xor(Bit(v), Bit(w))
<1>. DEFINE P(u) == IF 0 \in u THEN Polynomial ELSE {}
<1>1. Polynomial \in Word
  BY DEF Polynomial, Word
<1>2. P(v) \in Word /\ Bit(v) = Xor(ShiftRight(v, 1), P(v))
  BY <1>1 DEF Bit, Word
<1>3. Bit(v) \in Word
  BY <1>2, XorWord, ShiftWord
<1>4. P(Xor(v, w)) = Xor(P(v), P(w))
  BY DEF Xor
<1>5. Bit(Xor(v, w)) = Xor(ShiftRight(Xor(v, w), 1), P(Xor(v, w)))
  BY DEF Bit
<1>6. Bit(w) = Xor(ShiftRight(w, 1), P(w))
  BY DEF Bit
<1>. HIDE DEF P
<1>7. Bit(Xor(v, w))
        = Xor(Xor(ShiftRight(v, 1), ShiftRight(w, 1)), Xor(P(v), P(w)))
  BY <1>4, <1>5, ShiftLinear
<1>8. \A a, b, c, d : Xor(Xor(a, b), Xor(c, d)) = Xor(Xor(a, c), Xor(b, d))
  BY DEF Xor
<1>. QED
  BY <1>2, <1>3, <1>6, <1>7, <1>8

LEMMA EightLinear ==
  ASSUME NEW v \in Word, NEW w \in Word
  PROVE  Eight(v) \in Word /\ Eight(Xor(v, w)) = Xor(Eight(v), Eight(w))
<1>. DEFINE v1 == Bit(v)  v2 == Bit(v1) v3 == Bit(v2) v4 == Bit(v3)
            v5 == Bit(v4) v6 == Bit(v5) v7 == Bit(v6) v8 == Bit(v7)
            w1 == Bit(w)  w2 == Bit(w1) w3 == Bit(w2) w4 == Bit(w3)
            w5 == Bit(w4) w6 == Bit(w5) w7 == Bit(w6) w8 == Bit(w7)
<1>0. Eight(v) = v8 /\ Eight(w) = w8
  BY DEF Eight
<1>00. Eight(Xor(v, w))
         = Bit(Bit(Bit(Bit(Bit(Bit(Bit(Bit(Xor(v, w)))))))))
  BY DEF Eight
<1>1. v1 \in Word /\ w1 \in Word /\ Bit(Xor(v, w)) = Xor(v1, w1)
  BY BitLinear
<1>. HIDE DEF v1, w1
<1>2. v2 \in Word /\ w2 \in Word /\ Bit(Xor(v1, w1)) = Xor(v2, w2)
  BY <1>1, BitLinear
<1>. HIDE DEF v2, w2
<1>3. v3 \in Word /\ w3 \in Word /\ Bit(Xor(v2, w2)) = Xor(v3, w3)
  BY <1>2, BitLinear
<1>. HIDE DEF v3, w3
<1>4. v4 \in Word /\ w4 \in Word /\ Bit(Xor(v3, w3)) = Xor(v4, w4)
  BY <1>3, BitLinear
<1>. HIDE DEF v4, w4
<1>5. v5 \in Word /\ w5 \in Word /\ Bit(Xor(v4, w4)) = Xor(v5, w5)
  BY <1>4, BitLinear
<1>. HIDE DEF v5, w5
<1>6. v6 \in Word /\ w6 \in Word /\ Bit(Xor(v5, w5)) = Xor(v6, w6)
  BY <1>5, BitLinear
<1>. HIDE DEF v6, w6
<1>7. v7 \in Word /\ w7 \in Word /\ Bit(Xor(v6, w6)) = Xor(v7, w7)
  BY <1>6, BitLinear
<1>. HIDE DEF v7, w7
<1>8. v8 \in Word /\ w8 \in Word /\ Bit(Xor(v7, w7)) = Xor(v8, w8)
  BY <1>7, BitLinear
<1>. HIDE DEF v8, w8
<1>9. Eight(Xor(v, w)) = Xor(v8, w8)
  BY <1>00, <1>1, <1>2, <1>3, <1>4, <1>5, <1>6, <1>7, <1>8
<1>. QED
  BY <1>0, <1>8, <1>9

\* Bits from 8 on only move.
LEMMA EightShifts ==
  ASSUME NEW h \in Word, \A b \in 0 .. 7 : b \notin h
  PROVE  Eight(h) = ShiftRight(h, 8)
<1>1. \A v : 0 \notin v => Bit(v) = ShiftRight(v, 1)
  BY DEF Bit, Xor
<1>2. \A n \in 0 .. 7 :
        ShiftRight(ShiftRight(h, n), 1) = ShiftRight(h, n + 1)
  <2>. TAKE n \in 0 .. 7
  <2>1. \A b \in 0 .. 31 :
          (b + 1 \in ShiftRight(h, n)) <=> (b + (n + 1) \in h)
    <3>. TAKE b \in 0 .. 31
    <3>1. (b + 1) + n = b + (n + 1) /\ b \in Int
      OBVIOUS
    <3>2. b + 1 \in 0 .. 31 \/ b = 31
      OBVIOUS
    <3>3. b = 31 => b + (n + 1) \notin 0 .. 31
      OBVIOUS
    <3>4. b = 31 => b + (n + 1) \notin h /\ b + 1 \notin 0 .. 31
      BY <3>3 DEF Word
    <3>. QED
      BY <3>1, <3>2, <3>4 DEF ShiftRight
  <2>. QED
    BY <2>1 DEF ShiftRight
<1>3. \A n \in 0 .. 7 : 0 \notin ShiftRight(h, n)
  BY DEF ShiftRight
<1>4. \A n \in 0 .. 7 : Bit(ShiftRight(h, n)) = ShiftRight(h, n + 1)
  BY <1>1, <1>2, <1>3
<1>5. h = ShiftRight(h, 0)
  <2>1. \A b \in 0 .. 31 : b + 0 = b
    OBVIOUS
  <2>2. \A b : b \in h => b \in 0 .. 31
    BY DEF Word
  <2>. QED
    BY <2>1, <2>2 DEF ShiftRight
<1>6. /\ Bit(h) = ShiftRight(h, 1)
      /\ Bit(ShiftRight(h, 1)) = ShiftRight(h, 2)
      /\ Bit(ShiftRight(h, 2)) = ShiftRight(h, 3)
      /\ Bit(ShiftRight(h, 3)) = ShiftRight(h, 4)
      /\ Bit(ShiftRight(h, 4)) = ShiftRight(h, 5)
      /\ Bit(ShiftRight(h, 5)) = ShiftRight(h, 6)
      /\ Bit(ShiftRight(h, 6)) = ShiftRight(h, 7)
      /\ Bit(ShiftRight(h, 7)) = ShiftRight(h, 8)
  <2>1. /\ 0 + 1 = 1 /\ 1 + 1 = 2 /\ 2 + 1 = 3 /\ 3 + 1 = 4
        /\ 4 + 1 = 5 /\ 5 + 1 = 6 /\ 6 + 1 = 7 /\ 7 + 1 = 8
        /\ 0 \in 0 .. 7 /\ 1 \in 0 .. 7 /\ 2 \in 0 .. 7 /\ 3 \in 0 .. 7
        /\ 4 \in 0 .. 7 /\ 5 \in 0 .. 7 /\ 6 \in 0 .. 7 /\ 7 \in 0 .. 7
    OBVIOUS
  <2>. QED
    BY <2>1, <1>4, <1>5
<1>. QED
  BY <1>6 DEF Eight

-----------------------------------------------------------------------------
\* Steps by the tables are the steps of the instructions.

LEMMA LowIsByte ==
  ASSUME NEW v
  PROVE  LowByte(v) \in Byte
  BY DEF LowByte, Byte

\* A word is its lowest byte and the rest, which Eight only moves.
LEMMA EightByTable ==
  ASSUME NEW v \in Word
  PROVE  Eight(v) = Xor(table0_[LowByte(v)], ShiftRight(v, 8))
<1>. DEFINE c == LowByte(v)
            h == v \ (0 .. 7)
<1>1. c \in Byte /\ c \in Word /\ h \in Word
  BY LowIsByte, ByteWord DEF Word
<1>2. v = Xor(c, h)
  BY DEF LowByte, Xor
<1>3. Eight(h) = ShiftRight(h, 8)
  BY <1>1, EightShifts
<1>4. ShiftRight(h, 8) = ShiftRight(v, 8)
  <2>1. \A b \in 0 .. 31 : b + 8 \notin 0 .. 7
    OBVIOUS
  <2>. QED
    BY <2>1 DEF ShiftRight
<1>5. table0_[c] = Eight(c)
  BY <1>1 DEF table0_
<1>. HIDE DEF c, h
<1>6. Eight(v) = Xor(Eight(c), Eight(h))
  BY <1>1, <1>2, EightLinear
<1>7. Eight(v) = Xor(table0_[c], ShiftRight(v, 8))
  BY <1>3, <1>4, <1>5, <1>6
<1>. QED
  BY <1>7 DEF c

\* One byte by the table is one byte by the instruction (STEP1).
THEOREM StepOneIsRight ==
  ASSUME NEW v \in Word, NEW byte \in Byte
  PROVE  STEP1(v, byte) = crc32_u8(v, byte)
<1>1. byte \in Word /\ Xor(v, byte) \in Word
  BY ByteWord, XorWord
<1>2. Xor(LowByte(v), byte) = LowByte(Xor(v, byte))
  BY DEF Xor, LowByte, Byte
<1>3. ShiftRight(Xor(v, byte), 8) = ShiftRight(v, 8)
  <2>1. \A b \in 0 .. 31 : b + 8 \notin 0 .. 7
    OBVIOUS
  <2>2. \A b \in 0 .. 31 : b + 8 \notin byte
    BY <2>1 DEF Byte
  <2>. QED
    BY <2>2 DEF ShiftRight, Xor
<1>4. Eight(Xor(v, byte))
        = Xor(table0_[LowByte(Xor(v, byte))], ShiftRight(Xor(v, byte), 8))
  BY <1>1, EightByTable
<1>. QED
  BY <1>2, <1>3, <1>4 DEF STEP1, crc32_u8

\* The bytes of a word: a byte moved up, and moved down again by Eight.
Up(c, n) == {i \in 0 .. 31 : i - n \in c}

LEMMA UpMoves ==
  ASSUME NEW c \in Byte
  PROVE  /\ \A n \in {0, 8, 16, 24} : Up(c, n) \in Word
         /\ Up(c, 0) = c
         /\ Eight(Up(c, 8)) = c
         /\ Eight(Up(c, 16)) = Up(c, 8)
         /\ Eight(Up(c, 24)) = Up(c, 16)
<1>1. \A n : Up(c, n) \in Word
  BY DEF Up, Word
<1>2. Up(c, 0) = c
  <2>1. \A b \in 0 .. 31 : b - 0 = b
    OBVIOUS
  <2>2. \A b : b \in c => b \in 0 .. 31
    BY ByteWord DEF Word
  <2>. QED
    BY <2>1, <2>2 DEF Up
<1>3. ASSUME NEW n \in {0, 8, 16}
      PROVE  Eight(Up(c, n + 8)) = Up(c, n)
  <2>1. \A b \in 0 .. 7 : b - (n + 8) \notin 0 .. 7
    OBVIOUS
  <2>2. \A b \in 0 .. 7 : b \notin Up(c, n + 8)
    BY <2>1 DEF Up, Byte
  <2>3. Eight(Up(c, n + 8)) = ShiftRight(Up(c, n + 8), 8)
    BY <1>1, <2>2, EightShifts
  <2>4. \A b \in 0 .. 31 : (b + 8) - (n + 8) = b - n
    OBVIOUS
  <2>5. \A b \in 0 .. 31 : b + 8 \in 0 .. 31 \/ b - n \notin 0 .. 7
    OBVIOUS
  <2>6. \A b \in 0 .. 31 : b + 8 \in 0 .. 31 \/ b - n \notin c
    BY <2>5 DEF Byte
  <2>7. ShiftRight(Up(c, n + 8), 8) = Up(c, n)
    BY <2>4, <2>6 DEF Up, ShiftRight
  <2>. QED
    BY <2>3, <2>7
<1>4. 0 + 8 = 8 /\ 8 + 8 = 16 /\ 16 + 8 = 24
  OBVIOUS
<1>5. Eight(Up(c, 8)) = Up(c, 0) /\ Eight(Up(c, 16)) = Up(c, 8)
        /\ Eight(Up(c, 24)) = Up(c, 16)
  BY <1>3, <1>4
<1>. QED
  BY <1>1, <1>2, <1>5

Sum4(a, b, c, d) == Xor(Xor(a, b), Xor(c, d))

LEMMA Sum4Linear ==
  ASSUME NEW a \in Word, NEW b \in Word, NEW c \in Word, NEW d \in Word
  PROVE  /\ Sum4(a, b, c, d) \in Word
         /\ Eight(Sum4(a, b, c, d))
              = Sum4(Eight(a), Eight(b), Eight(c), Eight(d))
<1>1. Xor(a, b) \in Word /\ Xor(c, d) \in Word
  BY XorWord
<1>2. Eight(Xor(Xor(a, b), Xor(c, d)))
        = Xor(Eight(Xor(a, b)), Eight(Xor(c, d)))
  BY <1>1, EightLinear
<1>. QED
  BY <1>1, <1>2, XorWord, EightLinear DEF Sum4

\* A word is the sum of its four bytes in their places.
LEMMA WordOfBytes ==
  ASSUME NEW v \in Word
  PROVE  v = Sum4(LowByte(v), Up(LowByte(ShiftRight(v, 8)), 8),
                  Up(LowByte(ShiftRight(v, 16)), 16),
                  Up(LowByte(ShiftRight(v, 24)), 24))
<1>1. \A i \in 0 .. 31, n \in {8, 16, 24} :
        i \in Up(LowByte(ShiftRight(v, n)), n)
          <=> (i \in v /\ i \in n .. n + 7)
  <2>. TAKE i \in 0 .. 31, n \in {8, 16, 24}
  <2>1. i - n \in 0 .. 7 <=> i \in n .. n + 7
    OBVIOUS
  <2>2. (i - n) + n = i /\ (i - n \in 0 .. 7 => i - n \in 0 .. 31)
    OBVIOUS
  <2>. QED
    BY <2>1, <2>2 DEF Up, LowByte, ShiftRight
<1>2. \A i \in 0 .. 31 :
        \/ i \in 0 .. 7 /\ i \notin 8 .. 15 /\ i \notin 16 .. 23
             /\ i \notin 24 .. 31
        \/ i \in 8 .. 15 /\ i \notin 0 .. 7 /\ i \notin 16 .. 23
             /\ i \notin 24 .. 31
        \/ i \in 16 .. 23 /\ i \notin 0 .. 7 /\ i \notin 8 .. 15
             /\ i \notin 24 .. 31
        \/ i \in 24 .. 31 /\ i \notin 0 .. 7 /\ i \notin 8 .. 15
             /\ i \notin 16 .. 23
  OBVIOUS
<1>. DEFINE a == LowByte(v)
            b == Up(LowByte(ShiftRight(v, 8)), 8)
            c == Up(LowByte(ShiftRight(v, 16)), 16)
            d == Up(LowByte(ShiftRight(v, 24)), 24)
<1>3. 8 + 7 = 15 /\ 16 + 7 = 23 /\ 24 + 7 = 31
  OBVIOUS
<1>4. \A i \in 0 .. 31 : /\ (i \in a <=> (i \in v /\ i \in 0 .. 7))
                         /\ (i \in b <=> (i \in v /\ i \in 8 .. 15))
                         /\ (i \in c <=> (i \in v /\ i \in 16 .. 23))
                         /\ (i \in d <=> (i \in v /\ i \in 24 .. 31))
  BY <1>1, <1>3 DEF LowByte
<1>5. a \subseteq 0 .. 31 /\ b \subseteq 0 .. 31 /\ c \subseteq 0 .. 31
        /\ d \subseteq 0 .. 31 /\ v \subseteq 0 .. 31
  BY DEF Up, Word, LowByte
<1>. HIDE DEF a, b, c, d
<1>6. \A i \in 0 .. 31 : i \in Sum4(a, b, c, d) <=> i \in v
  BY <1>2, <1>4 DEF Sum4, Xor
<1>7. Sum4(a, b, c, d) \subseteq 0 .. 31
  BY <1>5 DEF Sum4, Xor
<1>8. v = Sum4(a, b, c, d)
  BY <1>5, <1>6, <1>7
<1>. QED
  BY <1>8 DEF a, b, c, d

\* What is loaded is the sum of the bytes in their places (LE_LOAD32).
LEMMA LoadOfBytes ==
  ASSUME NEW b \in [1 .. 4 -> Byte]
  PROVE  LE_LOAD32(b) = Sum4(b[1], Up(b[2], 8), Up(b[3], 16), Up(b[4], 24))
<1>1. b[1] \in Byte /\ b[2] \in Byte /\ b[3] \in Byte /\ b[4] \in Byte
  OBVIOUS
<1>2. \A i \in 0 .. 31 :
        \/ i \in 0 .. 7 /\ i % 8 = i /\ i \div 8 + 1 = 1
             /\ i - 8 \notin 0 .. 7 /\ i - 16 \notin 0 .. 7
             /\ i - 24 \notin 0 .. 7
        \/ i - 8 \in 0 .. 7 /\ i % 8 = i - 8 /\ i \div 8 + 1 = 2
             /\ i \notin 0 .. 7 /\ i - 16 \notin 0 .. 7
             /\ i - 24 \notin 0 .. 7
        \/ i - 16 \in 0 .. 7 /\ i % 8 = i - 16 /\ i \div 8 + 1 = 3
             /\ i \notin 0 .. 7 /\ i - 8 \notin 0 .. 7
             /\ i - 24 \notin 0 .. 7
        \/ i - 24 \in 0 .. 7 /\ i % 8 = i - 24 /\ i \div 8 + 1 = 4
             /\ i \notin 0 .. 7 /\ i - 8 \notin 0 .. 7
             /\ i - 16 \notin 0 .. 7
  OBVIOUS
<1>3. \A c \in Byte : \A i : i \in c => i \in 0 .. 7
  BY DEF Byte
<1>. DEFINE B2 == Up(b[2], 8)  B3 == Up(b[3], 16)  B4 == Up(b[4], 24)
<1>4. \A i \in 0 .. 31 : /\ (i \in B2 <=> i - 8 \in b[2])
                         /\ (i \in B3 <=> i - 16 \in b[3])
                         /\ (i \in B4 <=> i - 24 \in b[4])
  BY DEF Up
<1>5. B2 \subseteq 0 .. 31 /\ B3 \subseteq 0 .. 31 /\ B4 \subseteq 0 .. 31
        /\ b[1] \subseteq 0 .. 31
  BY <1>1, ByteWord DEF Up, Word
<1>. HIDE DEF B2, B3, B4
<1>6. \A i \in 0 .. 31 :
        i % 8 \in b[i \div 8 + 1] <=> i \in Sum4(b[1], B2, B3, B4)
  <2>. TAKE i \in 0 .. 31
  <2>. DEFINE r == i % 8  q == i \div 8 + 1
  <2>1. i \in Sum4(b[1], B2, B3, B4)
          <=> (((i \in b[1]) # (i \in B2)) # ((i \in B3) # (i \in B4)))
    BY DEF Sum4, Xor
  <2>2. /\ (i \in B2 <=> i - 8 \in b[2]) /\ (i \in B3 <=> i - 16 \in b[3])
        /\ (i \in B4 <=> i - 24 \in b[4])
    BY <1>4
  <2>3. /\ i \notin 0 .. 7 => i \notin b[1]
        /\ i - 8 \notin 0 .. 7 => i - 8 \notin b[2]
        /\ i - 16 \notin 0 .. 7 => i - 16 \notin b[3]
        /\ i - 24 \notin 0 .. 7 => i - 24 \notin b[4]
    BY <1>1, <1>3
  <2>4. \/ i \in 0 .. 7 /\ r = i /\ q = 1
             /\ i - 8 \notin 0 .. 7 /\ i - 16 \notin 0 .. 7
             /\ i - 24 \notin 0 .. 7
        \/ i - 8 \in 0 .. 7 /\ r = i - 8 /\ q = 2
             /\ i \notin 0 .. 7 /\ i - 16 \notin 0 .. 7
             /\ i - 24 \notin 0 .. 7
        \/ i - 16 \in 0 .. 7 /\ r = i - 16 /\ q = 3
             /\ i \notin 0 .. 7 /\ i - 8 \notin 0 .. 7
             /\ i - 24 \notin 0 .. 7
        \/ i - 24 \in 0 .. 7 /\ r = i - 24 /\ q = 4
             /\ i \notin 0 .. 7 /\ i - 8 \notin 0 .. 7
             /\ i - 16 \notin 0 .. 7
    BY <1>2
  <2>. HIDE DEF r, q
  <2>5. r \in b[q] <=> i \in Sum4(b[1], B2, B3, B4)
    BY <2>1, <2>2, <2>3, <2>4
  <2>. QED
    BY <2>5 DEF r, q
<1>7. Sum4(b[1], B2, B3, B4) \subseteq 0 .. 31
  BY <1>5 DEF Sum4, Xor
<1>8. LE_LOAD32(b) = Sum4(b[1], B2, B3, B4)
  BY <1>6, <1>7 DEF LE_LOAD32
<1>. QED
  BY <1>8 DEF B2, B3, B4

\* Four bytes by the tables are four bytes by the instruction, one after the
\* other (STEP4).
THEOREM StepFourIsRight ==
  ASSUME NEW v \in Word, NEW b \in [1 .. 4 -> Byte]
  PROVE  STEP4(v, b) = crc32_u32(v, b)
<1>. DEFINE c == Xor(v, LE_LOAD32(b))
            b1 == b[1]  b2 == b[2]  b3 == b[3]  b4 == b[4]
            c0 == LowByte(c)                   c1 == LowByte(ShiftRight(c, 8))
            c2 == LowByte(ShiftRight(c, 16))   c3 == LowByte(ShiftRight(c, 24))
            v1 == Eight(Xor(v, b1))  v2 == Eight(Xor(v1, b2))
            v3 == Eight(Xor(v2, b3)) v4 == Eight(Xor(v3, b4))
<1>1. b1 \in Byte /\ b2 \in Byte /\ b3 \in Byte /\ b4 \in Byte
  OBVIOUS
<1>2. LE_LOAD32(b) = Sum4(b1, Up(b2, 8), Up(b3, 16), Up(b4, 24))
  BY LoadOfBytes
<1>3. crc32_u32(v, b) = v4
  BY DEF crc32_u32, crc32_u8
<1>4. STEP4(v, b) = Sum4(table3_[c0], table2_[c1], table1_[c2], table0_[c3])
  BY DEF STEP4, Sum4
<1>5. c0 \in Byte /\ c1 \in Byte /\ c2 \in Byte /\ c3 \in Byte
  BY LowIsByte
<1>6. /\ table3_[c0] = Eight(Eight(Eight(Eight(c0))))
      /\ table2_[c1] = Eight(Eight(Eight(c1)))
      /\ table1_[c2] = Eight(Eight(c2)) /\ table0_[c3] = Eight(c3)
  BY <1>5 DEF table0_, table1_, table2_, table3_
<1>7. c = Xor(v, Sum4(b1, Up(b2, 8), Up(b3, 16), Up(b4, 24)))
  BY <1>2
<1>8. /\ b1 \in Word /\ b2 \in Word /\ b3 \in Word /\ b4 \in Word
      /\ Up(b2, 8) \in Word /\ Up(b3, 16) \in Word /\ Up(b4, 24) \in Word
      /\ Up(b3, 8) \in Word /\ Up(b4, 8) \in Word /\ Up(b4, 16) \in Word
  BY <1>1, ByteWord, UpMoves
<1>9. c \in Word
  BY <1>7, <1>8, Sum4Linear, XorWord
<1>10. c = Sum4(c0, Up(c1, 8), Up(c2, 16), Up(c3, 24))
  BY <1>9, WordOfBytes
<1>. HIDE DEF c, c0, c1, c2, c3, b1, b2, b3, b4
\* The bytes move towards the place of the lowest, one after the other.
<1>11. v1 \in Word /\ v2 \in Word /\ v3 \in Word
  BY <1>8, XorWord, EightLinear
<1>12. \A u, x, y, z, w :
         Xor(u, Sum4(x, y, z, w)) = Xor(Xor(u, x), Xor(y, Xor(z, w)))
  BY DEF Sum4, Xor
<1>13. Eight(c) = Xor(v1, Xor(b2, Xor(Up(b3, 8), Up(b4, 16))))
  <2>1. c = Xor(Xor(v, b1), Xor(Up(b2, 8), Xor(Up(b3, 16), Up(b4, 24))))
    BY <1>7, <1>12
  <2>2. Xor(v, b1) \in Word /\ Xor(Up(b3, 16), Up(b4, 24)) \in Word
    BY <1>8, XorWord
  <2>3. Xor(Up(b2, 8), Xor(Up(b3, 16), Up(b4, 24))) \in Word
    BY <2>2, <1>8, XorWord
  <2>4. Eight(c)
          = Xor(v1, Eight(Xor(Up(b2, 8), Xor(Up(b3, 16), Up(b4, 24)))))
    BY <2>1, <2>2, <2>3, EightLinear
  <2>5. Eight(Xor(Up(b2, 8), Xor(Up(b3, 16), Up(b4, 24))))
          = Xor(Eight(Up(b2, 8)), Eight(Xor(Up(b3, 16), Up(b4, 24))))
    BY <2>2, <1>8, EightLinear
  <2>6. Eight(Xor(Up(b3, 16), Up(b4, 24)))
          = Xor(Eight(Up(b3, 16)), Eight(Up(b4, 24)))
    BY <1>8, EightLinear
  <2>7. /\ Eight(Up(b2, 8)) = b2 /\ Eight(Up(b3, 16)) = Up(b3, 8)
        /\ Eight(Up(b4, 24)) = Up(b4, 16)
    BY <1>1, UpMoves
  <2>. QED
    BY <2>4, <2>5, <2>6, <2>7
<1>14. Eight(Eight(c)) = Xor(v2, Xor(b3, Up(b4, 8)))
  <2>1. Eight(c) = Xor(Xor(v1, b2), Xor(Up(b3, 8), Up(b4, 16)))
    BY <1>13, XorSwap
  <2>2. Xor(v1, b2) \in Word /\ Xor(Up(b3, 8), Up(b4, 16)) \in Word
    BY <1>8, <1>11, XorWord
  <2>3. Eight(Eight(c)) = Xor(v2, Eight(Xor(Up(b3, 8), Up(b4, 16))))
    BY <2>1, <2>2, EightLinear
  <2>4. Eight(Xor(Up(b3, 8), Up(b4, 16)))
          = Xor(Eight(Up(b3, 8)), Eight(Up(b4, 16)))
    BY <1>8, EightLinear
  <2>5. Eight(Up(b3, 8)) = b3 /\ Eight(Up(b4, 16)) = Up(b4, 8)
    BY <1>1, UpMoves
  <2>. QED
    BY <2>3, <2>4, <2>5
<1>15. Eight(Eight(Eight(c))) = Xor(v3, b4)
  <2>1. Eight(Eight(c)) = Xor(Xor(v2, b3), Up(b4, 8))
    BY <1>14, XorSwap
  <2>2. Xor(v2, b3) \in Word
    BY <1>8, <1>11, XorWord
  <2>3. Eight(Eight(Eight(c))) = Xor(v3, Eight(Up(b4, 8)))
    BY <2>1, <2>2, <1>8, EightLinear
  <2>4. Eight(Up(b4, 8)) = b4
    BY <1>1, UpMoves
  <2>. QED
    BY <2>3, <2>4
<1>16. Eight(Eight(Eight(Eight(c)))) = v4
  BY <1>15
\* And so do the bytes of c, which the tables take.
<1>17. Sum4(Eight(Eight(Eight(Eight(c0)))), Eight(Eight(Eight(c1))),
            Eight(Eight(c2)), Eight(c3)) = Eight(Eight(Eight(Eight(c))))
  <2>1. /\ c0 \in Word /\ c1 \in Word /\ c2 \in Word /\ c3 \in Word
        /\ Up(c1, 8) \in Word /\ Up(c2, 16) \in Word /\ Up(c3, 24) \in Word
        /\ Up(c2, 8) \in Word /\ Up(c3, 8) \in Word /\ Up(c3, 16) \in Word
        /\ Eight(Up(c1, 8)) = c1 /\ Eight(Up(c2, 16)) = Up(c2, 8)
        /\ Eight(Up(c3, 24)) = Up(c3, 16) /\ Eight(Up(c2, 8)) = c2
        /\ Eight(Up(c3, 16)) = Up(c3, 8) /\ Eight(Up(c3, 8)) = c3
    BY <1>5, ByteWord, UpMoves
  <2>2. \A u \in Word : Eight(u) \in Word
    BY EightLinear
  <2>3. Eight(c) = Sum4(Eight(c0), c1, Up(c2, 8), Up(c3, 16))
    BY <2>1, <1>10, Sum4Linear
  <2>4. Eight(Eight(c)) = Sum4(Eight(Eight(c0)), Eight(c1), c2, Up(c3, 8))
    BY <2>1, <2>2, <2>3, Sum4Linear
  <2>5. Eight(Eight(Eight(c)))
          = Sum4(Eight(Eight(Eight(c0))), Eight(Eight(c1)), Eight(c2), c3)
    BY <2>1, <2>2, <2>4, Sum4Linear
  <2>. QED
    BY <2>1, <2>2, <2>5, Sum4Linear
<1>. QED
  BY <1>3, <1>4, <1>6, <1>16, <1>17

-----------------------------------------------------------------------------
\* A checksum comes out of its mask.

\* A carry comes out of a place that makes one, or passes one on.
LEMMA CarryOn ==
  ASSUME NEW v, NEW w, NEW i \in 0 .. 30
  PROVE  /\ 0 \notin CarryInto(v, w)
         /\ (i + 1 \in CarryInto(v, w)) <=>
              \/ i \in v /\ i \in w
              \/ (i \in v \/ i \in w) /\ i \in CarryInto(v, w)
<1>1. \A j \in 0 .. i - 1 : /\ (j + 1 .. (i + 1) - 1) = (j + 1 .. i - 1) \cup {i}
                            /\ j \in 0 .. (i + 1) - 1
  OBVIOUS
<1>2. \A j \in 0 .. (i + 1) - 1 : j = i \/ j \in 0 .. i - 1
  OBVIOUS
<1>3. i \in 0 .. (i + 1) - 1 /\ (i + 1 .. (i + 1) - 1) = {} /\ i + 1 \in 0 .. 31
        /\ i \in 0 .. 31
  OBVIOUS
<1>4. \A j : j \notin 0 .. 0 - 1
  OBVIOUS
<1>. QED
  BY <1>1, <1>2, <1>3, <1>4 DEF CarryInto

LEMMA BorrowOn ==
  ASSUME NEW v, NEW w, NEW i \in 0 .. 30
  PROVE  /\ 0 \notin BorrowFrom(v, w)
         /\ (i + 1 \in BorrowFrom(v, w)) <=>
              \/ i \in w /\ i \notin v
              \/ ~(i \in v /\ i \notin w) /\ i \in BorrowFrom(v, w)
<1>1. \A j \in 0 .. i - 1 : /\ (j + 1 .. (i + 1) - 1) = (j + 1 .. i - 1) \cup {i}
                            /\ j \in 0 .. (i + 1) - 1
  OBVIOUS
<1>2. \A j \in 0 .. (i + 1) - 1 : j = i \/ j \in 0 .. i - 1
  OBVIOUS
<1>3. i \in 0 .. (i + 1) - 1 /\ (i + 1 .. (i + 1) - 1) = {} /\ i + 1 \in 0 .. 31
        /\ i \in 0 .. 31
  OBVIOUS
<1>4. \A j : j \notin 0 .. 0 - 1
  OBVIOUS
<1>. QED
  BY <1>1, <1>2, <1>3, <1>4 DEF BorrowFrom

\* Taking back what was added borrows where the addition carried.
LEMMA MinusUndoesPlus ==
  ASSUME NEW v \in Word, NEW d \in Word
  PROVE  Plus(v, d) \in Word /\ Minus(Plus(v, d), d) = v
<1>. DEFINE s == Plus(v, d)
            C == CarryInto(v, d)
            B == BorrowFrom(s, d)
            T == {i \in 0 .. 31 : ~(i \in C <=> i \in B)}
<1>1. C \in Word /\ B \in Word
  BY DEF CarryInto, BorrowFrom, Word
<1>2. s \in Word
  BY <1>1, XorWord DEF Plus
<1>3. \A i : (i \in s) <=> (((i \in v) # (i \in d)) # (i \in C))
  BY DEF Plus, Xor
<1>4. \A i \in 0 .. 30 :
        (i + 1 \in C) <=> \/ i \in v /\ i \in d
                          \/ (i \in v \/ i \in d) /\ i \in C
  BY CarryOn
<1>5. \A i \in 0 .. 30 :
        (i + 1 \in B) <=> \/ i \in d /\ i \notin s
                          \/ ~(i \in s /\ i \notin d) /\ i \in B
  BY BorrowOn
<1>6. 0 \notin C /\ 0 \notin B
  <2>1. 0 \in 0 .. 30
    OBVIOUS
  <2>. QED
    BY <2>1, CarryOn, BorrowOn
<1>. HIDE DEF s, C, B
<1>7. T = {}
  <2>. SUFFICES ASSUME T # {}
                PROVE  FALSE
    OBVIOUS
  <2>1. T \in SUBSET Nat
    OBVIOUS
  <2>2. PICK n \in T : \A m \in T : n <= m
    BY <2>1, Least
  <2>3. n # 0 /\ n \in 0 .. 31
    BY <1>6
  <2>. DEFINE i == n - 1
  <2>4. i \in 0 .. 30 /\ i \in 0 .. 31 /\ i + 1 = n /\ ~(n <= i)
    BY <2>3
  <2>5. (i \in C) <=> (i \in B)
    BY <2>2, <2>4
  <2>6. ~((n \in C) <=> (n \in B))
    OBVIOUS
  <2>. HIDE DEF i, T
  <2>7. (i + 1 \in C) <=> (i + 1 \in B)
    BY <2>4, <2>5, <1>3, <1>4, <1>5
  <2>. QED
    BY <2>4, <2>6, <2>7
<1>8. B = C
  BY <1>1, <1>7 DEF Word
<1>9. \A x, y, z : Xor(Xor(Xor(Xor(x, y), z), y), z) = x
  BY DEF Xor
<1>10. s = Xor(Xor(v, d), C)
  BY DEF s, C, Plus
<1>11. Minus(s, d) = Xor(Xor(s, d), B)
  BY DEF B, Minus
<1>12. Minus(s, d) = v
  BY <1>8, <1>9, <1>10, <1>11
<1>. QED
  BY <1>2, <1>12 DEF s

LEMMA RotateBack ==
  ASSUME NEW w \in Word
  PROVE  /\ RotateRight(w, 15) \in Word
         /\ RotateRight(RotateRight(w, 15), 17) = w
<1>1. \A b \in 0 .. 31 : (b + 17) % 32 \in 0 .. 31
        /\ (((b + 17) % 32) + 15) % 32 = b
  OBVIOUS
<1>2. \A b : b \in w => b \in 0 .. 31
  BY DEF Word
<1>. QED
  BY <1>1, <1>2 DEF RotateRight, Word

\* Whatever the checksum is, unmasking undoes masking.
THEOREM UnmaskUndoesMask ==
  ASSUME NEW w \in Word
  PROVE  Unmask(Mask(w)) = w
<1>1. kMaskDelta \in Word
  BY DEF kMaskDelta, Hex, Word
<1>2. RotateRight(w, 15) \in Word
  BY RotateBack
<1>3. Minus(Mask(w), kMaskDelta) = RotateRight(w, 15)
  BY <1>1, <1>2, MinusUndoesPlus DEF Mask
<1>. QED
  BY <1>3, RotateBack DEF Unmask

-----------------------------------------------------------------------------
\* The inductive invariant: until the test is over nothing else has run.
Testing ==
  /\ accelerate = "unset" => crc = {} /\ pc \in {"idle", "testing"}
  /\ accelerate = "unset" /\ pc = "idle" => ref = Ones
  /\ pc = "testing" => accelerate = "unset"

IInv == ChecksumAssumption /\ TypeOK /\ ChecksumIsOfAllBytes /\ Testing

LEMMA InstructionWord ==
  ASSUME NEW v \in Word, NEW byte \in Byte
  PROVE  crc32_u8(v, byte) \in Word
  BY ByteWord, XorWord, EightLinear DEF crc32_u8

LEMMA InstructionsWord ==
  ASSUME NEW v \in Word, NEW b \in Seq(Byte)
  PROVE  /\ Len(b) >= 4 => crc32_u32(v, b) \in Word
         /\ Len(b) >= 8 => crc32_u64(v, b) \in Word
<1>1. ASSUME NEW u \in Word, NEW c \in Seq(Byte), Len(c) >= 4
      PROVE  crc32_u32(u, c) \in Word
  <2>1. c[1] \in Byte /\ c[2] \in Byte /\ c[3] \in Byte /\ c[4] \in Byte
    BY <1>1
  <2>. QED
    BY <2>1, InstructionWord DEF crc32_u32
<1>2. ASSUME Len(b) >= 8
      PROVE  crc32_u64(v, b) \in Word
  <2>1. SubSeq(b, 5, 8) \in Seq(Byte) /\ Len(SubSeq(b, 5, 8)) = 4
    BY <1>2
  <2>2. Len(b) \in Nat /\ Len(b) >= 4 /\ 4 >= 4
    BY <1>2
  <2>3. crc32_u32(v, b) \in Word
    BY <1>1, <2>2
  <2>4. crc32_u32(crc32_u32(v, b), SubSeq(b, 5, 8)) \in Word
    BY <1>1, <2>1, <2>2, <2>3
  <2>. QED
    BY <2>4 DEF crc32_u64
<1>. QED
  BY <1>1, <1>2

\* What is ahead of the pointer is there.
LEMMA AheadIs ==
  ASSUME IInv, NEW n \in 1 .. 8, Left >= n
  PROVE  /\ Ahead(n) \in Seq(Byte) /\ Len(Ahead(n)) = n
         /\ p + n \in Nat /\ p + n <= Len(call.bytes)
         /\ Ahead(n)[1] \in Byte
<1>1. call.bytes \in Seq(Byte) /\ p \in Nat
  BY DEF IInv, TypeOK
<1>2. Len(call.bytes) \in Nat /\ p + n <= Len(call.bytes)
  BY <1>1 DEF Left
<1>3. Ahead(n) \in Seq(Byte) /\ Len(Ahead(n)) = n
  BY <1>1, <1>2 DEF Ahead
<1>. QED
  BY <1>1, <1>2, <1>3

\* A turn that takes what is there, by the right step, keeps the invariant.
LEMMA TakeKeeps ==
  ASSUME IInv, NEW n \in {1, 4, 8}, NEW step, pc # "idle", Left >= n,
         Take(n, step),
         n = 1 => step = crc32_u8(l, Ahead(1)[1]),
         n = 4 => step = crc32_u32(l, Ahead(4)),
         n = 8 => step = crc32_u64(l, Ahead(8))
  PROVE  IInv'
<1>1. l = ref /\ ref \in Word
  BY DEF IInv, TypeOK, ChecksumIsOfAllBytes
<1>2. /\ Ahead(n) \in Seq(Byte) /\ Len(Ahead(n)) = n
      /\ p + n \in Nat /\ p + n <= Len(call.bytes) /\ Ahead(n)[1] \in Byte
  <2>1. n \in 1 .. 8
    OBVIOUS
  <2>. QED
    BY <2>1, AheadIs
<1>3. /\ p' = p + n /\ l' = step
      /\ UNCHANGED <<sse, accelerate, pc, call, crc>>
  BY DEF Take
<1>4. ref' = step /\ step \in Word
  <2>1. CASE n = 1
    <3>1. ref' = crc32_u8(ref, Ahead(1)[1])
      BY <2>1 DEF Take
    <3>2. crc32_u8(ref, Ahead(1)[1]) \in Word
      BY <1>1, <1>2, <2>1, InstructionWord
    <3>. QED
      BY <3>1, <3>2, <2>1, <1>1
  <2>2. CASE n = 4
    <3>1. ref' = crc32_u32(ref, Ahead(4))
      BY <2>2 DEF Take
    <3>2. crc32_u32(ref, Ahead(4)) \in Word
      <4>1. 4 \in 1 .. 8 /\ Left >= 4
        BY <2>2
      <4>2. Ahead(4) \in Seq(Byte) /\ Len(Ahead(4)) = 4
        BY <4>1, AheadIs
      <4>3. ASSUME NEW b \in Seq(Byte), Len(b) = 4
            PROVE  crc32_u32(ref, b) \in Word
        <5>1. Len(b) >= 4
          BY <4>3
        <5>. QED
          BY <5>1, <1>1, InstructionsWord
      <4>. QED
        BY <4>2, <4>3
    <3>. QED
      BY <3>1, <3>2, <2>2, <1>1
  <2>3. CASE n = 8
    <3>1. ref' = crc32_u64(ref, Ahead(8))
      BY <2>3 DEF Take
    <3>2. crc32_u64(ref, Ahead(8)) \in Word
      <4>1. 8 \in 1 .. 8 /\ Left >= 8
        BY <2>3
      <4>2. Ahead(8) \in Seq(Byte) /\ Len(Ahead(8)) = 8
        BY <4>1, AheadIs
      <4>3. ASSUME NEW b \in Seq(Byte), Len(b) = 8
            PROVE  crc32_u64(ref, b) \in Word
        <5>1. Len(b) >= 8
          BY <4>3
        <5>. QED
          BY <5>1, <1>1, InstructionsWord
      <4>. QED
        BY <4>2, <4>3
    <3>. QED
      BY <3>1, <3>2, <2>3, <1>1
  <2>. QED
    BY <2>1, <2>2, <2>3
<1>5. TypeOK'
  BY <1>2, <1>3, <1>4 DEF IInv, TypeOK
<1>6. ChecksumIsOfAllBytes'
  BY <1>2, <1>3, <1>4 DEF ChecksumIsOfAllBytes
<1>7. Testing'
  BY <1>3 DEF IInv, Testing
<1>. QED
  BY <1>5, <1>6, <1>7 DEF IInv, ChecksumAssumption

LEMMA ByOneKeeps ==
  ASSUME IInv, ByOne
  PROVE  IInv'
<1>1. pc # "idle" /\ Left >= 1 /\ Take(1, STEP1(l, Ahead(1)[1]))
  <2>1. Left \in Int /\ Left > 0
    BY DEF ByOne, IInv, TypeOK, Left
  <2>. QED
    BY <2>1 DEF ByOne
<1>2. Ahead(1)[1] \in Byte /\ l \in Word
  BY <1>1, AheadIs DEF IInv, TypeOK
<1>3. STEP1(l, Ahead(1)[1]) = crc32_u8(l, Ahead(1)[1])
  BY <1>2, StepOneIsRight
<1>. QED
  BY <1>1, <1>3, TakeKeeps

LEMMA ByFourKeeps ==
  ASSUME IInv, ByFour
  PROVE  IInv'
<1>1. pc # "idle" /\ Left >= 4 /\ Take(4, STEP4(l, Ahead(4)))
  BY DEF ByFour, EnoughForFour
<1>2. Ahead(4) \in Seq(Byte) /\ Len(Ahead(4)) = 4 /\ l \in Word
  BY <1>1, AheadIs DEF IInv, TypeOK
<1>3. Ahead(4) \in [1 .. 4 -> Byte]
  BY <1>2, LenProperties
<1>4. STEP4(l, Ahead(4)) = crc32_u32(l, Ahead(4))
  BY <1>2, <1>3, StepFourIsRight
<1>. QED
  BY <1>1, <1>4, TakeKeeps

LEMMA InstructionsKeep ==
  ASSUME IInv, InstructionByOne \/ InstructionByFour \/ InstructionByEight
  PROVE  IInv'
<1>1. Left \in Int /\ (Accelerated => pc # "idle")
  BY DEF IInv, TypeOK, Left, Accelerated
<1>2. CASE InstructionByOne
  <2>1. pc # "idle" /\ Left >= 1 /\ Take(1, crc32_u8(l, Ahead(1)[1]))
    BY <1>1, <1>2 DEF InstructionByOne
  <2>. QED
    BY <2>1, TakeKeeps
<1>3. CASE InstructionByFour
  <2>1. pc # "idle" /\ Left >= 4 /\ Take(4, crc32_u32(l, Ahead(4)))
    BY <1>1, <1>3 DEF InstructionByFour
  <2>. QED
    BY <2>1, TakeKeeps
<1>4. CASE InstructionByEight
  <2>1. pc # "idle" /\ Left >= 8 /\ Take(8, crc32_u64(l, Ahead(8)))
    BY <1>1, <1>4 DEF InstructionByEight
  <2>. QED
    BY <2>1, TakeKeeps
<1>. QED
  BY <1>2, <1>3, <1>4

LEMMA OnesWord == Ones \in Word /\ {} \in Word
  BY DEF Ones, Word

LEMMA TestKeeps ==
  ASSUME IInv, Test
  PROVE  IInv'
<1>1. /\ pc = "idle" /\ accelerate = "unset"
      /\ UNCHANGED <<sse, crc, ref>>
  BY DEF Test
<1>2. crc = {} /\ ref = Ones
  BY <1>1 DEF IInv, Testing
<1>3. CASE sse
  <2>1. /\ pc' = "testing" /\ p' = 0 /\ l' = Xor({}, Ones)
        /\ call' = [bytes |-> kTestCRCBuffer, at |-> 0, nth |-> 0]
        /\ UNCHANGED accelerate
    BY <1>3 DEF Test
  <2>2. l' = Ones
    BY <2>1, XorSwap
  <2>3. kTestCRCBuffer \in Seq(Byte)
    <3>. DEFINE text ==
           <<84, 101, 115, 116, 67, 82, 67, 66, 117, 102, 102, 101, 114>>
    <3>1. kTestCRCBuffer = [i \in 1 .. 13 |-> ByteOf(text[i])]
      BY DEF kTestCRCBuffer
    <3>2. \A m : ByteOf(m) \in Byte
      BY DEF ByteOf, Byte
    <3>. HIDE DEF text
    <3>. QED
      BY <3>1, <3>2, MapIsSeq
  <2>4. call' \in [bytes : Seq(Byte), at : 0 .. 7, nth : 0 .. MaxCalls]
    BY <2>1, <2>3 DEF IInv, ChecksumAssumption
  <2>5. Len(call'.bytes) \in Nat
    BY <2>4
  <2>6. TypeOK'
    BY <1>1, <2>1, <2>2, <2>4, OnesWord DEF IInv, TypeOK
  <2>7. ChecksumIsOfAllBytes'
    BY <1>1, <1>2, <2>1, <2>2, <2>5 DEF ChecksumIsOfAllBytes
  <2>8. Testing'
    BY <1>1, <1>2, <2>1 DEF Testing
  <2>. QED
    BY <2>6, <2>7, <2>8 DEF IInv, ChecksumAssumption
<1>4. CASE ~sse
  <2>1. /\ accelerate' = (IF {} = kTestCRCValue THEN "yes" ELSE "no")
        /\ UNCHANGED <<pc, p, l, call>>
    BY <1>4 DEF Test
  <2>2. accelerate' \in {"yes", "no"}
    BY <2>1
  <2>. HIDE <2>1
  <2>3. UNCHANGED <<pc, p, l, call>>
    BY <2>1
  <2>. QED
    BY <1>1, <1>2, <2>2, <2>3
       DEF IInv, ChecksumAssumption, TypeOK, ChecksumIsOfAllBytes, Testing
<1>. QED
  BY <1>3, <1>4

LEMMA TestedKeeps ==
  ASSUME IInv, Tested
  PROVE  IInv'
<1>1. /\ pc = "testing" /\ Left = 0 /\ pc' = "idle" /\ ref' = Ones
      /\ UNCHANGED <<sse, call, p, l, crc>>
  BY DEF Tested
<1>2. accelerate' \in {"yes", "no"}
  BY DEF Tested
<1>3. crc = {}
  BY <1>1 DEF IInv, Testing
<1>4. p = Len(call.bytes)
  BY <1>1 DEF IInv, TypeOK, Left
<1>5. Xor(Ones, Ones) = {}
  BY DEF Xor
<1>6. TypeOK'
  BY <1>1, <1>2, OnesWord DEF IInv, TypeOK
<1>7. ChecksumIsOfAllBytes'
  BY <1>1, <1>3, <1>4, <1>5 DEF IInv, ChecksumIsOfAllBytes
<1>8. Testing'
  BY <1>1, <1>2 DEF Testing
<1>. QED
  BY <1>6, <1>7, <1>8 DEF IInv, ChecksumAssumption

LEMMA ExtendKeeps ==
  ASSUME IInv, NEW bytes \in Chunks, NEW at \in 0 .. 7, Extend(bytes, at)
  PROVE  IInv'
<1>1. /\ pc = "idle" /\ accelerate # "unset" /\ call.nth < MaxCalls
      /\ call' = [bytes |-> bytes, at |-> at, nth |-> call.nth + 1]
      /\ p' = 0 /\ l' = Xor(crc, Ones)
      /\ UNCHANGED <<sse, accelerate, crc, ref>>
  BY DEF Extend
<1>2. pc' \in {"accelerated", "portable"}
  BY DEF Extend
<1>3. call.nth \in 0 .. MaxCalls /\ MaxCalls \in Nat
  BY DEF IInv, TypeOK, ChecksumAssumption
<1>4. call.nth + 1 \in 0 .. MaxCalls
  BY <1>1, <1>3
<1>5. bytes \in Seq(Byte)
  BY DEF IInv, ChecksumAssumption
<1>6. call' \in [bytes : Seq(Byte), at : 0 .. 7, nth : 0 .. MaxCalls]
  BY <1>1, <1>4, <1>5
<1>7. Len(call'.bytes) \in Nat
  BY <1>6
<1>8. l' = ref
  BY <1>1, XorSwap DEF IInv, ChecksumIsOfAllBytes
<1>9. TypeOK'
  BY <1>1, <1>2, <1>6, <1>8 DEF IInv, TypeOK
<1>10. ChecksumIsOfAllBytes'
  BY <1>1, <1>2, <1>7, <1>8 DEF ChecksumIsOfAllBytes
<1>11. Testing'
  BY <1>1, <1>2 DEF Testing
<1>. QED
  BY <1>9, <1>10, <1>11 DEF IInv, ChecksumAssumption

LEMMA ReturnKeeps ==
  ASSUME IInv, Return
  PROVE  IInv'
<1>1. /\ pc \in {"portable", "accelerated"} /\ Left = 0
      /\ crc' = Xor(l, Ones) /\ pc' = "idle"
      /\ UNCHANGED <<sse, accelerate, call, p, l, ref>>
  BY DEF Return
<1>2. l = ref /\ accelerate # "unset"
  BY <1>1 DEF IInv, ChecksumIsOfAllBytes, Testing
<1>3. p = Len(call.bytes)
  BY <1>1 DEF IInv, TypeOK, Left
<1>4. crc' \in Word
  BY <1>1, OnesWord, XorWord DEF IInv, TypeOK
<1>5. TypeOK'
  BY <1>1, <1>4 DEF IInv, TypeOK
<1>6. ChecksumIsOfAllBytes'
  BY <1>1, <1>2, <1>3 DEF IInv, ChecksumIsOfAllBytes
<1>7. Testing'
  BY <1>1, <1>2 DEF Testing
<1>. QED
  BY <1>5, <1>6, <1>7 DEF IInv, ChecksumAssumption

\* Extend goes through all of a buffer and nothing else, and computes what is
\* computed bit by bit, for all buffers, addresses and builds.
THEOREM ChecksumInvariant ==
  ASSUME ChecksumAssumption
  PROVE  Spec => []IInv
<1>1. Init => IInv
  <2>. SUFFICES ASSUME Init
                PROVE  IInv
    OBVIOUS
  <2>1. <<>> \in Seq(Byte) /\ Len(<<>>) = 0
    OBVIOUS
  <2>2. call \in [bytes : Seq(Byte), at : 0 .. 7, nth : 0 .. MaxCalls]
    BY <2>1, ChecksumAssumption DEF Init, ChecksumAssumption
  <2>3. TypeOK
    BY <2>2, OnesWord DEF Init, TypeOK
  <2>4. Xor(Ones, Ones) = {}
    BY DEF Xor
  <2>5. ChecksumIsOfAllBytes /\ Testing
    BY <2>1, <2>4 DEF Init, ChecksumIsOfAllBytes, Testing
  <2>. QED
    BY <2>3, <2>5, ChecksumAssumption DEF IInv
<1>2. ASSUME IInv, [Next]_sumVars
      PROVE  IInv'
  <2>1. CASE UNCHANGED sumVars
    BY <1>2, <2>1 DEF sumVars, IInv, ChecksumAssumption, TypeOK,
                      ChecksumIsOfAllBytes, Testing
  <2>2. CASE Next
    BY <1>2, <2>2, ByOneKeeps, ByFourKeeps, InstructionsKeep, TestKeeps,
       TestedKeeps, ReturnKeeps, ExtendKeeps DEF Next
  <2>. QED
    BY <1>2, <2>1, <2>2
<1>. QED
  BY <1>1, <1>2, PTL DEF Spec

\* The checksum is that of all the bytes, and comes out of its mask.
THEOREM ChecksumsAreRight ==
  ASSUME ChecksumAssumption
  PROVE  Spec => [](ChecksumIsOfAllBytes /\ MaskComesOff)
<1>1. IInv => ChecksumIsOfAllBytes /\ MaskComesOff
  BY UnmaskUndoesMask DEF IInv, TypeOK, MaskComesOff
<1>. QED
  BY <1>1, ChecksumInvariant, PTL
=============================================================================
