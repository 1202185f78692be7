------------------------------ MODULE Checksum ------------------------------
(***************************************************************************)
(* The checksum of log records and table blocks (util/crc32c.cc, with      *)
(* port/port_posix_sse.cc for processors that compute it): Extend goes     *)
(* through a buffer four or eight bytes at a time between the bytes        *)
(* before and behind them, one action for each turn of its loops, and Mask *)
(* hides a checksum among others.                                          *)
(*                                                                         *)
(* A byte is the set of its bits that are one, 0 to 7, a word one of 0 to  *)
(* 31; the values of the numbers are as large as in the code.              *)
(***************************************************************************)
EXTENDS Integers, Sequences

CONSTANTS
  Chunks,          \* the buffers given to Extend
  MaxCalls         \* bound: how many

Byte == SUBSET (0 .. 7)
Word == SUBSET (0 .. 31)

(* What the constants are in the code. *)
ChecksumAssumption ==
  MaxCalls \in Nat /\ \A bytes \in Chunks : bytes \in Seq(Byte)

VARIABLES
  sse,             \* the program and the processor have the instructions
  accelerate,      \* Extend's static variable: "unset", "yes", "no"
  pc,              \* "idle", or which loops run: "testing" is
                   \*   AcceleratedCRC32C as CanAccelerateCRC32C calls it
  call,            \* the buffer: [bytes, at, nth], its address and call
  p, l,            \* the bytes gone through, and the checksum's register
  crc,             \* what the last call returned, for the next to extend
  ref              \* history: the register, taken bit by bit over all bytes

sumVars == <<sse, accelerate, pc, call, p, l, crc, ref>>

Xor(v, w) == (v \ w) \cup (w \ v)
LowByte(w) == w \cap 0 .. 7
ShiftRight(w, n) == {b \in 0 .. 31 : b + n \in w}

(* Unsigned addition and subtraction: a carry comes from the last place     *)
(* below that makes one, if all between pass it on.                         *)
CarryInto(v, w) ==
  {i \in 0 .. 31 : \E j \in 0 .. i - 1 :
     j \in v \cap w /\ j + 1 .. i - 1 \subseteq v \cup w}
BorrowFrom(v, w) ==
  {i \in 0 .. 31 : \E j \in 0 .. i - 1 :
     j \in w \ v /\ (j + 1 .. i - 1) \cap (v \ w) = {}}
Plus(v, w) == Xor(Xor(v, w), CarryInto(v, w))
Minus(v, w) == Xor(Xor(v, w), BorrowFrom(v, w))

Hex(digits) ==   \* the word of eight hexadecimal digits
  {b \in 0 .. 31 : (digits[8 - b \div 4] \div 2 ^ (b % 4)) % 2 = 1}
ByteOf(n) == {b \in 0 .. 7 : (n \div 2 ^ b) % 2 = 1}

-----------------------------------------------------------------------------
(* The polynomial 0x82f63b78: one bit, and one byte, of the checksum.       *)
Polynomial == {31, 25, 23, 22, 21, 20, 18, 17, 13, 12, 11, 9, 8, 6, 5, 4, 3}
Bit(v) == Xor(ShiftRight(v, 1), IF 0 \in v THEN Polynomial ELSE {})
Eight(v) == Bit(Bit(Bit(Bit(Bit(Bit(Bit(Bit(v))))))))

(* The tables are written out in the code: these are their 1024 numbers.    *)
table0_ == [c \in Byte |-> Eight(c)]
table1_ == [c \in Byte |-> Eight(Eight(c))]
table2_ == [c \in Byte |-> Eight(Eight(Eight(c)))]
table3_ == [c \in Byte |-> Eight(Eight(Eight(Eight(c))))]

LE_LOAD32(b) == {i \in 0 .. 31 : i % 8 \in b[i \div 8 + 1]}

\* Mutant: the table of the wrong byte.
STEP1_High(v, byte) ==
  Xor(table0_[Xor(LowByte(ShiftRight(v, 24)), byte)], ShiftRight(v, 8))
STEP1(v, byte) ==
  Xor(table0_[Xor(LowByte(v), byte)], ShiftRight(v, 8))
STEP4(v, b) ==
  LET c == Xor(v, LE_LOAD32(b))
  IN Xor(Xor(table3_[LowByte(c)], table2_[LowByte(ShiftRight(c, 8))]),
         Xor(table1_[LowByte(ShiftRight(c, 16))],
             table0_[LowByte(ShiftRight(c, 24))]))

Ones == 0 .. 31

-----------------------------------------------------------------------------
(* The instructions _mm_crc32_u8, u32 and u64, which is what a checksum is: *)
(* byte after byte, each from its lowest bit on.                            *)
crc32_u8(v, byte) == Eight(Xor(v, byte))
crc32_u32(v, b) ==
  crc32_u8(crc32_u8(crc32_u8(crc32_u8(v, b[1]), b[2]), b[3]), b[4])
crc32_u64(v, b) == crc32_u32(crc32_u32(v, b), SubSeq(b, 5, 8))

Left == Len(call.bytes) - p
Ahead(n) == SubSeq(call.bytes, p + 1, p + n)

(* One turn takes n bytes; step is its new register.                        *)
Take(n, step) ==
  /\ p' = p + n /\ l' = step
  /\ ref' = CASE n = 1 -> crc32_u8(ref, Ahead(1)[1])
              [] n = 4 -> crc32_u32(ref, Ahead(4))
              [] n = 8 -> crc32_u64(ref, Ahead(8))
  /\ UNCHANGED <<sse, accelerate, pc, call, crc>>

(* Extend: up to the first aligned byte, unless it is behind the end; by    *)
(* fours; and what is left.                                                 *)
Lead ==
  IF (-call.at) % 4 <= Len(call.bytes) THEN (-call.at) % 4 ELSE 0
EnoughForFour == Left >= 4
ByOne ==
  /\ pc = "portable" /\ Left > 0 /\ (p < Lead \/ ~EnoughForFour)
  /\ Take(1, STEP1(l, Ahead(1)[1]))
ByFour ==
  /\ pc = "portable" /\ p >= Lead /\ EnoughForFour
  /\ Take(4, STEP4(l, Ahead(4)))

(* AcceleratedCRC32C.  The bytes before the eights are as many as the       *)
(* address is behind an aligned one, not before it.                         *)
Accelerated == pc \in {"accelerated", "testing"}
Long == Len(call.bytes) > 16
Unaligned == call.at % 8
InstructionByOne ==
  /\ Accelerated /\ Left > 0 /\ (Long => p < Unaligned \/ Left < 4)
  /\ Take(1, crc32_u8(l, Ahead(1)[1]))
InstructionByFour ==
  /\ Accelerated /\ Long /\ p >= Unaligned /\ Left \in 4 .. 7
  /\ Take(4, crc32_u32(l, Ahead(4)))
InstructionByEight ==
  /\ Accelerated /\ Long /\ p >= Unaligned /\ Left >= 8
  /\ Take(8, crc32_u64(l, Ahead(8)))

-----------------------------------------------------------------------------
(* "TestCRCBuffer" *)
kTestCRCBuffer ==
  LET text == <<84, 101, 115, 116, 67, 82, 67, 66, 117, 102, 102, 101, 114>>
  IN [i \in DOMAIN text |-> ByteOf(text[i])]
kTestCRCValue == Hex(<<13, 12, 11, 12, 5, 9, 15, 10>>)

(* CanAccelerateCRC32C, in the first call: without the instructions the     *)
(* test returns zero.                                                       *)
Test ==
  /\ pc = "idle" /\ accelerate = "unset"
  /\ IF sse
       THEN /\ pc' = "testing" /\ p' = 0 /\ l' = Xor({}, Ones)
            /\ call' = [bytes |-> kTestCRCBuffer, at |-> 0, nth |-> 0]
            /\ UNCHANGED accelerate
       ELSE /\ accelerate' = IF {} = kTestCRCValue THEN "yes" ELSE "no"
            /\ UNCHANGED <<pc, p, l, call>>
  /\ UNCHANGED <<sse, crc, ref>>
Tested ==
  /\ pc = "testing" /\ Left = 0
  /\ accelerate' = IF Xor(l, Ones) = kTestCRCValue THEN "yes" ELSE "no"
  /\ pc' = "idle" /\ ref' = Ones
  /\ UNCHANGED <<sse, call, p, l, crc>>

(* The log writer extends the checksum of a record's type by the record;    *)
(* buffers lie anywhere.                                                    *)
Extend(bytes, at) ==
  /\ pc = "idle" /\ accelerate # "unset" /\ call.nth < MaxCalls
  /\ pc' = IF accelerate = "yes" THEN "accelerated" ELSE "portable"
  /\ call' = [bytes |-> bytes, at |-> at, nth |-> call.nth + 1]
  /\ p' = 0 /\ l' = Xor(crc, Ones)
  /\ UNCHANGED <<sse, accelerate, crc, ref>>
Return ==
  /\ pc \in {"portable", "accelerated"} /\ Left = 0
  /\ crc' = Xor(l, Ones) /\ pc' = "idle"
  /\ UNCHANGED <<sse, accelerate, call, p, l, ref>>

Init ==
  /\ sse \in BOOLEAN /\ accelerate = "unset" /\ pc = "idle"
  /\ call = [bytes |-> <<>>, at |-> 0, nth |-> 0]
  /\ p = 0 /\ l = {} /\ crc = {} /\ ref = Ones

Next ==
  \/ ByOne \/ ByFour
  \/ InstructionByOne \/ InstructionByFour \/ InstructionByEight
  \/ Test \/ Tested \/ Return
  \/ \E bytes \in Chunks, at \in 0 .. 7 : Extend(bytes, at)

Spec == Init /\ [][Next]_sumVars

-----------------------------------------------------------------------------
kMaskDelta == Hex(<<10, 2, 8, 2, 14, 10, 13, 8>>)
RotateRight(w, n) == {b \in 0 .. 31 : (b + n) % 32 \in w}
Mask(w) == Plus(RotateRight(w, 15), kMaskDelta)
Unmask(w) == RotateRight(Minus(w, kMaskDelta), 17)

-----------------------------------------------------------------------------
TypeOK ==
  /\ sse \in BOOLEAN /\ accelerate \in {"unset", "yes", "no"}
  /\ pc \in {"idle", "portable", "accelerated", "testing"}
  /\ call \in [bytes : Seq(Byte), at : 0 .. 7, nth : 0 .. MaxCalls]
  /\ p \in Nat /\ l \in Word /\ crc \in Word /\ ref \in Word

(* However the bytes are split into buffers and wherever these lie, with    *)
(* the instructions or without, the checksum is the one taken bit by bit    *)
(* over all of them, and nothing behind a buffer is read: a store written   *)
(* by one build is read by the other (crc32c::Extend, AcceleratedCRC32C).   *)
ChecksumIsOfAllBytes ==
  /\ p <= Len(call.bytes)
  /\ pc # "idle" => l = ref
  /\ pc = "idle" => p = Len(call.bytes) /\ crc = Xor(ref, Ones)

(* The test tells whether the instructions are there (CanAccelerateCRC32C). *)
TestIsRight == accelerate # "unset" => (accelerate = "yes" <=> sse)

(* A checksum comes out of its mask as it was (crc32c::Mask, Unmask).       *)
MaskComesOff == Unmask(Mask(crc)) = crc
=============================================================================
