--------------------------- MODULE RtuFrameProofs ---------------------------
(***************************************************************************)
(* Proofs about the CRC, the frame and the channel: what Serialize and     *)
(* Deserialize do for every frame, and that damage to neighbouring bytes   *)
(* of any frame is seen.                                                   *)
(***************************************************************************)
EXTENDS FrameChannel, FiniteSetTheorems, SequenceTheorems, WellFoundedInduction, TLAPS

\* The largest word, without the number that costs the provers most.
WordLimit == 256 * 255 + 255

LEMMA WordRange == Word = 0 .. WordLimit /\ WordLimit \in Nat
BY SMTT(30) DEF Word, WordLimit

\* A word is put together again from its two bytes.
LEMMA TwoBytes ==
  ASSUME NEW w \in Word
  PROVE  w % 256 \in Byte /\ w \div 256 \in Byte /\ w = (w % 256) + 256 * (w \div 256)
<1>1. w \in Nat /\ w <= WordLimit
  BY WordRange
<1>2. (w % 256) \in 0 .. 255
  BY <1>1
<1>3. w \div 256 \in 0 .. 255
  BY <1>1 DEF WordLimit
<1>4. w = (w % 256) + 256 * (w \div 256)
  BY <1>1
<1> QED
  BY <1>2, <1>3, <1>4 DEF Byte

\* The two bytes of a word are found again in it.
LEMMA BytesOfWord ==
  ASSUME NEW lo \in Byte, NEW hi \in Byte
  PROVE  (lo + 256 * hi) % 256 = lo /\ (lo + 256 * hi) \div 256 = hi
  BY Z3 DEF Byte

----------------------------------------------------------------------------
(***************************************************************************)
(* The register of the CRC.  Nothing it was told is lost: both halves of a *)
(* step can be undone.                                                     *)
(***************************************************************************)

HighBit == 9 .. 16

LEMMA BitHalves == Bit = LowBit \cup HighBit /\ LowBit \cap HighBit = {}
BY DEF Bit, LowBit, HighBit

LEMMA ReflectedIs == Reflected(kCrcPolynomial) = {1, 14, 16}
BY DEF Reflected, kCrcPolynomial, Bit

\* Bit by bit: the register moves down by one and, if a bit went out, the
\* polynomial is added to it.
LEMMA ShiftedBit ==
  ASSUME NEW c \in SUBSET Bit
  PROVE  /\ ShiftOut(c) \in SUBSET Bit
         /\ \A i \in Bit : i \in ShiftOut(c) <=>
              ((i + 1 \in c) # (1 \in c /\ i \in {1, 14, 16}))
<1> DEFINE down == {i \in Bit : i + 1 \in c}
<1>1. ShiftOut(c) = IF 1 \in c THEN SymDiff(down, {1, 14, 16}) ELSE down
  BY ReflectedIs DEF ShiftOut
<1>2. {1, 14, 16} \subseteq Bit
  BY DEF Bit
<1>3. CASE 1 \in c
  <2>1. ShiftOut(c) = SymDiff(down, {1, 14, 16})
    BY <1>1, <1>3
  <2> QED
    BY <1>2, <1>3, <2>1 DEF SymDiff
<1>4. CASE 1 \notin c
  BY <1>1, <1>4
<1> QED
  BY <1>3, <1>4

\* Shifting the sum is the sum of what was shifted.
LEMMA ShiftOfSum ==
  ASSUME NEW c \in SUBSET Bit, NEW d \in SUBSET Bit
  PROVE  ShiftOut(SymDiff(c, d)) = SymDiff(ShiftOut(c), ShiftOut(d))
<1>1. SymDiff(c, d) \in SUBSET Bit
  BY DEF SymDiff
<1>2. \A i \in Bit : i \in ShiftOut(SymDiff(c, d)) <=> i \in SymDiff(ShiftOut(c), ShiftOut(d))
  BY <1>1, ShiftedBit DEF SymDiff, Bit
<1>3. ShiftOut(SymDiff(c, d)) \in SUBSET Bit /\ SymDiff(ShiftOut(c), ShiftOut(d)) \in SUBSET Bit
  BY <1>1, ShiftedBit DEF SymDiff
<1> QED
  BY <1>2, <1>3

\* A register whose highest bit is clear after a shift had its lowest bit clear
\* before, and was the same one bit up.
LEMMA ShiftBack ==
  ASSUME NEW c \in SUBSET Bit, NEW k \in 0 .. 7, ShiftOut(c) \subseteq k + 1 .. k + 8
  PROVE  c \subseteq k + 2 .. k + 9
<1>1. 16 \notin ShiftOut(c) /\ 17 \notin c
  BY DEF Bit
<1>2. 1 \notin c
  BY <1>1, ShiftedBit DEF Bit
<1>3. \A i \in Bit : i + 1 \in c => i \in k + 1 .. k + 8
  BY <1>2, ShiftedBit
<1> QED
  BY <1>2, <1>3 DEF Bit

\* Eight shifts.
Shifted8(c) == ShiftOut(ShiftOut(ShiftOut(ShiftOut(ShiftOut(ShiftOut(ShiftOut(ShiftOut(c))))))))

LEMMA EightOfSum ==
  ASSUME NEW c \in SUBSET Bit, NEW d \in SUBSET Bit
  PROVE  /\ Shifted8(c) \in SUBSET Bit
         /\ Shifted8(SymDiff(c, d)) = SymDiff(Shifted8(c), Shifted8(d))
<1>1. \A x \in SUBSET Bit : ShiftOut(x) \in SUBSET Bit
  BY ShiftedBit, Zenon
<1>2. \A x, y \in SUBSET Bit : ShiftOut(SymDiff(x, y)) = SymDiff(ShiftOut(x), ShiftOut(y))
  BY ShiftOfSum, Zenon
<1> HIDE DEF ShiftOut
<1> QED
  BY <1>1, <1>2 DEF Shifted8

\* A byte shifted out leaves bits in the upper half, unless it was zero.
LEMMA EightBack ==
  ASSUME NEW c \in SUBSET LowBit, Shifted8(c) \subseteq LowBit
  PROVE  c = {}
<1>1. \A x \in SUBSET Bit : ShiftOut(x) \in SUBSET Bit
  BY ShiftedBit, Zenon
<1>2. \A x \in SUBSET Bit, k \in 0 .. 7 :
        ShiftOut(x) \subseteq k + 1 .. k + 8 => x \subseteq k + 2 .. k + 9
  BY ShiftBack
<1> DEFINE c1 == ShiftOut(c)
           c2 == ShiftOut(c1)
           c3 == ShiftOut(c2)
           c4 == ShiftOut(c3)
           c5 == ShiftOut(c4)
           c6 == ShiftOut(c5)
           c7 == ShiftOut(c6)
           c8 == ShiftOut(c7)
<1>3. c8 \subseteq 1 .. 8
  BY DEF Shifted8, LowBit
<1>4. c \in SUBSET Bit
  BY DEF Bit, LowBit
<1>5. /\ c1 \in SUBSET Bit /\ c2 \in SUBSET Bit /\ c3 \in SUBSET Bit /\ c4 \in SUBSET Bit
      /\ c5 \in SUBSET Bit /\ c6 \in SUBSET Bit /\ c7 \in SUBSET Bit
  BY <1>1, <1>4
<1>6. c7 \subseteq 2 .. 9
  <2> HIDE DEF c7
  <2> QED
    BY <1>2, <1>3, <1>5
<1>7. c6 \subseteq 3 .. 10
  <2> HIDE DEF c6
  <2> QED
    BY <1>2, <1>6, <1>5
<1>8. c5 \subseteq 4 .. 11
  <2> HIDE DEF c5
  <2> QED
    BY <1>2, <1>7, <1>5
<1>9. c4 \subseteq 5 .. 12
  <2> HIDE DEF c4
  <2> QED
    BY <1>2, <1>8, <1>5
<1>10. c3 \subseteq 6 .. 13
  <2> HIDE DEF c3
  <2> QED
    BY <1>2, <1>9, <1>5
<1>11. c2 \subseteq 7 .. 14
  <2> HIDE DEF c2
  <2> QED
    BY <1>2, <1>10, <1>5
<1>12. c1 \subseteq 8 .. 15
  <2> HIDE DEF c1
  <2> QED
    BY <1>2, <1>11, <1>5
<1>13. c \subseteq 9 .. 16
  BY <1>2, <1>12, <1>4
<1> QED
  BY <1>13 DEF LowBit

\* The upper half of an entry of the table tells which byte it is for.
LEMMA TableByHigh ==
  ASSUME NEW x \in SUBSET LowBit, NEW y \in SUBSET LowBit,
         Table[x] \cap HighBit = Table[y] \cap HighBit
  PROVE  x = y
<1>1. Table[x] = Shifted8(x) /\ Table[y] = Shifted8(y)
  BY DEF Table, Shifted8
<1>2. x \in SUBSET Bit /\ y \in SUBSET Bit
  BY BitHalves
<1>3. Shifted8(x) \in SUBSET Bit /\ Shifted8(y) \in SUBSET Bit
  BY <1>2, EightOfSum
<1>4. SymDiff(Shifted8(x), Shifted8(y)) \subseteq LowBit
  BY <1>1, <1>3, BitHalves DEF SymDiff
<1>5. SymDiff(x, y) \in SUBSET LowBit
  BY DEF SymDiff
<1>6. Shifted8(SymDiff(x, y)) \subseteq LowBit
  BY <1>2, <1>4, EightOfSum
<1>7. SymDiff(x, y) = {}
  BY <1>5, <1>6, EightBack
<1> QED
  BY <1>7 DEF SymDiff

\* The byte of the table a step takes.
Looked(c, b) == SymDiff(c \cap LowBit, BitsOf(b))

\* A step, half by half.
LEMMA StepHalves ==
  ASSUME NEW c \in SUBSET Bit, NEW b
  PROVE  /\ Looked(c, b) \in SUBSET LowBit
         /\ ProcessByte(c, b) \in SUBSET Bit
         /\ ProcessByte(c, b) \cap HighBit = Table[Looked(c, b)] \cap HighBit
         /\ \A i \in LowBit : i \in ProcessByte(c, b) <=> ((i + 8 \in c) # (i \in Table[Looked(c, b)]))
<1>1. Looked(c, b) \in SUBSET LowBit
  BY DEF Looked, SymDiff, BitsOf
<1>2. Table[Looked(c, b)] \in SUBSET Bit
  <2>1. Table[Looked(c, b)] = Shifted8(Looked(c, b))
    BY <1>1 DEF Table, Shifted8
  <2> QED
    BY <2>1, <1>1, BitHalves, EightOfSum
<1>3. ProcessByte(c, b) = SymDiff({i \in Bit : i + 8 \in c}, Table[Looked(c, b)])
  BY DEF ProcessByte, Looked
<1>4. \A i \in Bit : i + 8 \in c => i \in LowBit
  BY DEF Bit, LowBit
<1> QED
  BY <1>1, <1>2, <1>3, <1>4, BitHalves DEF SymDiff

\* Equal after a step: the same byte of the table, and the same upper half before.
LEMMA StepUndone ==
  ASSUME NEW c \in SUBSET Bit, NEW d \in SUBSET Bit, NEW a, NEW b,
         ProcessByte(c, a) = ProcessByte(d, b)
  PROVE  Looked(c, a) = Looked(d, b) /\ c \cap HighBit = d \cap HighBit
<1>1. Looked(c, a) = Looked(d, b)
  <2>1. Looked(c, a) \in SUBSET LowBit /\ Looked(d, b) \in SUBSET LowBit
    BY StepHalves, Zenon
  <2>2. /\ ProcessByte(c, a) \cap HighBit = Table[Looked(c, a)] \cap HighBit
        /\ ProcessByte(d, b) \cap HighBit = Table[Looked(d, b)] \cap HighBit
    BY StepHalves, Zenon
  <2>3. Table[Looked(c, a)] \cap HighBit = Table[Looked(d, b)] \cap HighBit
    BY <2>2
  <2>4. \A x, y \in SUBSET LowBit : Table[x] \cap HighBit = Table[y] \cap HighBit => x = y
    BY TableByHigh, Zenon
  <2> QED
    BY <2>1, <2>3, <2>4
<1>2. \A i \in LowBit : i + 8 \in c <=> i + 8 \in d
  BY <1>1, StepHalves
<1>3. \A j \in HighBit : j - 8 \in LowBit /\ (j - 8) + 8 = j
  BY DEF HighBit, LowBit
<1> QED
  BY <1>1, <1>2, <1>3

\* Different registers stay different over the same byte.
LEMMA StepApart ==
  ASSUME NEW c \in SUBSET Bit, NEW d \in SUBSET Bit, NEW b, c # d
  PROVE  ProcessByte(c, b) # ProcessByte(d, b)
<1> SUFFICES ASSUME ProcessByte(c, b) = ProcessByte(d, b) PROVE FALSE
  OBVIOUS
<1>1. Looked(c, b) = Looked(d, b) /\ c \cap HighBit = d \cap HighBit
  BY StepUndone
<1>2. c \cap LowBit = d \cap LowBit
  BY <1>1 DEF Looked, SymDiff
<1> QED
  BY <1>1, <1>2, BitHalves

----------------------------------------------------------------------------
(***************************************************************************)
(* Bits and the numbers they stand for.                                    *)
(***************************************************************************)

\* The eight bits from k up, as a number.
Eight(bits, k) ==
  LET Value(i) == IF i + k \in bits THEN Weight[i] ELSE 0
  IN  Value(1) + Value(2) + Value(3) + Value(4) + Value(5) + Value(6) + Value(7) + Value(8)

LEMMA Weights ==
  /\ Weight[1] = 1 /\ Weight[2] = 2 /\ Weight[3] = 4 /\ Weight[4] = 8
  /\ Weight[5] = 16 /\ Weight[6] = 32 /\ Weight[7] = 64 /\ Weight[8] = 128
BY DEF Weight

LEMMA HighWeights ==
  /\ Weight[9] = 256 * 1 /\ Weight[10] = 256 * 2 /\ Weight[11] = 256 * 4 /\ Weight[12] = 256 * 8
  /\ Weight[13] = 256 * 16 /\ Weight[14] = 256 * 32 /\ Weight[15] = 256 * 64 /\ Weight[16] = 256 * 128
BY DEF Weight

\* The bits of the number of eight bits are those bits.
LEMMA BitsBack ==
  ASSUME NEW bits, NEW k \in {0, 8}
  PROVE  /\ Eight(bits, k) \in Byte
         /\ BitsOf(Eight(bits, k)) = {i \in LowBit : i + k \in bits}
<1> DEFINE X(i) == IF i + k \in bits THEN 1 ELSE 0
           n == Eight(bits, k)
<1>1. n = X(1) + 2 * X(2) + 4 * X(3) + 8 * X(4) + 16 * X(5) + 32 * X(6) + 64 * X(7) + 128 * X(8)
  BY Weights DEF Eight
<1>2. \A i \in LowBit : X(i) \in {0, 1}
  OBVIOUS
<1>3. \A i \in LowBit : X(i) = 1 <=> i + k \in bits
  OBVIOUS
<1> HIDE DEF X, n
<1>4. PICK a \in {0, 1} : a = X(1)
  BY <1>2 DEF LowBit
<1>5. PICK b \in {0, 1} : b = X(2)
  BY <1>2 DEF LowBit
<1>6. PICK c \in {0, 1} : c = X(3)
  BY <1>2 DEF LowBit
<1>7. PICK d \in {0, 1} : d = X(4)
  BY <1>2 DEF LowBit
<1>8. PICK e \in {0, 1} : e = X(5)
  BY <1>2 DEF LowBit
<1>9. PICK f \in {0, 1} : f = X(6)
  BY <1>2 DEF LowBit
<1>10. PICK g \in {0, 1} : g = X(7)
  BY <1>2 DEF LowBit
<1>11. PICK h \in {0, 1} : h = X(8)
  BY <1>2 DEF LowBit
<1>12. n = a + 2 * b + 4 * c + 8 * d + 16 * e + 32 * f + 64 * g + 128 * h
  BY <1>1, <1>4, <1>5, <1>6, <1>7, <1>8, <1>9, <1>10, <1>11
<1>13. n \in 0 .. 255
  BY <1>12
<1>14. (n \div 1) % 2 = a
  BY <1>12
<1>15. (n \div 2) % 2 = b
  BY <1>12
<1>16. (n \div 4) % 2 = c
  BY <1>12
<1>17. (n \div 8) % 2 = d
  BY <1>12
<1>18. (n \div 16) % 2 = e
  BY <1>12
<1>19. (n \div 32) % 2 = f
  BY <1>12
<1>20. (n \div 64) % 2 = g
  BY <1>12
<1>21. (n \div 128) % 2 = h
  BY <1>12
<1>22. \A i \in LowBit : (n \div Weight[i]) % 2 = X(i)
  BY Weights, <1>4, <1>5, <1>6, <1>7, <1>8, <1>9, <1>10, <1>11,
     <1>14, <1>15, <1>16, <1>17, <1>18, <1>19, <1>20, <1>21 DEF LowBit
<1>23. BitsOf(n) = {i \in LowBit : i + k \in bits}
  BY <1>3, <1>22 DEF BitsOf
<1> QED
  BY <1>13, <1>23 DEF Byte, n

LEMMA EightTells ==
  ASSUME NEW c, NEW d, NEW k \in {0, 8}, Eight(c, k) = Eight(d, k)
  PROVE  \A i \in LowBit : i + k \in c <=> i + k \in d
<1>1. {i \in LowBit : i + k \in c} = {i \in LowBit : i + k \in d}
  BY BitsBack
<1> QED
  BY <1>1

\* The bytes of a register's number are those of its halves.
LEMMA NumberHalves ==
  ASSUME NEW c
  PROVE  /\ NumberOf(c) = Eight(c, 0) + 256 * Eight(c, 8)
         /\ NumberOf(c) \in Word
         /\ NumberOf(c) % 256 = Eight(c, 0)
         /\ NumberOf(c) \div 256 = Eight(c, 8)
<1>1. NumberOf(c) = Eight(c, 0) + 256 * Eight(c, 8)
  BY Weights, HighWeights DEF NumberOf, Eight
<1>2. Eight(c, 0) \in Byte /\ Eight(c, 8) \in Byte
  BY BitsBack
<1>3. NumberOf(c) % 256 = Eight(c, 0) /\ NumberOf(c) \div 256 = Eight(c, 8)
  BY <1>1, <1>2, BytesOfWord
<1>4. NumberOf(c) \in 0 .. WordLimit
  <2>1. PICK lo \in 0 .. 255 : lo = Eight(c, 0)
    BY <1>2 DEF Byte
  <2>2. PICK hi \in 0 .. 255 : hi = Eight(c, 8)
    BY <1>2 DEF Byte
  <2>3. lo \in Nat /\ lo <= 255 /\ hi \in Nat /\ hi <= 255
    OBVIOUS
  <2>4. lo + 256 * hi \in Nat /\ lo + 256 * hi <= WordLimit
    BY <2>3 DEF WordLimit
  <2>5. NumberOf(c) = lo + 256 * hi
    BY <1>1, <2>1, <2>2
  <2> QED
    BY <2>4, <2>5, WordRange
<1> QED
  BY <1>1, <1>3, <1>4, WordRange

LEMMA HighTells ==
  ASSUME NEW c, NEW d, NumberOf(c) \div 256 = NumberOf(d) \div 256
  PROVE  c \cap HighBit = d \cap HighBit
<1>1. \A i \in LowBit : i + 8 \in c <=> i + 8 \in d
  BY NumberHalves, EightTells
<1>2. \A j \in HighBit : j - 8 \in LowBit /\ (j - 8) + 8 = j
  BY DEF HighBit, LowBit
<1> QED
  BY <1>1, <1>2

LEMMA NumberTells ==
  ASSUME NEW c \in SUBSET Bit, NEW d \in SUBSET Bit, NumberOf(c) = NumberOf(d)
  PROVE  c = d
<1>1. c \cap HighBit = d \cap HighBit
  BY HighTells
<1>2. \A i \in LowBit : i + 0 \in c <=> i + 0 \in d
  BY NumberHalves, EightTells
<1>3. \A i \in LowBit : i + 0 = i
  BY DEF LowBit
<1> QED
  BY <1>1, <1>2, <1>3, BitHalves


\* A byte is the sum of its bits.
LEMMA SumOfBits ==
  ASSUME NEW b \in Byte
  PROVE  b = (b % 2) + 2 * ((b \div 2) % 2) + 4 * ((b \div 4) % 2) + 8 * ((b \div 8) % 2)
               + 16 * ((b \div 16) % 2) + 32 * ((b \div 32) % 2)
               + 64 * ((b \div 64) % 2) + 128 * ((b \div 128) % 2)
<1>1. b \in Nat /\ b < 256
  BY DEF Byte
<1>2. b = (b % 2) + 2 * (b \div 2)
  BY <1>1
<1>3. b \div 2 = ((b \div 2) % 2) + 2 * (b \div 4)
  BY <1>1
<1>4. b \div 4 = ((b \div 4) % 2) + 2 * (b \div 8)
  BY <1>1
<1>5. b \div 8 = ((b \div 8) % 2) + 2 * (b \div 16)
  BY <1>1
<1>6. b \div 16 = ((b \div 16) % 2) + 2 * (b \div 32)
  BY <1>1
<1>7. b \div 32 = ((b \div 32) % 2) + 2 * (b \div 64)
  BY <1>1
<1>8. b \div 64 = ((b \div 64) % 2) + 2 * (b \div 128)
  BY <1>1
<1>9. b \div 128 = ((b \div 128) % 2)
  BY <1>1
<1> QED
  BY <1>1, <1>2, <1>3, <1>4, <1>5, <1>6, <1>7, <1>8, <1>9

LEMMA ByteTells ==
  ASSUME NEW a \in Byte, NEW b \in Byte, BitsOf(a) = BitsOf(b)
  PROVE  a = b
<1>1. \A i \in LowBit : (a \div Weight[i]) % 2 = (b \div Weight[i]) % 2
  <2>1. \A i \in LowBit : ((a \div Weight[i]) % 2 = 1) <=> ((b \div Weight[i]) % 2 = 1)
    BY DEF BitsOf
  <2>2. \A i \in LowBit : Weight[i] \in Nat \ {0}
    BY Weights DEF LowBit
  <2>3. \A n \in Byte, w \in Nat \ {0} : (n \div w) % 2 \in {0, 1}
    BY DEF Byte
  <2> QED
    BY <2>1, <2>2, <2>3
<1>2. /\ a % 2 = b % 2 /\ (a \div 2) % 2 = (b \div 2) % 2
      /\ (a \div 4) % 2 = (b \div 4) % 2 /\ (a \div 8) % 2 = (b \div 8) % 2
      /\ (a \div 16) % 2 = (b \div 16) % 2 /\ (a \div 32) % 2 = (b \div 32) % 2
      /\ (a \div 64) % 2 = (b \div 64) % 2 /\ (a \div 128) % 2 = (b \div 128) % 2
  <2>1. a \div 1 = a /\ b \div 1 = b
    BY DEF Byte
  <2> QED
    BY <1>1, <2>1, Weights DEF LowBit
<1> QED
  BY <1>2, SumOfBits, ZenonT(60)

----------------------------------------------------------------------------
(***************************************************************************)
(* The register after each byte, as FoldLeft computes it.                  *)
(***************************************************************************)

\* A set of numbers has a least one.
LEMMA LeastNumber ==
  ASSUME NEW S, S \subseteq Nat, S # {}
  PROVE  \E x \in S : \A y \in S : x <= y
<1> DEFINE R == {ss \in Nat \X Nat : ss[1] < ss[2]}
<1>1. IsWellFoundedOn(R, Nat)
  BY NatLessThanWellFounded DEF OpToRel
<1>2. ASSUME NEW x \in Nat, NEW y \in Nat, y < x
      PROVE  <<y, x>> \in R
  BY <1>2
<1> HIDE DEF R
<1>3. PICK x \in S : \A y \in S : ~ (<<y, x>> \in R)
  BY <1>1, WFMin
<1>4. x \in Nat /\ \A y \in S : y \in Nat /\ ~ (y < x)
  BY <1>2, <1>3
<1> QED
  BY <1>4

\* A set that holds 0 and with each number the next holds them all.
LEMMA Induct ==
  ASSUME NEW S, 0 \in S, \A n \in Nat : n \in S => n + 1 \in S
  PROVE  Nat \subseteq S
<1> SUFFICES ASSUME ~ (Nat \subseteq S) PROVE FALSE
  OBVIOUS
<1>1. PICK n \in Nat \ S : \A m \in Nat \ S : n <= m
  BY LeastNumber
<1> QED
  BY <1>1

\* The registers after the bytes at any positions up to n, in their order.
Step(bytes, f, s) ==
  IF s = {} THEN kCrcInitialValue ELSE ProcessByte(f[s \ {Max(s)}], bytes[Max(s)])
Folded(bytes, n, f) == f = [s \in SUBSET (1 .. n) |-> Step(bytes, f, s)]

\* The highest position, if it is in the set.
LEMMA HighestOf ==
  ASSUME NEW n \in Nat, NEW s \in SUBSET (1 .. n + 1), n + 1 \in s
  PROVE  Max(s) = n + 1
<1>1. \A y \in s : y \in Nat /\ n + 1 >= y
  OBVIOUS
<1>2. \A x \in s : (\A y \in s : x >= y) => x = n + 1
  BY <1>1
<1> QED
  BY <1>1, <1>2 DEF Max

LEMMA FoldedSteps ==
  ASSUME NEW bytes, NEW n \in Nat, NEW f, Folded(bytes, n, f)
  PROVE  \A s \in SUBSET (1 .. n) : f[s] = Step(bytes, f, s)
BY DEF Folded

LEMMA FoldedExists ==
  ASSUME NEW bytes, NEW n \in Nat
  PROVE  \E f : Folded(bytes, n, f)
<1> DEFINE S == {m \in Nat : \E f : Folded(bytes, m, f)}
<1>1. 0 \in S
  <2> DEFINE f == [s \in SUBSET (1 .. 0) |-> kCrcInitialValue]
  <2>1. \A s \in SUBSET (1 .. 0) : s = {}
    OBVIOUS
  <2>2. \A s \in SUBSET (1 .. 0) : Step(bytes, f, s) = kCrcInitialValue
    BY <2>1, Zenon DEF Step
  <2>3. f = [s \in SUBSET (1 .. 0) |-> Step(bytes, f, s)]
    BY <2>2, Zenon
  <2>4. Folded(bytes, 0, f)
    BY <2>3, Zenon DEF Folded
  <2> QED
    BY <2>4
<1>2. ASSUME NEW m \in Nat, m \in S
      PROVE  m + 1 \in S
  <2>1. PICK f : Folded(bytes, m, f)
    BY <1>2
  <2>2. \A s \in SUBSET (1 .. m) : f[s] = Step(bytes, f, s)
    BY <2>1, FoldedSteps
  <2> DEFINE g == [s \in SUBSET (1 .. m + 1) |-> Step(bytes, f, s)]
  <2>3. \A s \in SUBSET (1 .. m + 1) : g[s] = Step(bytes, f, s)
    OBVIOUS
  <2>4. \A s \in SUBSET (1 .. m) : g[s] = f[s]
    <3>1. SUBSET (1 .. m) \subseteq SUBSET (1 .. m + 1)
      OBVIOUS
    <3> HIDE DEF g
    <3> QED
      BY <2>2, <2>3, <3>1, Zenon
  <2>5. ASSUME NEW s \in SUBSET (1 .. m + 1)
        PROVE  Step(bytes, f, s) = Step(bytes, g, s)
    <3> HIDE DEF g
    <3>1. s \ {Max(s)} \in SUBSET (1 .. m)
      <4> DEFINE upTo == 1 .. m
      <4>0. \A y \in 1 .. m + 1 : y = m + 1 \/ y \in upTo
        OBVIOUS
      <4> HIDE DEF upTo
      <4>1. CASE m + 1 \in s
        <5>1. Max(s) = m + 1
          BY <4>1, HighestOf
        <5> QED
          BY <4>0, <5>1 DEF upTo
      <4>2. CASE m + 1 \notin s
        BY <4>0, <4>2 DEF upTo
      <4> QED
        BY <4>1, <4>2
    <3>2. g[s \ {Max(s)}] = f[s \ {Max(s)}]
      BY <2>4, <3>1, Zenon
    <3> QED
      BY <3>2, Zenon DEF Step
  <2>6. g = [s \in SUBSET (1 .. m + 1) |-> Step(bytes, g, s)]
    BY <2>5, Zenon
  <2>7. Folded(bytes, m + 1, g)
    BY <2>6, Zenon DEF Folded
  <2> HIDE DEF g
  <2> QED
    BY <2>7
<1> HIDE DEF S
<1>3. n \in S
  BY <1>1, <1>2, Induct
<1> QED
  BY <1>3 DEF S

\* The register after the first k bytes.
After(bytes, k) == (CHOOSE f : Folded(bytes, Len(bytes), f))[1 .. k]

LEMMA RegisterSteps ==
  ASSUME NEW bytes \in Seq(Byte)
  PROVE  /\ After(bytes, 0) = Bit
         /\ \A k \in Nat : k + 1 <= Len(bytes) =>
              After(bytes, k + 1) = ProcessByte(After(bytes, k), bytes[k + 1])
         /\ Register(bytes) = After(bytes, Len(bytes))
<1> DEFINE n == Len(bytes)
           f == CHOOSE f : Folded(bytes, n, f)
<1>1. n \in Nat /\ DOMAIN bytes = 1 .. n
  OBVIOUS
<1> HIDE DEF n
<1>2. Folded(bytes, n, f)
  BY <1>1, FoldedExists, Zenon
<1> HIDE DEF f
<1>3. \A s \in SUBSET (1 .. n) : f[s] = Step(bytes, f, s)
  BY <1>1, <1>2, FoldedSteps
<1>4. \A k : After(bytes, k) = f[1 .. k]
  BY Zenon DEF After, f, n
<1>5. f[1 .. 0] = Bit
  <2>1. 1 .. 0 = {}
    OBVIOUS
  <2>2. f[{}] = Step(bytes, f, {})
    BY <1>3
  <2> QED
    BY <2>1, <2>2, Zenon DEF Step, kCrcInitialValue
<1>6. ASSUME NEW k \in Nat, k + 1 <= n
      PROVE  f[1 .. k + 1] = ProcessByte(f[1 .. k], bytes[k + 1])
  <2>1. 1 .. k + 1 \in SUBSET (1 .. n)
    BY <1>1, <1>6
  <2>2. Max(1 .. k + 1) = k + 1
    BY HighestOf
  <2>3. (1 .. k + 1) \ {k + 1} = 1 .. k /\ 1 .. k + 1 # {}
    OBVIOUS
  <2>4. f[1 .. k + 1] = Step(bytes, f, 1 .. k + 1)
    BY <1>3, <2>1
  <2> QED
    BY <2>2, <2>3, <2>4, Zenon DEF Step
<1>7. Register(bytes) = f[1 .. n]
  BY <1>1, Zenon DEF Register, FoldLeft, MapThenFoldSet, Folded, Step, f
<1> QED
  BY <1>4, <1>5, <1>6, <1>7 DEF n

LEMMA RegisterType ==
  ASSUME NEW bytes \in Seq(Byte)
  PROVE  \A k \in 0 .. Len(bytes) : After(bytes, k) \in SUBSET Bit
<1> DEFINE S == {k \in Nat : k <= Len(bytes) => After(bytes, k) \in SUBSET Bit}
<1>1. 0 \in S
  BY RegisterSteps
<1>2. ASSUME NEW k \in Nat, k \in S
      PROVE  k + 1 \in S
  <2> SUFFICES ASSUME k + 1 <= Len(bytes)
               PROVE  After(bytes, k + 1) \in SUBSET Bit
    OBVIOUS
  <2>1. After(bytes, k) \in SUBSET Bit
    BY <1>2
  <2>2. After(bytes, k + 1) = ProcessByte(After(bytes, k), bytes[k + 1])
    BY RegisterSteps
  <2>3. \A b : ProcessByte(After(bytes, k), b) \in SUBSET Bit
    BY <2>1, StepHalves, Zenon
  <2> QED
    BY <2>2, <2>3
<1> HIDE DEF S
<1>3. Nat \subseteq S
  BY <1>1, <1>2, Induct
<1> QED
  BY <1>3 DEF S

\* The CRC has 16 bits.
LEMMA CrcIsWord ==
  ASSUME NEW bytes \in Seq(Byte)
  PROVE  CalcCrc(bytes) \in Word
BY NumberHalves DEF CalcCrc

\* The same bytes so far, the same register.
LEMMA SameSoFar ==
  ASSUME NEW a \in Seq(Byte), NEW b \in Seq(Byte), NEW n \in Nat,
         n <= Len(a), n <= Len(b), \A i \in 1 .. n : a[i] = b[i]
  PROVE  After(a, n) = After(b, n)
<1> DEFINE S == {k \in Nat : k <= n => After(a, k) = After(b, k)}
<1>1. 0 \in S
  BY RegisterSteps
<1>2. ASSUME NEW k \in Nat, k \in S
      PROVE  k + 1 \in S
  <2> SUFFICES ASSUME k + 1 <= n
               PROVE  After(a, k + 1) = After(b, k + 1)
    OBVIOUS
  <2>1. After(a, k) = After(b, k) /\ a[k + 1] = b[k + 1]
    BY <1>2
  <2>2. k + 1 <= Len(a) /\ k + 1 <= Len(b)
    OBVIOUS
  <2> QED
    BY <2>1, <2>2, RegisterSteps
<1> HIDE DEF S
<1>3. Nat \subseteq S
  BY <1>1, <1>2, Induct
<1> QED
  BY <1>3 DEF S

\* Once different, and the same bytes from there, different at the end.
LEMMA ApartToTheEnd ==
  ASSUME NEW a \in Seq(Byte), NEW b \in Seq(Byte), NEW n \in Nat, n = Len(a), n = Len(b),
         NEW j \in 0 .. n, After(a, j) # After(b, j), \A i \in j + 1 .. n : a[i] = b[i]
  PROVE  After(a, n) # After(b, n)
<1> DEFINE S == {k \in Nat : k >= j /\ k <= n => After(a, k) # After(b, k)}
<1>1. 0 \in S
  OBVIOUS
<1>2. ASSUME NEW k \in Nat, k \in S
      PROVE  k + 1 \in S
  <2> SUFFICES ASSUME k + 1 > j, k + 1 <= n
               PROVE  After(a, k + 1) # After(b, k + 1)
    OBVIOUS
  <2>1. k \in 0 .. n /\ k >= j /\ k + 1 \in j + 1 .. n
    OBVIOUS
  <2>2. After(a, k) # After(b, k) /\ a[k + 1] = b[k + 1]
    BY <1>2, <2>1
  <2>3. After(a, k) \in SUBSET Bit /\ After(b, k) \in SUBSET Bit
    BY <2>1, RegisterType
  <2>4. /\ After(a, k + 1) = ProcessByte(After(a, k), a[k + 1])
        /\ After(b, k + 1) = ProcessByte(After(b, k), b[k + 1])
    BY RegisterSteps
  <2> QED
    BY <2>2, <2>3, <2>4, StepApart
<1> HIDE DEF S
<1>3. Nat \subseteq S
  BY <1>1, <1>2, Induct
<1> QED
  BY <1>3 DEF S

\* A byte that differs shows in the upper half of the register.
LEMMA ByteShows ==
  ASSUME NEW c \in SUBSET Bit, NEW a \in Byte, NEW b \in Byte, a # b
  PROVE  ProcessByte(c, a) \cap HighBit # ProcessByte(c, b) \cap HighBit
<1> SUFFICES ASSUME ProcessByte(c, a) \cap HighBit = ProcessByte(c, b) \cap HighBit
             PROVE  FALSE
  OBVIOUS
<1>1. Looked(c, a) \in SUBSET LowBit /\ Looked(c, b) \in SUBSET LowBit
  BY StepHalves, Zenon
<1>2. /\ ProcessByte(c, a) \cap HighBit = Table[Looked(c, a)] \cap HighBit
      /\ ProcessByte(c, b) \cap HighBit = Table[Looked(c, b)] \cap HighBit
  BY StepHalves, Zenon
<1>3. Looked(c, a) = Looked(c, b)
  <2>1. Table[Looked(c, a)] \cap HighBit = Table[Looked(c, b)] \cap HighBit
    BY <1>2
  <2>2. \A x, y \in SUBSET LowBit : Table[x] \cap HighBit = Table[y] \cap HighBit => x = y
    BY TableByHigh, Zenon
  <2> QED
    BY <1>1, <2>1, <2>2
<1>4. BitsOf(a) = BitsOf(b)
  BY <1>3 DEF Looked, SymDiff
<1> QED
  BY <1>4, ByteTells

\* The same up to n but for the bytes i and i + 1.
SameBeside(a, b, n, i) == \A j \in 1 .. n : j \notin {i, i + 1} => a[j] = b[j]

\* Bytes that differ first at i and after i + 1 nowhere: the registers differ at
\* the end, and if the end is i, in the upper half.
LEMMA DamageShows ==
  ASSUME NEW a \in Seq(Byte), NEW b \in Seq(Byte), Len(a) = Len(b),
         NEW i \in 1 .. Len(a), a[i] # b[i],
         SameBeside(a, b, Len(a), i)
  PROVE  /\ CalcCrc(a) # CalcCrc(b)
         /\ i = Len(a) => CalcCrc(a) \div 256 # CalcCrc(b) \div 256
<1>1. i - 1 \in Nat /\ i - 1 <= Len(a) /\ (i - 1) + 1 = i
  OBVIOUS
<1>2. After(a, i - 1) = After(b, i - 1)
  <2>1. \A j \in 1 .. i - 1 : a[j] = b[j]
    BY DEF SameBeside
  <2> QED
    BY <1>1, <2>1, SameSoFar
<1>3. After(a, i - 1) \in SUBSET Bit
  BY <1>1, RegisterType
<1>4. After(a, i) = ProcessByte(After(a, i - 1), a[i]) /\ After(b, i) = ProcessByte(After(b, i - 1), b[i])
  BY <1>1, RegisterSteps
<1>5. After(a, i) \cap HighBit # After(b, i) \cap HighBit
  <2>1. a[i] \in Byte /\ b[i] \in Byte
    OBVIOUS
  <2> QED
    BY <1>2, <1>3, <1>4, <2>1, ByteShows
<1>6. After(a, i) \in SUBSET Bit /\ After(b, i) \in SUBSET Bit
  BY RegisterType
<1>7. /\ CalcCrc(a) = NumberOf(After(a, Len(a))) /\ CalcCrc(b) = NumberOf(After(b, Len(a)))
      /\ After(a, Len(a)) \in SUBSET Bit /\ After(b, Len(a)) \in SUBSET Bit
  BY RegisterSteps, RegisterType DEF CalcCrc
<1>8. CASE i = Len(a)
  <2>1. CalcCrc(a) \div 256 # CalcCrc(b) \div 256
    BY <1>5, <1>7, <1>8, HighTells
  <2> QED
    BY <2>1
<1>9. CASE i # Len(a)
  <2>1. After(a, i + 1) # After(b, i + 1)
    <3>1. i + 1 <= Len(a)
      BY <1>9
    <3>2. /\ After(a, i + 1) = ProcessByte(After(a, i), a[i + 1])
          /\ After(b, i + 1) = ProcessByte(After(b, i), b[i + 1])
      BY <3>1, RegisterSteps
    <3> QED
      BY <3>2, <1>5, <1>6, StepUndone
  <2>2. i + 1 \in 0 .. Len(a) /\ \A j \in (i + 1) + 1 .. Len(a) : a[j] = b[j]
    BY <1>9 DEF SameBeside
  <2>3. After(a, Len(a)) # After(b, Len(a))
    BY <2>1, <2>2, ApartToTheEnd
  <2>4. CalcCrc(a) # CalcCrc(b)
    BY <1>7, <2>3, NumberTells
  <2> QED
    BY <2>4, <1>9
<1> QED
  BY <1>8, <1>9

----------------------------------------------------------------------------
(***************************************************************************)
(* The frame.                                                              *)
(***************************************************************************)

\* The bytes of a frame: how many they are and where its parts are.
LEMMA SerializedParts ==
  ASSUME NEW slave \in Byte, NEW pdu \in Seq(Byte),
         NEW crc \in Word, crc = CalcCrc(<<slave>> \o pdu),
         NEW bytes, bytes = Serialized(Frame(slave, pdu))
  PROVE  /\ bytes \in Seq(Byte)
         /\ Len(bytes) = Len(pdu) + kMinFrameSize
         /\ bytes[1] = slave
         /\ SubSeq(bytes, 2, 1 + Len(pdu)) = pdu
         /\ SubSeq(bytes, 1, Len(bytes) - 2) = <<slave>> \o pdu
         /\ bytes[2 + Len(pdu)] = crc % 256
         /\ bytes[3 + Len(pdu)] = crc \div 256
  <1> DEFINE body == <<slave>> \o pdu
             tail == <<crc % 256, crc \div 256>>
  <1>1. bytes = body \o tail
    BY DEF Serialized, Frame
  <1>2. body \in Seq(Byte) /\ Len(body) = 1 + Len(pdu)
    OBVIOUS
  <1>3. crc % 256 \in Byte /\ crc \div 256 \in Byte
    BY TwoBytes
  <1>4. tail \in Seq(Byte) /\ Len(tail) = 2
    BY <1>3
  <1>5. /\ bytes \in Seq(Byte)
        /\ Len(bytes) = Len(pdu) + kMinFrameSize
        /\ Len(bytes) = Len(body) + 2
    BY <1>1, <1>2, <1>4 DEF kMinFrameSize
  <1>6. \A i \in 1 .. Len(body) : bytes[i] = body[i]
    BY <1>1, <1>2, <1>4
  <1>7. bytes[1] = slave
    BY <1>2, <1>6
  <1>8. bytes[2 + Len(pdu)] = crc % 256 /\ bytes[3 + Len(pdu)] = crc \div 256
    BY <1>1, <1>2, <1>4
  <1>9. SubSeq(bytes, 1, Len(bytes) - 2) = body
    <2>1. SubSeq(bytes, 1, Len(body)) \in Seq(Byte)
          /\ Len(SubSeq(bytes, 1, Len(body))) = Len(body)
      BY <1>2, <1>5
    <2>2. \A i \in 1 .. Len(body) : SubSeq(bytes, 1, Len(body))[i] = body[i]
      BY <1>2, <1>5, <1>6
    <2> QED
      BY <2>1, <2>2, <1>2, <1>5, SeqEqual
  <1>10. SubSeq(bytes, 2, 1 + Len(pdu)) = pdu
    <2>1. SubSeq(bytes, 2, 1 + Len(pdu)) \in Seq(Byte)
          /\ Len(SubSeq(bytes, 2, 1 + Len(pdu))) = Len(pdu)
      BY <1>2, <1>5
    <2>2. \A i \in 1 .. Len(pdu) : SubSeq(bytes, 2, 1 + Len(pdu))[i] = bytes[i + 1]
      BY <1>2, <1>5
    <2>3. \A i \in 1 .. Len(pdu) : body[i + 1] = pdu[i]
      OBVIOUS
    <2> QED
      BY <2>1, <2>2, <2>3, <1>2, <1>6, SeqEqual
  <1> QED
    BY <1>5, <1>7, <1>8, <1>9, <1>10

(***************************************************************************)
(* A frame that Create made is read back as it was, whatever the slave and *)
(* the PDU up to kMaxPduSize: Deserialize of rtu_frame.hpp inverts         *)
(* Serialize, and no frame is refused by its own CRC or size.              *)
(***************************************************************************)
THEOREM FrameRoundTrip ==
  ASSUME NEW slave \in Byte, NEW pdu \in Seq(Byte),
         Create(slave, pdu).error = "none"
  PROVE  Deserialize(Serialized(Create(slave, pdu))) = Create(slave, pdu)
  <1> DEFINE crc == CalcCrc(<<slave>> \o pdu)
             bytes == Serialized(Frame(slave, pdu))
  <1>0. crc \in Word
    <2>1. <<slave>> \o pdu \in Seq(Byte)
      OBVIOUS
    <2> QED
      BY <2>1, CrcIsWord
  <1>1. Len(pdu) <= kMaxPduSize /\ Create(slave, pdu) = Frame(slave, pdu)
    <2>1. Len(pdu) \in Nat
      OBVIOUS
    <2>2. ASSUME Len(pdu) > kMaxPduSize PROVE FALSE
      BY <2>2 DEF Create, NoFrame
    <2> QED
      BY <2>1, <2>2 DEF Create, kMaxPduSize
  <1>2. /\ bytes \in Seq(Byte)
        /\ Len(bytes) = Len(pdu) + kMinFrameSize
        /\ bytes[1] = slave
        /\ SubSeq(bytes, 2, 1 + Len(pdu)) = pdu
        /\ SubSeq(bytes, 1, Len(bytes) - 2) = <<slave>> \o pdu
        /\ bytes[2 + Len(pdu)] = crc % 256
        /\ bytes[3 + Len(pdu)] = crc \div 256
    BY <1>0, SerializedParts
  <1>3. Len(pdu) \in Nat /\ Len(bytes) - kMinFrameSize = Len(pdu)
    BY <1>2 DEF kMinFrameSize
  <1>4. crc = (crc % 256) + 256 * (crc \div 256)
    BY <1>0, TwoBytes
  <1>5. CalcCrc(SubSeq(bytes, 1, Len(bytes) - 2)) = crc
    BY <1>2
  <1>6. /\ ~ (Len(bytes) < kMinFrameSize)
        /\ ~ (Len(bytes) - kMinFrameSize > kMaxPduSize)
    BY <1>1, <1>3, <1>2 DEF kMinFrameSize, kMaxPduSize
  <1>7. Deserialize(bytes) = Create(bytes[1], SubSeq(bytes, 2, 1 + Len(pdu)))
    BY <1>2, <1>3, <1>4, <1>5, <1>6 DEF Deserialize
  <1> QED
    BY <1>1, <1>2, <1>7

(***************************************************************************)
(* Bytes that Deserialize accepts are the ones Serialize writes for the    *)
(* frame it makes of them: nothing in an accepted datagram is ignored, and *)
(* no two datagrams are read as the same frame.                            *)
(***************************************************************************)
THEOREM AcceptedIsSerialized ==
  ASSUME NEW bytes \in Seq(Byte), Deserialize(bytes).error = "none"
  PROVE  /\ Serialized(Deserialize(bytes)) = bytes
         /\ Len(Deserialize(bytes).pdu) <= kMaxPduSize
  <1> DEFINE n == Len(bytes)
             slave == bytes[1]
             pdu == SubSeq(bytes, 2, n - 2)
             body == SubSeq(bytes, 1, n - 2)
             crc == bytes[n - 1] + 256 * bytes[n]
  <1>1. n \in Nat
    OBVIOUS
  <1>2. /\ n >= 3 /\ n - 3 <= kMaxPduSize
        /\ CalcCrc(body) = crc
        /\ Deserialize(bytes) = Create(slave, pdu)
    <2>1. 2 + (n - 3) = n - 1 /\ 3 + (n - 3) = n /\ 1 + (n - 3) = n - 2
      BY <1>1
    <2>2. ~ (n < 3)
      BY DEF Deserialize, NoFrame, kMinFrameSize
    <2>3. ~ (n - 3 > kMaxPduSize)
      BY <2>2 DEF Deserialize, NoFrame, kMinFrameSize
    <2>4. CalcCrc(body) = crc
      BY <2>1, <2>2, <2>3 DEF Deserialize, NoFrame, kMinFrameSize
    <2>5. Deserialize(bytes) = Create(slave, pdu)
      BY <2>1, <2>2, <2>3, <2>4 DEF Deserialize, kMinFrameSize
    <2> QED
      BY <1>1, <2>2, <2>3, <2>4, <2>5 DEF kMaxPduSize
  <1>3. pdu \in Seq(Byte) /\ Len(pdu) = n - 3
    <2>1. n >= 3
      BY <1>2
    <2>2. \A i \in 2 .. n - 2 : bytes[i] \in Byte
      BY <1>1, <2>1
    <2>3. pdu \in Seq(Byte) /\ Len(pdu) = IF 2 <= n - 2 THEN n - 2 - 2 + 1 ELSE 0
      <3> HIDE DEF n
      <3> QED
        BY <1>1, <2>2, SubSeqProperties
    <2> HIDE DEF n, pdu
    <2> QED
      BY <1>1, <2>1, <2>3
  <1>4. Deserialize(bytes) = Frame(slave, pdu)
    <2>1. ~ (Len(pdu) > kMaxPduSize)
      BY <1>1, <1>2, <1>3 DEF kMaxPduSize
    <2>2. Create(slave, pdu) = Frame(slave, pdu)
      BY <2>1 DEF Create
    <2> QED
      BY <2>2, <1>2
  <1>5. /\ body \in Seq(Byte) /\ Len(body) = n - 2
        /\ \A i \in 1 .. n - 2 : body[i] = bytes[i]
    BY <1>1, <1>2
  <1>6. <<slave>> \o pdu = body
    <2>1. slave \in Byte
      BY <1>1, <1>2
    <2>2. <<slave>> \o pdu \in Seq(Byte) /\ Len(<<slave>> \o pdu) = n - 2
      BY <2>1, <1>1, <1>3
    <2>3. \A i \in 1 .. n - 2 : (<<slave>> \o pdu)[i] = bytes[i]
      BY <2>1, <1>1, <1>2, <1>3
    <2> QED
      BY <2>2, <2>3, <1>5, SeqEqual
  <1>7. bytes[n - 1] \in Byte /\ bytes[n] \in Byte
    BY <1>1, <1>2
  <1>8. crc % 256 = bytes[n - 1] /\ crc \div 256 = bytes[n]
    BY <1>7, BytesOfWord
  <1>9. Serialized(Frame(slave, pdu)) = body \o <<bytes[n - 1], bytes[n]>>
    <2>1. Frame(slave, pdu).slave = slave /\ Frame(slave, pdu).pdu = pdu
      BY DEF Frame
    <2>2. CalcCrc(<<slave>> \o pdu) = crc
      BY <1>2, <1>6, Zenon
    <2>3. Serialized(Frame(slave, pdu)) = body \o <<crc % 256, crc \div 256>>
      <3> HIDE DEF slave, pdu, body, crc
      <3> QED
        BY <1>6, <2>1, <2>2, Zenon DEF Serialized
    <2> QED
      BY <1>8, <2>3, Zenon
  <1>10. body \o <<bytes[n - 1], bytes[n]>> = bytes
    <2> DEFINE whole == body \o <<bytes[n - 1], bytes[n]>>
    <2>1. whole \in Seq(Byte) /\ Len(whole) = n
      BY <1>1, <1>2, <1>5, <1>7, SMTT(30)
    <2>2. \A i \in 1 .. n : whole[i] = bytes[i]
      BY <1>1, <1>2, <1>5, <1>7
    <2> QED
      BY <2>1, <2>2, SeqEqual
  <1>11. Deserialize(bytes).pdu = pdu
    BY <1>4 DEF Frame
  <1> HIDE DEF n, slave, pdu, body
  <1> QED
    BY <1>2, <1>3, <1>4, <1>9, <1>10, <1>11

----------------------------------------------------------------------------
\* What is on the wire is what Serialize wrote, until a byte is damaged, and what
\* was received then is the frame.
WireIsSerialized ==
  damaged = {} =>
    /\ sent.error = "none" => wire = Serialized(sent)
    /\ sent.error = "none" =>
         \E slave \in Slaves, pdu \in Pdus : sent = Create(slave, pdu)
    /\ got \in {NotYet, sent}

LEMMA NextWire ==
  ASSUME WireIsSerialized, [Next]_vars
  PROVE  WireIsSerialized'
  <1> SUFFICES ASSUME damaged' = {}
               PROVE  WireIsSerialized'
    BY DEF WireIsSerialized
  <1>1. CASE UNCHANGED vars
    BY <1>1 DEF WireIsSerialized, vars
  <1>2. ASSUME NEW slave \in Slaves, NEW pdu \in Pdus, Send(slave, pdu)
        PROVE  WireIsSerialized'
    <2>1. damaged = {}
      BY <1>2 DEF Send
    <2>2. got' = NotYet
      BY <1>2, <2>1 DEF Send, WireIsSerialized
    <2>3. sent'.error = "none" => wire' = Serialized(sent')
      BY <1>2 DEF Send
    <2>4. sent' = Create(slave, pdu)
      BY <1>2 DEF Send
    <2> QED
      BY <2>2, <2>3, <2>4 DEF WireIsSerialized
  <1>3. ASSUME NEW i \in Spots, NEW b \in Damages, Damage(i, b)
        PROVE  WireIsSerialized'
    BY <1>3 DEF Damage
  <1>4. CASE Receive
    <2>1. /\ damaged = {} /\ sent.error = "none" /\ wire = Serialized(sent)
          /\ got' = Deserialize(wire)
          /\ UNCHANGED <<sent, wire, damaged>>
      BY <1>4 DEF Receive, WireIsSerialized
    <2>2. PICK slave \in Slaves, pdu \in Pdus : sent = Create(slave, pdu)
      BY <2>1 DEF WireIsSerialized
    <2>3. slave \in Byte /\ pdu \in Seq(Byte)
      BY ChannelAssumption
    <2>4. Deserialize(Serialized(Create(slave, pdu))) = Create(slave, pdu)
      BY <2>1, <2>2, <2>3, FrameRoundTrip
    <2>5. got' = sent
      BY <2>1, <2>2, <2>4
    <2>6. WireIsSerialized
      OBVIOUS
    <2> QED
      BY <2>1, <2>5, <2>6 DEF WireIsSerialized
  <1> QED
    BY <1>1, <1>2, <1>3, <1>4 DEF Next

(***************************************************************************)
(* Whatever slaves and PDUs: a frame that is not damaged on its way        *)
(* arrives as it was made.                                                 *)
(***************************************************************************)
THEOREM FrameArrives == Spec => []FrameReadBack
  <1>1. Init => WireIsSerialized
    <2>1. NotYet.error = "notYet"
      BY DEF NotYet, NoFrame
    <2> QED
      BY <2>1 DEF Init, WireIsSerialized
  <1>2. WireIsSerialized /\ [Next]_vars => WireIsSerialized'
    BY NextWire
  <1>3. WireIsSerialized => FrameReadBack
    BY DEF WireIsSerialized, FrameReadBack
  <1> QED
    BY <1>1, <1>2, <1>3, PTL DEF Spec

----------------------------------------------------------------------------
(***************************************************************************)
(* Whatever frame, if one byte of it or two beside each other are damaged, *)
(* those of the CRC included, Deserialize refuses it for its CRC.          *)
(***************************************************************************)
THEOREM DamageIsSeen ==
  ASSUME NEW slave \in Byte, NEW pdu \in Seq(Byte), Len(pdu) <= kMaxPduSize,
         NEW whole, whole = Serialized(Frame(slave, pdu)),
         NEW bytes \in Seq(Byte), Len(bytes) = Len(whole),
         NEW i \in 1 .. Len(bytes), bytes[i] # whole[i],
         SameBeside(bytes, whole, Len(bytes), i)
  PROVE  Deserialize(bytes).error = "kInvalidCrc"
  <1> DEFINE n == 1 + Len(pdu)
             body == <<slave>> \o pdu
             damagedBody == SubSeq(bytes, 1, Len(bytes) - 2)
             crc == CalcCrc(body)
             damagedCrc == CalcCrc(damagedBody)
  <1>1. body \in Seq(Byte) /\ Len(body) = n /\ n \in Nat /\ n >= 1
    OBVIOUS
  <1>2. crc \in Word
    BY <1>1, CrcIsWord
  <1>3. /\ whole \in Seq(Byte)
        /\ Len(whole) = Len(pdu) + kMinFrameSize
        /\ SubSeq(whole, 1, Len(whole) - 2) = body
        /\ whole[2 + Len(pdu)] = crc % 256
        /\ whole[3 + Len(pdu)] = crc \div 256
    BY <1>2, SerializedParts
  <1>4. Len(bytes) = n + 2
    BY <1>3 DEF kMinFrameSize
  <1>5. \A j \in 1 .. n : body[j] = whole[j]
    BY <1>1, <1>3, <1>4
  <1>6. /\ damagedBody \in Seq(Byte) /\ Len(damagedBody) = n
        /\ \A j \in 1 .. n : damagedBody[j] = bytes[j]
    BY <1>1, <1>4
  <1>7. whole[n + 1] = crc % 256 /\ whole[n + 2] = crc \div 256
    BY <1>1, <1>3
  <1>8. damagedCrc \in Word
    BY <1>6, CrcIsWord
  <1>9. bytes[n + 1] \in Byte /\ bytes[n + 2] \in Byte
    BY <1>1, <1>4
  <1>10. SUFFICES ASSUME damagedCrc = bytes[n + 1] + 256 * bytes[n + 2]
                  PROVE  FALSE
    <2>1. /\ Len(bytes) - kMinFrameSize = Len(pdu)
          /\ ~ (Len(bytes) < kMinFrameSize)
          /\ ~ (Len(pdu) > kMaxPduSize)
      BY <1>1, <1>4 DEF kMinFrameSize, kMaxPduSize
    <2>2. 2 + Len(pdu) = n + 1 /\ 3 + Len(pdu) = n + 2
      BY <1>1
    <2> HIDE DEF n
    <2> QED
      BY <1>10, <2>1, <2>2 DEF Deserialize, NoFrame
  <1> HIDE DEF n, body, damagedBody
  <1>11. damagedCrc % 256 = bytes[n + 1] /\ damagedCrc \div 256 = bytes[n + 2]
    BY <1>9, <1>10, BytesOfWord
  <1>12. \A j \in 1 .. n + 2 : j = i \/ j = i + 1 \/ bytes[j] = whole[j]
    BY <1>4 DEF SameBeside
  <1>13. CASE i > n
    <2>1. \A j \in 1 .. n : j # i /\ j # i + 1 /\ j \in 1 .. n + 2
      BY <1>1, <1>4, <1>13
    <2>2. \A j \in 1 .. n : damagedBody[j] = body[j]
      BY <1>5, <1>6, <1>12, <2>1
    <2>3. damagedBody = body
      BY <1>1, <1>6, <2>2, SeqEqual
    <2>4. bytes[n + 1] = whole[n + 1] /\ bytes[n + 2] = whole[n + 2]
      BY <1>7, <1>11, <2>3
    <2>5. i = n + 1 \/ i = n + 2
      BY <1>1, <1>4, <1>13
    <2> QED
      BY <2>4, <2>5
  <1>14. CASE i <= n
    <2>1. i \in 1 .. n
      BY <1>1, <1>4, <1>14
    <2>2. damagedBody[i] # body[i]
      BY <1>5, <1>6, <2>1
    <2>3. SameBeside(damagedBody, body, n, i)
      <3>1. ASSUME NEW j \in 1 .. n, j \notin {i, i + 1}
            PROVE  damagedBody[j] = body[j]
        <4>1. j \in 1 .. n + 2
          BY <1>1
        <4>2. bytes[j] = whole[j]
          BY <1>12, <3>1, <4>1
        <4>3. damagedBody[j] = bytes[j]
          BY <1>6, <3>1, Zenon
        <4>4. body[j] = whole[j]
          BY <1>5, <3>1, Zenon
        <4> QED
          BY <4>2, <4>3, <4>4, Zenon
      <3> QED
        BY <3>1, Zenon DEF SameBeside
    <2>4. crc # damagedCrc /\ (i = n => crc \div 256 # damagedCrc \div 256)
      <3>1. /\ damagedBody \in Seq(Byte) /\ body \in Seq(Byte)
            /\ Len(damagedBody) = Len(body) /\ Len(damagedBody) = n
        BY <1>1, <1>6, Zenon
      <3>2. i \in 1 .. Len(damagedBody) /\ SameBeside(damagedBody, body, Len(damagedBody), i)
        BY <2>1, <2>3, <3>1, Zenon
      <3>3. /\ damagedCrc # crc
            /\ i = Len(damagedBody) => damagedCrc \div 256 # crc \div 256
        BY <2>2, <3>1, <3>2, DamageShows, Zenon
      <3> QED
        BY <3>1, <3>3, Zenon
    <2>5. n + 2 \in 1 .. n + 2 /\ n + 2 # i /\ n + 2 # i + 1
      BY <1>1, <2>1
    <2>6. bytes[n + 2] = whole[n + 2]
      BY <1>12, <2>5
    <2>7. i # n
      BY <1>7, <1>11, <2>4, <2>6
    <2>8. n + 1 \in 1 .. n + 2 /\ n + 1 # i /\ n + 1 # i + 1
      BY <1>1, <2>1, <2>7
    <2>9. bytes[n + 1] = whole[n + 1]
      BY <1>12, <2>8
    <2>10. crc % 256 = damagedCrc % 256 /\ crc \div 256 = damagedCrc \div 256
      BY <1>7, <1>11, <2>6, <2>9
    <2>11. crc = damagedCrc
      BY <1>2, <1>8, <2>10, TwoBytes
    <2> QED
      BY <2>4, <2>11
  <1> QED
    BY <1>1, <1>4, <1>13, <1>14
----------------------------------------------------------------------------
(***************************************************************************)
(* The CRC of the frame in rtu_frame_test.cpp, from the entries of the     *)
(* table for single bits.                                                  *)
(***************************************************************************)

\* A register whose lowest bit is clear only moves down; one whose lowest bit is
\* set has the polynomial added.
LEMMA ShiftEven ==
  ASSUME NEW c \in SUBSET Bit, 1 \notin c
  PROVE  ShiftOut(c) = {i \in Bit : i + 1 \in c}
BY DEF ShiftOut

LEMMA ShiftOdd ==
  ASSUME NEW c \in SUBSET Bit, 1 \in c
  PROVE  ShiftOut(c) = SymDiff({i \in Bit : i + 1 \in c}, {1, 14, 16})
BY ReflectedIs DEF ShiftOut

\* An entry of the table is its byte shifted out.
LEMMA TableShifts ==
  ASSUME NEW x \in SUBSET LowBit
  PROVE  Table[x] = Shifted8(x)
BY Zenon DEF Table, Shifted8

\* A bit moves down until it goes out at the end.
LEMMA BitShifts ==
  /\ ShiftOut({8}) = {7} /\ ShiftOut({7}) = {6} /\ ShiftOut({6}) = {5} /\ ShiftOut({5}) = {4}
  /\ ShiftOut({4}) = {3} /\ ShiftOut({3}) = {2} /\ ShiftOut({2}) = {1}
  /\ ShiftOut({1}) = {1, 14, 16}
<1>1. \A k \in 1 .. 7 : ShiftOut({k + 1}) = {k}
  <2> SUFFICES ASSUME NEW k \in 1 .. 7 PROVE ShiftOut({k + 1}) = {k}
    OBVIOUS
  <2>1. {k + 1} \in SUBSET Bit /\ 1 \notin {k + 1}
    BY DEF Bit
  <2>2. {i \in Bit : i + 1 \in {k + 1}} = {k}
    BY DEF Bit
  <2> QED
    BY <2>1, <2>2, ShiftEven
<1>2. ShiftOut({1}) = {1, 14, 16}
  <2>1. {1} \in SUBSET Bit /\ 1 \in {1}
    BY DEF Bit
  <2>2. {i \in Bit : i + 1 \in {1}} = {}
    BY DEF Bit
  <2>3. SymDiff({}, {1, 14, 16}) = {1, 14, 16}
    BY DEF SymDiff
  <2> QED
    BY <2>1, <2>2, <2>3, ShiftOdd
<1> QED
  BY <1>1, <1>2

\* The entries for single bits, the one for the highest first.
LEMMA TableBits ==
  /\ Table[{8}] = {1, 14, 16}
  /\ Table[{7}] = {1, 13, 14, 15, 16}
  /\ Table[{6}] = {1, 12, 13, 15, 16}
  /\ Table[{5}] = {1, 11, 12, 15, 16}
  /\ Table[{4}] = {1, 10, 11, 15, 16}
  /\ Table[{3}] = {1, 9, 10, 15, 16}
  /\ Table[{2}] = {1, 8, 9, 15, 16}
  /\ Table[{1}] = {1, 7, 8, 15, 16}
<1>1. \A k \in LowBit : {k} \in SUBSET LowBit
  OBVIOUS
<1>2. ShiftOut({1, 14, 16}) = {1, 13, 14, 15, 16}
  <2>1. {1, 14, 16} \in SUBSET Bit /\ 1 \in {1, 14, 16}
    BY DEF Bit
  <2>2. {i \in Bit : i + 1 \in {1, 14, 16}} = {13, 15}
    BY DEF Bit
  <2>3. SymDiff({13, 15}, {1, 14, 16}) = {1, 13, 14, 15, 16}
    BY DEF SymDiff
  <2> QED
    BY <2>1, <2>2, <2>3, ShiftOdd
<1>3. ShiftOut({1, 13, 14, 15, 16}) = {1, 12, 13, 15, 16}
  <2>1. {1, 13, 14, 15, 16} \in SUBSET Bit /\ 1 \in {1, 13, 14, 15, 16}
    BY DEF Bit
  <2>2. {i \in Bit : i + 1 \in {1, 13, 14, 15, 16}} = {12, 13, 14, 15}
    BY DEF Bit
  <2>3. SymDiff({12, 13, 14, 15}, {1, 14, 16}) = {1, 12, 13, 15, 16}
    BY DEF SymDiff
  <2> QED
    BY <2>1, <2>2, <2>3, ShiftOdd
<1>4. ShiftOut({1, 12, 13, 15, 16}) = {1, 11, 12, 15, 16}
  <2>1. {1, 12, 13, 15, 16} \in SUBSET Bit /\ 1 \in {1, 12, 13, 15, 16}
    BY DEF Bit
  <2>2. {i \in Bit : i + 1 \in {1, 12, 13, 15, 16}} = {11, 12, 14, 15}
    BY DEF Bit
  <2>3. SymDiff({11, 12, 14, 15}, {1, 14, 16}) = {1, 11, 12, 15, 16}
    BY DEF SymDiff
  <2> QED
    BY <2>1, <2>2, <2>3, ShiftOdd
<1>5. ShiftOut({1, 11, 12, 15, 16}) = {1, 10, 11, 15, 16}
  <2>1. {1, 11, 12, 15, 16} \in SUBSET Bit /\ 1 \in {1, 11, 12, 15, 16}
    BY DEF Bit
  <2>2. {i \in Bit : i + 1 \in {1, 11, 12, 15, 16}} = {10, 11, 14, 15}
    BY DEF Bit
  <2>3. SymDiff({10, 11, 14, 15}, {1, 14, 16}) = {1, 10, 11, 15, 16}
    BY DEF SymDiff
  <2> QED
    BY <2>1, <2>2, <2>3, ShiftOdd
<1>6. ShiftOut({1, 10, 11, 15, 16}) = {1, 9, 10, 15, 16}
  <2>1. {1, 10, 11, 15, 16} \in SUBSET Bit /\ 1 \in {1, 10, 11, 15, 16}
    BY DEF Bit
  <2>2. {i \in Bit : i + 1 \in {1, 10, 11, 15, 16}} = {9, 10, 14, 15}
    BY DEF Bit
  <2>3. SymDiff({9, 10, 14, 15}, {1, 14, 16}) = {1, 9, 10, 15, 16}
    BY DEF SymDiff
  <2> QED
    BY <2>1, <2>2, <2>3, ShiftOdd
<1>7. ShiftOut({1, 9, 10, 15, 16}) = {1, 8, 9, 15, 16}
  <2>1. {1, 9, 10, 15, 16} \in SUBSET Bit /\ 1 \in {1, 9, 10, 15, 16}
    BY DEF Bit
  <2>2. {i \in Bit : i + 1 \in {1, 9, 10, 15, 16}} = {8, 9, 14, 15}
    BY DEF Bit
  <2>3. SymDiff({8, 9, 14, 15}, {1, 14, 16}) = {1, 8, 9, 15, 16}
    BY DEF SymDiff
  <2> QED
    BY <2>1, <2>2, <2>3, ShiftOdd
<1>8. ShiftOut({1, 8, 9, 15, 16}) = {1, 7, 8, 15, 16}
  <2>1. {1, 8, 9, 15, 16} \in SUBSET Bit /\ 1 \in {1, 8, 9, 15, 16}
    BY DEF Bit
  <2>2. {i \in Bit : i + 1 \in {1, 8, 9, 15, 16}} = {7, 8, 14, 15}
    BY DEF Bit
  <2>3. SymDiff({7, 8, 14, 15}, {1, 14, 16}) = {1, 7, 8, 15, 16}
    BY DEF SymDiff
  <2> QED
    BY <2>1, <2>2, <2>3, ShiftOdd
<1>9. \A k \in LowBit : Table[{k}] = Shifted8({k})
  BY <1>1, TableShifts
<1> DEFINE S ==
      <<{8}, {7}, {6}, {5}, {4}, {3}, {2}, {1},
        {1, 14, 16}, {1, 13, 14, 15, 16}, {1, 12, 13, 15, 16}, {1, 11, 12, 15, 16},
        {1, 10, 11, 15, 16}, {1, 9, 10, 15, 16}, {1, 8, 9, 15, 16}, {1, 7, 8, 15, 16}>>
<1>10. /\ S[1] = {8} /\ S[2] = {7} /\ S[3] = {6} /\ S[4] = {5}
      /\ S[5] = {4} /\ S[6] = {3} /\ S[7] = {2} /\ S[8] = {1}
  OBVIOUS
<1>11. /\ S[9] = {1, 14, 16} /\ S[10] = {1, 13, 14, 15, 16} /\ S[11] = {1, 12, 13, 15, 16} /\ S[12] = {1, 11, 12, 15, 16}
      /\ S[13] = {1, 10, 11, 15, 16} /\ S[14] = {1, 9, 10, 15, 16} /\ S[15] = {1, 8, 9, 15, 16} /\ S[16] = {1, 7, 8, 15, 16}
  OBVIOUS
<1> HIDE DEF S
<1>12. \A j \in 1 .. 15 : ShiftOut(S[j]) = S[j + 1]
  <2>1. /\ ShiftOut(S[1]) = S[2] /\ ShiftOut(S[2]) = S[3] /\ ShiftOut(S[3]) = S[4]
        /\ ShiftOut(S[4]) = S[5] /\ ShiftOut(S[5]) = S[6] /\ ShiftOut(S[6]) = S[7]
        /\ ShiftOut(S[7]) = S[8] /\ ShiftOut(S[8]) = S[9]
    BY <1>10, <1>11, BitShifts, Zenon
  <2>2. /\ ShiftOut(S[9]) = S[10] /\ ShiftOut(S[10]) = S[11] /\ ShiftOut(S[11]) = S[12]
        /\ ShiftOut(S[12]) = S[13] /\ ShiftOut(S[13]) = S[14] /\ ShiftOut(S[14]) = S[15]
        /\ ShiftOut(S[15]) = S[16]
    BY <1>2, <1>3, <1>4, <1>5, <1>6, <1>7, <1>8, <1>11, Zenon
  <2> QED
    BY <2>1, <2>2
<1>13. \A j \in 1 .. 8 : Shifted8(S[j]) = S[j + 8]
  <2> SUFFICES ASSUME NEW j \in 1 .. 8 PROVE Shifted8(S[j]) = S[j + 8]
    OBVIOUS
  <2>1. /\ ShiftOut(S[j]) = S[j + 1] /\ ShiftOut(S[j + 1]) = S[j + 2]
        /\ ShiftOut(S[j + 2]) = S[j + 3] /\ ShiftOut(S[j + 3]) = S[j + 4]
        /\ ShiftOut(S[j + 4]) = S[j + 5] /\ ShiftOut(S[j + 5]) = S[j + 6]
        /\ ShiftOut(S[j + 6]) = S[j + 7] /\ ShiftOut(S[j + 7]) = S[j + 8]
    BY <1>12
  <2> QED
    BY <2>1 DEF Shifted8
<1>14. \A j \in 1 .. 8 : S[j] = {9 - j} /\ 9 - j \in LowBit
  BY <1>10 DEF LowBit
<1>15. \A j \in 1 .. 8 : Table[{9 - j}] = S[j + 8]
  BY <1>9, <1>13, <1>14, Zenon
<1>16. /\ Table[{8}] = S[9] /\ Table[{7}] = S[10] /\ Table[{6}] = S[11] /\ Table[{5}] = S[12]
      /\ Table[{4}] = S[13] /\ Table[{3}] = S[14] /\ Table[{2}] = S[15] /\ Table[{1}] = S[16]
  BY <1>15
<1> QED
  BY <1>11, <1>16, Zenon

\* One bit more.
LEMMA TableAdd ==
  ASSUME NEW x \in SUBSET LowBit, NEW k \in LowBit \ x
  PROVE  Table[x \cup {k}] = SymDiff(Table[x], Table[{k}])
<1>1. x \cup {k} = SymDiff(x, {k}) /\ {k} \in SUBSET LowBit /\ x \cup {k} \in SUBSET LowBit
  BY DEF SymDiff
<1>2. x \in SUBSET Bit /\ {k} \in SUBSET Bit
  BY <1>1, BitHalves
<1> QED
  BY <1>1, <1>2, TableShifts, EightOfSum

\* The register after each of the frame's six bytes 17, 3, 0, 107, 0, 3.
LEMMA StandardStep1 == ProcessByte(Bit, 17) = {1, 2, 3, 4, 5, 6, 7, 11, 12, 15}
<1>1. Looked(Bit, 17) = {2, 3, 4, 6, 7, 8}
  <2>1. BitsOf(17) = {1, 5}
    BY Weights DEF BitsOf, LowBit
  <2>2. SymDiff(Bit \cap LowBit, {1, 5}) = {2, 3, 4, 6, 7, 8}
    BY DEF SymDiff, LowBit, Bit
  <2> QED
    BY <2>1, <2>2 DEF Looked
<1>2. {i \in Bit : i + 8 \in Bit} = {1, 2, 3, 4, 5, 6, 7, 8}
  BY DEF Bit
<1>3. Table[{2, 3}] = {8, 10}
  <2>1. {2} \in SUBSET LowBit /\ 3 \in LowBit \ {2} /\ {2} \cup {3} = {2, 3}
    BY DEF LowBit
  <2>2. SymDiff({1, 8, 9, 15, 16}, {1, 9, 10, 15, 16}) = {8, 10}
    BY DEF SymDiff
  <2>3. Table[{2} \cup {3}] = SymDiff(Table[{2}], Table[{3}])
    BY <2>1, TableAdd
  <2> QED
    BY TableBits, <2>1, <2>2, <2>3, Zenon
<1>4. Table[{2, 3, 4}] = {1, 8, 11, 15, 16}
  <2>1. {2, 3} \in SUBSET LowBit /\ 4 \in LowBit \ {2, 3} /\ {2, 3} \cup {4} = {2, 3, 4}
    BY DEF LowBit
  <2>2. SymDiff({8, 10}, {1, 10, 11, 15, 16}) = {1, 8, 11, 15, 16}
    BY DEF SymDiff
  <2>3. Table[{2, 3} \cup {4}] = SymDiff(Table[{2, 3}], Table[{4}])
    BY <2>1, TableAdd
  <2> QED
    BY <1>3, TableBits, <2>1, <2>2, <2>3, Zenon
<1>5. Table[{2, 3, 4, 6}] = {8, 11, 12, 13}
  <2>1. {2, 3, 4} \in SUBSET LowBit /\ 6 \in LowBit \ {2, 3, 4} /\ {2, 3, 4} \cup {6} = {2, 3, 4, 6}
    BY DEF LowBit
  <2>2. SymDiff({1, 8, 11, 15, 16}, {1, 12, 13, 15, 16}) = {8, 11, 12, 13}
    BY DEF SymDiff
  <2>3. Table[{2, 3, 4} \cup {6}] = SymDiff(Table[{2, 3, 4}], Table[{6}])
    BY <2>1, TableAdd
  <2> QED
    BY <1>4, TableBits, <2>1, <2>2, <2>3, Zenon
<1>6. Table[{2, 3, 4, 6, 7}] = {1, 8, 11, 12, 14, 15, 16}
  <2>1. {2, 3, 4, 6} \in SUBSET LowBit /\ 7 \in LowBit \ {2, 3, 4, 6} /\ {2, 3, 4, 6} \cup {7} = {2, 3, 4, 6, 7}
    BY DEF LowBit
  <2>2. SymDiff({8, 11, 12, 13}, {1, 13, 14, 15, 16}) = {1, 8, 11, 12, 14, 15, 16}
    BY DEF SymDiff
  <2>3. Table[{2, 3, 4, 6} \cup {7}] = SymDiff(Table[{2, 3, 4, 6}], Table[{7}])
    BY <2>1, TableAdd
  <2> QED
    BY <1>5, TableBits, <2>1, <2>2, <2>3, Zenon
<1>7. Table[{2, 3, 4, 6, 7, 8}] = {8, 11, 12, 15}
  <2>1. {2, 3, 4, 6, 7} \in SUBSET LowBit /\ 8 \in LowBit \ {2, 3, 4, 6, 7} /\ {2, 3, 4, 6, 7} \cup {8} = {2, 3, 4, 6, 7, 8}
    BY DEF LowBit
  <2>2. SymDiff({1, 8, 11, 12, 14, 15, 16}, {1, 14, 16}) = {8, 11, 12, 15}
    BY DEF SymDiff
  <2>3. Table[{2, 3, 4, 6, 7} \cup {8}] = SymDiff(Table[{2, 3, 4, 6, 7}], Table[{8}])
    BY <2>1, TableAdd
  <2> QED
    BY <1>6, TableBits, <2>1, <2>2, <2>3, Zenon
<1>8. SymDiff({1, 2, 3, 4, 5, 6, 7, 8}, {8, 11, 12, 15}) = {1, 2, 3, 4, 5, 6, 7, 11, 12, 15}
  BY DEF SymDiff
<1> QED
  BY <1>1, <1>2, <1>7, <1>8, Zenon DEF ProcessByte, Looked

LEMMA StandardStep2 == ProcessByte({1, 2, 3, 4, 5, 6, 7, 11, 12, 15}, 3) = {1, 3, 4, 7, 9, 14, 15, 16}
<1>1. Looked({1, 2, 3, 4, 5, 6, 7, 11, 12, 15}, 3) = {3, 4, 5, 6, 7}
  <2>1. BitsOf(3) = {1, 2}
    BY Weights DEF BitsOf, LowBit
  <2>2. SymDiff({1, 2, 3, 4, 5, 6, 7, 11, 12, 15} \cap LowBit, {1, 2}) = {3, 4, 5, 6, 7}
    BY DEF SymDiff, LowBit, Bit
  <2> QED
    BY <2>1, <2>2 DEF Looked
<1>2. {i \in Bit : i + 8 \in {1, 2, 3, 4, 5, 6, 7, 11, 12, 15}} = {3, 4, 7}
  BY DEF Bit
<1>3. Table[{3, 4}] = {9, 11}
  <2>1. {3} \in SUBSET LowBit /\ 4 \in LowBit \ {3} /\ {3} \cup {4} = {3, 4}
    BY DEF LowBit
  <2>2. SymDiff({1, 9, 10, 15, 16}, {1, 10, 11, 15, 16}) = {9, 11}
    BY DEF SymDiff
  <2>3. Table[{3} \cup {4}] = SymDiff(Table[{3}], Table[{4}])
    BY <2>1, TableAdd
  <2> QED
    BY TableBits, <2>1, <2>2, <2>3, Zenon
<1>4. Table[{3, 4, 5}] = {1, 9, 12, 15, 16}
  <2>1. {3, 4} \in SUBSET LowBit /\ 5 \in LowBit \ {3, 4} /\ {3, 4} \cup {5} = {3, 4, 5}
    BY DEF LowBit
  <2>2. SymDiff({9, 11}, {1, 11, 12, 15, 16}) = {1, 9, 12, 15, 16}
    BY DEF SymDiff
  <2>3. Table[{3, 4} \cup {5}] = SymDiff(Table[{3, 4}], Table[{5}])
    BY <2>1, TableAdd
  <2> QED
    BY <1>3, TableBits, <2>1, <2>2, <2>3, Zenon
<1>5. Table[{3, 4, 5, 6}] = {9, 13}
  <2>1. {3, 4, 5} \in SUBSET LowBit /\ 6 \in LowBit \ {3, 4, 5} /\ {3, 4, 5} \cup {6} = {3, 4, 5, 6}
    BY DEF LowBit
  <2>2. SymDiff({1, 9, 12, 15, 16}, {1, 12, 13, 15, 16}) = {9, 13}
    BY DEF SymDiff
  <2>3. Table[{3, 4, 5} \cup {6}] = SymDiff(Table[{3, 4, 5}], Table[{6}])
    BY <2>1, TableAdd
  <2> QED
    BY <1>4, TableBits, <2>1, <2>2, <2>3, Zenon
<1>6. Table[{3, 4, 5, 6, 7}] = {1, 9, 14, 15, 16}
  <2>1. {3, 4, 5, 6} \in SUBSET LowBit /\ 7 \in LowBit \ {3, 4, 5, 6} /\ {3, 4, 5, 6} \cup {7} = {3, 4, 5, 6, 7}
    BY DEF LowBit
  <2>2. SymDiff({9, 13}, {1, 13, 14, 15, 16}) = {1, 9, 14, 15, 16}
    BY DEF SymDiff
  <2>3. Table[{3, 4, 5, 6} \cup {7}] = SymDiff(Table[{3, 4, 5, 6}], Table[{7}])
    BY <2>1, TableAdd
  <2> QED
    BY <1>5, TableBits, <2>1, <2>2, <2>3, Zenon
<1>7. SymDiff({3, 4, 7}, {1, 9, 14, 15, 16}) = {1, 3, 4, 7, 9, 14, 15, 16}
  BY DEF SymDiff
<1> QED
  BY <1>1, <1>2, <1>6, <1>7, Zenon DEF ProcessByte, Looked

LEMMA StandardStep3 == ProcessByte({1, 3, 4, 7, 9, 14, 15, 16}, 0) = {1, 6, 9, 11, 13, 14}
<1>1. Looked({1, 3, 4, 7, 9, 14, 15, 16}, 0) = {1, 3, 4, 7}
  <2>1. BitsOf(0) = {}
    BY Weights DEF BitsOf, LowBit
  <2>2. SymDiff({1, 3, 4, 7, 9, 14, 15, 16} \cap LowBit, {}) = {1, 3, 4, 7}
    BY DEF SymDiff, LowBit, Bit
  <2> QED
    BY <2>1, <2>2 DEF Looked
<1>2. {i \in Bit : i + 8 \in {1, 3, 4, 7, 9, 14, 15, 16}} = {1, 6, 7, 8}
  BY DEF Bit
<1>3. Table[{1, 3}] = {7, 8, 9, 10}
  <2>1. {1} \in SUBSET LowBit /\ 3 \in LowBit \ {1} /\ {1} \cup {3} = {1, 3}
    BY DEF LowBit
  <2>2. SymDiff({1, 7, 8, 15, 16}, {1, 9, 10, 15, 16}) = {7, 8, 9, 10}
    BY DEF SymDiff
  <2>3. Table[{1} \cup {3}] = SymDiff(Table[{1}], Table[{3}])
    BY <2>1, TableAdd
  <2> QED
    BY TableBits, <2>1, <2>2, <2>3, Zenon
<1>4. Table[{1, 3, 4}] = {1, 7, 8, 9, 11, 15, 16}
  <2>1. {1, 3} \in SUBSET LowBit /\ 4 \in LowBit \ {1, 3} /\ {1, 3} \cup {4} = {1, 3, 4}
    BY DEF LowBit
  <2>2. SymDiff({7, 8, 9, 10}, {1, 10, 11, 15, 16}) = {1, 7, 8, 9, 11, 15, 16}
    BY DEF SymDiff
  <2>3. Table[{1, 3} \cup {4}] = SymDiff(Table[{1, 3}], Table[{4}])
    BY <2>1, TableAdd
  <2> QED
    BY <1>3, TableBits, <2>1, <2>2, <2>3, Zenon
<1>5. Table[{1, 3, 4, 7}] = {7, 8, 9, 11, 13, 14}
  <2>1. {1, 3, 4} \in SUBSET LowBit /\ 7 \in LowBit \ {1, 3, 4} /\ {1, 3, 4} \cup {7} = {1, 3, 4, 7}
    BY DEF LowBit
  <2>2. SymDiff({1, 7, 8, 9, 11, 15, 16}, {1, 13, 14, 15, 16}) = {7, 8, 9, 11, 13, 14}
    BY DEF SymDiff
  <2>3. Table[{1, 3, 4} \cup {7}] = SymDiff(Table[{1, 3, 4}], Table[{7}])
    BY <2>1, TableAdd
  <2> QED
    BY <1>4, TableBits, <2>1, <2>2, <2>3, Zenon
<1>6. SymDiff({1, 6, 7, 8}, {7, 8, 9, 11, 13, 14}) = {1, 6, 9, 11, 13, 14}
  BY DEF SymDiff
<1> QED
  BY <1>1, <1>2, <1>5, <1>6, Zenon DEF ProcessByte, Looked

LEMMA StandardStep4 == ProcessByte({1, 6, 9, 11, 13, 14}, 107) = {3, 5, 6, 8, 9, 10, 11, 13, 14, 15, 16}
<1>1. Looked({1, 6, 9, 11, 13, 14}, 107) = {2, 4, 7}
  <2>1. BitsOf(107) = {1, 2, 4, 6, 7}
    BY Weights DEF BitsOf, LowBit
  <2>2. SymDiff({1, 6, 9, 11, 13, 14} \cap LowBit, {1, 2, 4, 6, 7}) = {2, 4, 7}
    BY DEF SymDiff, LowBit, Bit
  <2> QED
    BY <2>1, <2>2 DEF Looked
<1>2. {i \in Bit : i + 8 \in {1, 6, 9, 11, 13, 14}} = {1, 3, 5, 6}
  BY DEF Bit
<1>3. Table[{2, 4}] = {8, 9, 10, 11}
  <2>1. {2} \in SUBSET LowBit /\ 4 \in LowBit \ {2} /\ {2} \cup {4} = {2, 4}
    BY DEF LowBit
  <2>2. SymDiff({1, 8, 9, 15, 16}, {1, 10, 11, 15, 16}) = {8, 9, 10, 11}
    BY DEF SymDiff
  <2>3. Table[{2} \cup {4}] = SymDiff(Table[{2}], Table[{4}])
    BY <2>1, TableAdd
  <2> QED
    BY TableBits, <2>1, <2>2, <2>3, Zenon
<1>4. Table[{2, 4, 7}] = {1, 8, 9, 10, 11, 13, 14, 15, 16}
  <2>1. {2, 4} \in SUBSET LowBit /\ 7 \in LowBit \ {2, 4} /\ {2, 4} \cup {7} = {2, 4, 7}
    BY DEF LowBit
  <2>2. SymDiff({8, 9, 10, 11}, {1, 13, 14, 15, 16}) = {1, 8, 9, 10, 11, 13, 14, 15, 16}
    BY DEF SymDiff
  <2>3. Table[{2, 4} \cup {7}] = SymDiff(Table[{2, 4}], Table[{7}])
    BY <2>1, TableAdd
  <2> QED
    BY <1>3, TableBits, <2>1, <2>2, <2>3, Zenon
<1>5. SymDiff({1, 3, 5, 6}, {1, 8, 9, 10, 11, 13, 14, 15, 16}) = {3, 5, 6, 8, 9, 10, 11, 13, 14, 15, 16}
  BY DEF SymDiff
<1> QED
  BY <1>1, <1>2, <1>4, <1>5, Zenon DEF ProcessByte, Looked

LEMMA StandardStep5 == ProcessByte({3, 5, 6, 8, 9, 10, 11, 13, 14, 15, 16}, 0) = {1, 2, 3, 5, 6, 7, 8, 9, 10, 11, 13, 14, 15}
<1>1. Looked({3, 5, 6, 8, 9, 10, 11, 13, 14, 15, 16}, 0) = {3, 5, 6, 8}
  <2>1. BitsOf(0) = {}
    BY Weights DEF BitsOf, LowBit
  <2>2. SymDiff({3, 5, 6, 8, 9, 10, 11, 13, 14, 15, 16} \cap LowBit, {}) = {3, 5, 6, 8}
    BY DEF SymDiff, LowBit, Bit
  <2> QED
    BY <2>1, <2>2 DEF Looked
<1>2. {i \in Bit : i + 8 \in {3, 5, 6, 8, 9, 10, 11, 13, 14, 15, 16}} = {1, 2, 3, 5, 6, 7, 8}
  BY DEF Bit
<1>3. Table[{3, 5}] = {9, 10, 11, 12}
  <2>1. {3} \in SUBSET LowBit /\ 5 \in LowBit \ {3} /\ {3} \cup {5} = {3, 5}
    BY DEF LowBit
  <2>2. SymDiff({1, 9, 10, 15, 16}, {1, 11, 12, 15, 16}) = {9, 10, 11, 12}
    BY DEF SymDiff
  <2>3. Table[{3} \cup {5}] = SymDiff(Table[{3}], Table[{5}])
    BY <2>1, TableAdd
  <2> QED
    BY TableBits, <2>1, <2>2, <2>3, Zenon
<1>4. Table[{3, 5, 6}] = {1, 9, 10, 11, 13, 15, 16}
  <2>1. {3, 5} \in SUBSET LowBit /\ 6 \in LowBit \ {3, 5} /\ {3, 5} \cup {6} = {3, 5, 6}
    BY DEF LowBit
  <2>2. SymDiff({9, 10, 11, 12}, {1, 12, 13, 15, 16}) = {1, 9, 10, 11, 13, 15, 16}
    BY DEF SymDiff
  <2>3. Table[{3, 5} \cup {6}] = SymDiff(Table[{3, 5}], Table[{6}])
    BY <2>1, TableAdd
  <2> QED
    BY <1>3, TableBits, <2>1, <2>2, <2>3, Zenon
<1>5. Table[{3, 5, 6, 8}] = {9, 10, 11, 13, 14, 15}
  <2>1. {3, 5, 6} \in SUBSET LowBit /\ 8 \in LowBit \ {3, 5, 6} /\ {3, 5, 6} \cup {8} = {3, 5, 6, 8}
    BY DEF LowBit
  <2>2. SymDiff({1, 9, 10, 11, 13, 15, 16}, {1, 14, 16}) = {9, 10, 11, 13, 14, 15}
    BY DEF SymDiff
  <2>3. Table[{3, 5, 6} \cup {8}] = SymDiff(Table[{3, 5, 6}], Table[{8}])
    BY <2>1, TableAdd
  <2> QED
    BY <1>4, TableBits, <2>1, <2>2, <2>3, Zenon
<1>6. SymDiff({1, 2, 3, 5, 6, 7, 8}, {9, 10, 11, 13, 14, 15}) = {1, 2, 3, 5, 6, 7, 8, 9, 10, 11, 13, 14, 15}
  BY DEF SymDiff
<1> QED
  BY <1>1, <1>2, <1>5, <1>6, Zenon DEF ProcessByte, Looked

LEMMA StandardStep6 == ProcessByte({1, 2, 3, 5, 6, 7, 8, 9, 10, 11, 13, 14, 15}, 3) = {2, 3, 5, 6, 7, 9, 10, 11, 16}
<1>1. Looked({1, 2, 3, 5, 6, 7, 8, 9, 10, 11, 13, 14, 15}, 3) = {3, 5, 6, 7, 8}
  <2>1. BitsOf(3) = {1, 2}
    BY Weights DEF BitsOf, LowBit
  <2>2. SymDiff({1, 2, 3, 5, 6, 7, 8, 9, 10, 11, 13, 14, 15} \cap LowBit, {1, 2}) = {3, 5, 6, 7, 8}
    BY DEF SymDiff, LowBit, Bit
  <2> QED
    BY <2>1, <2>2 DEF Looked
<1>2. {i \in Bit : i + 8 \in {1, 2, 3, 5, 6, 7, 8, 9, 10, 11, 13, 14, 15}} = {1, 2, 3, 5, 6, 7}
  BY DEF Bit
<1>3. Table[{3, 5}] = {9, 10, 11, 12}
  <2>1. {3} \in SUBSET LowBit /\ 5 \in LowBit \ {3} /\ {3} \cup {5} = {3, 5}
    BY DEF LowBit
  <2>2. SymDiff({1, 9, 10, 15, 16}, {1, 11, 12, 15, 16}) = {9, 10, 11, 12}
    BY DEF SymDiff
  <2>3. Table[{3} \cup {5}] = SymDiff(Table[{3}], Table[{5}])
    BY <2>1, TableAdd
  <2> QED
    BY TableBits, <2>1, <2>2, <2>3, Zenon
<1>4. Table[{3, 5, 6}] = {1, 9, 10, 11, 13, 15, 16}
  <2>1. {3, 5} \in SUBSET LowBit /\ 6 \in LowBit \ {3, 5} /\ {3, 5} \cup {6} = {3, 5, 6}
    BY DEF LowBit
  <2>2. SymDiff({9, 10, 11, 12}, {1, 12, 13, 15, 16}) = {1, 9, 10, 11, 13, 15, 16}
    BY DEF SymDiff
  <2>3. Table[{3, 5} \cup {6}] = SymDiff(Table[{3, 5}], Table[{6}])
    BY <2>1, TableAdd
  <2> QED
    BY <1>3, TableBits, <2>1, <2>2, <2>3, Zenon
<1>5. Table[{3, 5, 6, 7}] = {9, 10, 11, 14}
  <2>1. {3, 5, 6} \in SUBSET LowBit /\ 7 \in LowBit \ {3, 5, 6} /\ {3, 5, 6} \cup {7} = {3, 5, 6, 7}
    BY DEF LowBit
  <2>2. SymDiff({1, 9, 10, 11, 13, 15, 16}, {1, 13, 14, 15, 16}) = {9, 10, 11, 14}
    BY DEF SymDiff
  <2>3. Table[{3, 5, 6} \cup {7}] = SymDiff(Table[{3, 5, 6}], Table[{7}])
    BY <2>1, TableAdd
  <2> QED
    BY <1>4, TableBits, <2>1, <2>2, <2>3, Zenon
<1>6. Table[{3, 5, 6, 7, 8}] = {1, 9, 10, 11, 16}
  <2>1. {3, 5, 6, 7} \in SUBSET LowBit /\ 8 \in LowBit \ {3, 5, 6, 7} /\ {3, 5, 6, 7} \cup {8} = {3, 5, 6, 7, 8}
    BY DEF LowBit
  <2>2. SymDiff({9, 10, 11, 14}, {1, 14, 16}) = {1, 9, 10, 11, 16}
    BY DEF SymDiff
  <2>3. Table[{3, 5, 6, 7} \cup {8}] = SymDiff(Table[{3, 5, 6, 7}], Table[{8}])
    BY <2>1, TableAdd
  <2> QED
    BY <1>5, TableBits, <2>1, <2>2, <2>3, Zenon
<1>7. SymDiff({1, 2, 3, 5, 6, 7}, {1, 9, 10, 11, 16}) = {2, 3, 5, 6, 7, 9, 10, 11, 16}
  BY DEF SymDiff
<1> QED
  BY <1>1, <1>2, <1>6, <1>7, Zenon DEF ProcessByte, Looked

\* The parts of two sequences one after the other.
LEMMA Joined ==
  ASSUME NEW a \in Seq(Byte), NEW b \in Seq(Byte)
  PROVE  /\ a \o b \in Seq(Byte)
         /\ Len(a \o b) = Len(a) + Len(b)
         /\ \A i \in 1 .. Len(a) : (a \o b)[i] = a[i]
         /\ \A i \in 1 .. Len(b) : (a \o b)[Len(a) + i] = b[i]
OBVIOUS

\* The test's frame as Serialize writes it: the CRC is 118 + 256 * 135.
LEMMA StandardBytes ==
  Serialized(Frame(17, <<3, 0, 107, 0, 3>>)) = <<17, 3, 0, 107, 0, 3, 118, 135>>
<1> DEFINE pdu == <<3, 0, 107, 0, 3>>
           first == <<17>>
           body == first \o pdu
<1>1. /\ pdu \in Seq(Byte) /\ Len(pdu) = 5
      /\ first \in Seq(Byte) /\ Len(first) = 1
  BY DEF Byte
<1>2. /\ pdu[1] = 3 /\ pdu[2] = 0 /\ pdu[3] = 107 /\ pdu[4] = 0 /\ pdu[5] = 3
      /\ first[1] = 17
  OBVIOUS
<1> HIDE DEF pdu, first
<1>3. /\ body \in Seq(Byte) /\ Len(body) = Len(first) + Len(pdu)
      /\ \A i \in 1 .. Len(first) : body[i] = first[i]
      /\ \A i \in 1 .. Len(pdu) : body[Len(first) + i] = pdu[i]
  BY <1>1, Joined
<1> HIDE DEF body
<1>4. body \in Seq(Byte) /\ Len(body) = 6
  BY <1>1, <1>3
<1>5. /\ body[0 + 1] = 17 /\ body[1 + 1] = 3 /\ body[2 + 1] = 0
      /\ body[3 + 1] = 107 /\ body[4 + 1] = 0 /\ body[5 + 1] = 3
  <2>1. /\ \A i \in 1 .. 1 : body[i] = first[i]
        /\ \A i \in 1 .. 5 : body[1 + i] = pdu[i]
    BY <1>1, <1>3
  <2> QED
    BY <1>2, <2>1
<1>6. After(body, 0) = Bit
  BY <1>4, RegisterSteps
<1>7. \A k \in Nat : k + 1 <= 6 => After(body, k + 1) = ProcessByte(After(body, k), body[k + 1])
  BY <1>4, RegisterSteps
<1>8. /\ 0 + 1 = 1 /\ 1 + 1 = 2 /\ 2 + 1 = 3 /\ 3 + 1 = 4 /\ 4 + 1 = 5 /\ 5 + 1 = 6
  OBVIOUS
<1>9. After(body, 1) = {1, 2, 3, 4, 5, 6, 7, 11, 12, 15}
  <2>1. After(body, 0 + 1) = ProcessByte(After(body, 0), body[0 + 1])
    BY <1>7
  <2> QED
    BY <2>1, <1>5, <1>8, <1>6, StandardStep1, Zenon
<1>10. After(body, 2) = {1, 3, 4, 7, 9, 14, 15, 16}
  <2>1. After(body, 1 + 1) = ProcessByte(After(body, 1), body[1 + 1])
    BY <1>7
  <2> QED
    BY <2>1, <1>5, <1>8, <1>9, StandardStep2, Zenon
<1>11. After(body, 3) = {1, 6, 9, 11, 13, 14}
  <2>1. After(body, 2 + 1) = ProcessByte(After(body, 2), body[2 + 1])
    BY <1>7
  <2> QED
    BY <2>1, <1>5, <1>8, <1>10, StandardStep3, Zenon
<1>12. After(body, 4) = {3, 5, 6, 8, 9, 10, 11, 13, 14, 15, 16}
  <2>1. After(body, 3 + 1) = ProcessByte(After(body, 3), body[3 + 1])
    BY <1>7
  <2> QED
    BY <2>1, <1>5, <1>8, <1>11, StandardStep4, Zenon
<1>13. After(body, 5) = {1, 2, 3, 5, 6, 7, 8, 9, 10, 11, 13, 14, 15}
  <2>1. After(body, 4 + 1) = ProcessByte(After(body, 4), body[4 + 1])
    BY <1>7
  <2> QED
    BY <2>1, <1>5, <1>8, <1>12, StandardStep5, Zenon
<1>14. After(body, 6) = {2, 3, 5, 6, 7, 9, 10, 11, 16}
  <2>1. After(body, 5 + 1) = ProcessByte(After(body, 5), body[5 + 1])
    BY <1>7
  <2> QED
    BY <2>1, <1>5, <1>8, <1>13, StandardStep6, Zenon
<1>15. CalcCrc(body) = NumberOf({2, 3, 5, 6, 7, 9, 10, 11, 16})
  <2>1. Register(body) = After(body, 6)
    BY <1>4, RegisterSteps
  <2> QED
    BY <2>1, <1>14, Zenon DEF CalcCrc
<1>16. Eight({2, 3, 5, 6, 7, 9, 10, 11, 16}, 0) = 118 /\ Eight({2, 3, 5, 6, 7, 9, 10, 11, 16}, 8) = 135
  BY Weights DEF Eight
<1>17. CalcCrc(body) % 256 = 118 /\ CalcCrc(body) \div 256 = 135
  BY <1>15, <1>16, NumberHalves
<1>18. body \o <<118, 135>> = <<17, 3, 0, 107, 0, 3, 118, 135>>
  <2> DEFINE whole == <<17, 3, 0, 107, 0, 3, 118, 135>>
             tail == <<118, 135>>
  <2>1. whole \in Seq(Byte) /\ Len(whole) = 8
    BY DEF Byte
  <2>2. tail \in Seq(Byte) /\ Len(tail) = 2 /\ tail[1] = 118 /\ tail[2] = 135
    BY DEF Byte
  <2>3. /\ whole[1] = 17 /\ whole[2] = 3 /\ whole[3] = 0 /\ whole[4] = 107
        /\ whole[5] = 0 /\ whole[6] = 3 /\ whole[7] = 118 /\ whole[8] = 135
    OBVIOUS
  <2> HIDE DEF whole, tail
  <2> DEFINE joined == body \o tail
  <2>4. /\ joined \in Seq(Byte) /\ Len(joined) = Len(body) + Len(tail)
        /\ \A i \in 1 .. Len(body) : joined[i] = body[i]
        /\ \A i \in 1 .. Len(tail) : joined[Len(body) + i] = tail[i]
    <3>1. body \in Seq(Byte) /\ tail \in Seq(Byte)
      BY <1>4, <2>2
    <3> QED
      BY <3>1, Joined, Zenon
  <2> HIDE DEF joined
  <2>5. /\ Len(joined) = 8
        /\ \A i \in 1 .. 6 : joined[i] = body[i]
        /\ \A i \in 1 .. 2 : joined[6 + i] = tail[i]
    BY <1>4, <2>2, <2>4
  <2>6. \A i \in 1 .. 8 : joined[i] = whole[i]
    <3>1. /\ joined[1] = 17 /\ joined[2] = 3 /\ joined[3] = 0
          /\ joined[4] = 107 /\ joined[5] = 0 /\ joined[6] = 3
      BY <1>5, <2>5
    <3>2. joined[7] = 118 /\ joined[8] = 135
      BY <2>2, <2>5
    <3> QED
      BY <2>3, <3>1, <3>2
  <2>7. joined = whole
    BY <2>1, <2>4, <2>5, <2>6, SeqEqual
  <2> QED
    BY <2>7 DEF whole, tail, joined
<1> QED
  <2>1. Frame(17, pdu).slave = 17 /\ Frame(17, pdu).pdu = pdu
    BY DEF Frame
  <2>2. Serialized(Frame(17, pdu)) = body \o <<118, 135>>
    BY <1>17, <2>1, Zenon DEF Serialized, body, first
  <2> QED
    BY <1>18, <2>2, Zenon DEF pdu
----------------------------------------------------------------------------
(***************************************************************************)
(* The wire with damaged bytes on it.                                      *)
(***************************************************************************)

\* Up to two positions, beside each other.
UpToTwoBeside(spots, n) ==
  \/ spots = {}
  \/ \E i \in 1 .. n : spots = {i} \/ spots = {i, i + 1}

\* Before a frame is on its way nothing is damaged.  Then the wire has as many
\* bytes as were written, and those that are other ones are the damaged ones, up
\* to two beside each other; what was received was read from them.
DamagedWire ==
  /\ sent.error # "none" => wire = <<>> /\ damaged = {} /\ got = NotYet
  /\ sent.error = "none" =>
       /\ \E slave \in Slaves, pdu \in Pdus : sent = Create(slave, pdu)
       /\ wire \in Seq(Byte)
       /\ Len(wire) = Len(Serialized(sent))
       /\ damaged \subseteq 1 .. Len(wire)
       /\ \A j \in 1 .. Len(wire) : j \in damaged <=> wire[j] # Serialized(sent)[j]
       /\ UpToTwoBeside(damaged, Len(wire))
       /\ got \in {NotYet, Deserialize(wire)}

\* A frame Create made: its parts, and its bytes are bytes.
LEMMA CreatedFrame ==
  ASSUME NEW slave \in Byte, NEW pdu \in Seq(Byte), Create(slave, pdu).error = "none"
  PROVE  /\ Create(slave, pdu) = Frame(slave, pdu)
         /\ Len(pdu) <= kMaxPduSize
         /\ Serialized(Frame(slave, pdu)) \in Seq(Byte)
  <1>1. Len(pdu) \in Nat
    OBVIOUS
  <1>2. ASSUME Len(pdu) > kMaxPduSize PROVE FALSE
    BY <1>2 DEF Create, NoFrame
  <1>3. Create(slave, pdu) = Frame(slave, pdu)
    BY <1>2 DEF Create
  <1>4. <<slave>> \o pdu \in Seq(Byte)
    OBVIOUS
  <1>5. CalcCrc(<<slave>> \o pdu) \in Word
    BY <1>4, CrcIsWord
  <1>6. Serialized(Frame(slave, pdu)) \in Seq(Byte)
    BY <1>5, SerializedParts
  <1> QED
    BY <1>1, <1>2, <1>3, <1>6 DEF kMaxPduSize

LEMMA TwoBeside ==
  ASSUME NEW k \in Nat
  PROVE  Cardinality({k, k + 1}) = 2
  <1>1. IsFiniteSet({k}) /\ Cardinality({k}) = 1
    BY FS_Singleton
  <1>2. k + 1 \notin {k} /\ {k, k + 1} = {k} \cup {k + 1}
    OBVIOUS
  <1> QED
    BY <1>1, <1>2, FS_AddElement

\* A byte damaged beside the damaged one, if any: still up to two beside each
\* other.
LEMMA OneMoreBeside ==
  ASSUME NEW n \in Nat, NEW spots, UpToTwoBeside(spots, n), NEW i \in 1 .. n,
         Cardinality(spots) < MaxDamaged, spots \subseteq 1 .. n,
         spots # {} => (i - 1 \in spots \/ i + 1 \in spots)
  PROVE  UpToTwoBeside(spots \cup {i}, n)
  <1>1. CASE spots = {}
    BY <1>1 DEF UpToTwoBeside
  <1>2. ASSUME NEW k \in 1 .. n, spots = {k}
        PROVE  UpToTwoBeside(spots \cup {i}, n)
    <2>1. CASE i - 1 = k
      <3>1. spots \cup {i} = {k, k + 1}
        BY <1>2, <2>1
      <3> QED
        BY <3>1 DEF UpToTwoBeside
    <2>2. CASE i + 1 = k
      <3>1. spots \cup {i} = {i, i + 1}
        BY <1>2, <2>2
      <3> QED
        BY <3>1 DEF UpToTwoBeside
    <2> QED
      BY <1>2, <2>1, <2>2
  <1>3. ASSUME NEW k \in 1 .. n, spots = {k, k + 1}
        PROVE  FALSE
    <2>1. Cardinality(spots) = 2
      BY <1>3, TwoBeside
    <2> QED
      BY <2>1, ChannelAssumption
  <1> QED
    BY <1>1, <1>2, <1>3 DEF UpToTwoBeside

LEMMA DamageStep ==
  ASSUME DamagedWire, NEW i \in Spots, NEW b \in Damages, Damage(i, b)
  PROVE  DamagedWire'
  <1>1. /\ got = NotYet /\ i <= Len(wire) /\ i \notin damaged /\ wire[i] # b
        /\ Cardinality(damaged) < MaxDamaged
        /\ damaged # {} => (i - 1 \in damaged \/ i + 1 \in damaged)
        /\ damaged' = damaged \cup {i}
        /\ wire' = [wire EXCEPT ![i] = b]
        /\ sent' = sent /\ got' = got
    BY DEF Damage
  <1>2. i \in Nat /\ i >= 1 /\ b \in Byte
    BY ChannelAssumption
  <1>3. sent.error = "none"
    <2> SUFFICES ASSUME sent.error # "none" PROVE FALSE
      OBVIOUS
    <2>1. wire = <<>>
      BY DEF DamagedWire
    <2>2. Len(wire) = 0
      BY <2>1
    <2> QED
      BY <1>1, <1>2, <2>2
  <1>4. /\ \E slave \in Slaves, pdu \in Pdus : sent = Create(slave, pdu)
        /\ wire \in Seq(Byte)
        /\ Len(wire) = Len(Serialized(sent))
        /\ damaged \subseteq 1 .. Len(wire)
        /\ \A j \in 1 .. Len(wire) : j \in damaged <=> wire[j] # Serialized(sent)[j]
        /\ UpToTwoBeside(damaged, Len(wire))
    BY <1>3 DEF DamagedWire
  <1>5. Len(wire) \in Nat /\ i \in 1 .. Len(wire)
    BY <1>1, <1>2, <1>4
  <1>6. /\ wire' \in Seq(Byte) /\ Len(wire') = Len(wire)
        /\ wire'[i] = b
        /\ \A j \in 1 .. Len(wire) : j # i => wire'[j] = wire[j]
    BY <1>1, <1>2, <1>4, <1>5
  <1>7. UpToTwoBeside(damaged \cup {i}, Len(wire))
    BY <1>1, <1>4, <1>5, OneMoreBeside
  <1>8. \A j \in 1 .. Len(wire) : j \in damaged' <=> wire'[j] # Serialized(sent)[j]
    <2> SUFFICES ASSUME NEW j \in 1 .. Len(wire)
                 PROVE  j \in damaged' <=> wire'[j] # Serialized(sent)[j]
      OBVIOUS
    <2>1. j \in damaged <=> wire[j] # Serialized(sent)[j]
      BY <1>4
    <2>2. CASE j = i
      BY <1>1, <1>6, <2>1, <2>2
    <2>3. CASE j # i
      BY <1>1, <1>6, <2>1, <2>3
    <2> QED
      BY <2>2, <2>3
  <1>9. damaged' \subseteq 1 .. Len(wire)
    BY <1>1, <1>4, <1>5
  <1>10. Serialized(sent)' = Serialized(sent)
    BY <1>1 DEF Serialized
  <1>11. UpToTwoBeside(damaged, Len(wire))'
    BY <1>1, <1>6, <1>7 DEF UpToTwoBeside
  <1> QED
    BY <1>1, <1>3, <1>4, <1>6, <1>8, <1>9, <1>10, <1>11 DEF DamagedWire

LEMMA NextDamagedWire ==
  ASSUME DamagedWire, [Next]_vars
  PROVE  DamagedWire'
  <1>1. CASE UNCHANGED vars
    BY <1>1 DEF DamagedWire, UpToTwoBeside, vars
  <1>2. ASSUME NEW slave \in Slaves, NEW pdu \in Pdus, Send(slave, pdu)
        PROVE  DamagedWire'
    <2>1. /\ sent' = Create(slave, pdu)
          /\ wire' = IF sent'.error = "none" THEN Serialized(sent') ELSE <<>>
          /\ damaged' = {} /\ got' = NotYet
      <3>1. sent.error # "none"
        BY <1>2 DEF Send, NotYet, NoFrame
      <3> QED
        BY <1>2, <3>1 DEF Send, DamagedWire
    <2>2. CASE sent'.error # "none"
      BY <2>1, <2>2 DEF DamagedWire
    <2>3. CASE sent'.error = "none"
      <3>1. slave \in Byte /\ pdu \in Seq(Byte)
        BY ChannelAssumption
      <3>2. wire' = Serialized(sent') /\ wire' \in Seq(Byte)
        BY <2>1, <2>3, <3>1, CreatedFrame
      <3>3. UpToTwoBeside(damaged, Len(wire))'
        BY <2>1 DEF UpToTwoBeside
      <3> QED
        BY <2>1, <2>3, <3>2, <3>3 DEF DamagedWire
    <2> QED
      BY <2>2, <2>3
  <1>3. ASSUME NEW i \in Spots, NEW b \in Damages, Damage(i, b)
        PROVE  DamagedWire'
    BY <1>3, DamageStep
  <1>4. CASE Receive
    <2>1. /\ sent.error = "none" /\ got' = Deserialize(wire)
          /\ sent' = sent /\ wire' = wire /\ damaged' = damaged
      BY <1>4 DEF Receive
    <2>2. /\ Serialized(sent)' = Serialized(sent)
          /\ Deserialize(wire)' = Deserialize(wire)
          /\ UpToTwoBeside(damaged, Len(wire))' <=> UpToTwoBeside(damaged, Len(wire))
      BY <2>1 DEF Serialized, Deserialize, UpToTwoBeside
    <2> QED
      BY <2>1, <2>2 DEF DamagedWire
  <1> QED
    BY <1>1, <1>2, <1>3, <1>4 DEF Next

(***************************************************************************)
(* Whatever slaves, PDUs, positions and bytes: a frame damaged in one byte *)
(* or in two beside each other is refused for its CRC.                     *)
(***************************************************************************)
THEOREM DamageIsRefused == Spec => []DamageRefused
  <1>1. Init => DamagedWire
    BY DEF Init, DamagedWire, NotYet, NoFrame
  <1>2. DamagedWire /\ [Next]_vars => DamagedWire'
    BY NextDamagedWire
  <1>3. DamagedWire => DamageRefused
    <2> SUFFICES ASSUME DamagedWire, got # NotYet, damaged # {}
                 PROVE  got.error = "kInvalidCrc"
      BY DEF DamageRefused
    <2>1. /\ \E slave \in Slaves, pdu \in Pdus : sent = Create(slave, pdu)
          /\ wire \in Seq(Byte)
          /\ Len(wire) = Len(Serialized(sent))
          /\ damaged \subseteq 1 .. Len(wire)
          /\ \A j \in 1 .. Len(wire) : j \in damaged <=> wire[j] # Serialized(sent)[j]
          /\ UpToTwoBeside(damaged, Len(wire))
          /\ got = Deserialize(wire)
          /\ sent.error = "none"
      BY DEF DamagedWire
    <2>2. PICK slave \in Slaves, pdu \in Pdus : sent = Create(slave, pdu)
      BY <2>1
    <2>3. slave \in Byte /\ pdu \in Seq(Byte)
      BY ChannelAssumption
    <2>4. sent = Frame(slave, pdu) /\ Len(pdu) <= kMaxPduSize
      BY <2>1, <2>2, <2>3, CreatedFrame
    <2>5. PICK i \in 1 .. Len(wire) : damaged = {i} \/ damaged = {i, i + 1}
      BY <2>1 DEF UpToTwoBeside
    <2>6. wire[i] # Serialized(sent)[i]
      BY <2>1, <2>5
    <2>7. SameBeside(wire, Serialized(sent), Len(wire), i)
      BY <2>1, <2>5 DEF SameBeside
    <2> QED
      BY <2>1, <2>3, <2>4, <2>6, <2>7, DamageIsSeen
  <1> QED
    BY <1>1, <1>2, <1>3, PTL DEF Spec

(***************************************************************************)
(* Whatever else is sent and whatever may be damaged: the frame of         *)
(* rtu_frame_test.cpp goes out with the CRC bytes the test has.            *)
(***************************************************************************)
THEOREM CrcIsStandard == Spec => []StandardCrc
  <1>1. Init => WireIsSerialized
    BY DEF Init, WireIsSerialized, NotYet, NoFrame
  <1>2. WireIsSerialized /\ [Next]_vars => WireIsSerialized'
    BY NextWire
  <1>3. WireIsSerialized => StandardCrc
    <2> DEFINE pdu == <<3, 0, 107, 0, 3>>
    <2> SUFFICES ASSUME WireIsSerialized, sent = Frame(17, pdu), damaged = {}
                 PROVE  wire = <<17, 3, 0, 107, 0, 3, 118, 135>>
      BY DEF StandardCrc
    <2> HIDE DEF pdu
    <2>1. sent.error = "none"
      BY DEF Frame
    <2>2. wire = Serialized(Frame(17, pdu))
      BY <2>1 DEF WireIsSerialized
    <2> QED
      BY <2>2, StandardBytes, Zenon DEF pdu
  <1> QED
    BY <1>1, <1>2, <1>3, PTL DEF Spec
=============================================================================
