-------------------------------- MODULE Crc --------------------------------
(***************************************************************************)
(* CalcCrc of crc.hpp: boost::crc_optimal with 16 bits, polynomial 0x8005, *)
(* initial value 0xFFFF, no final xor and both ways reflected, that is the *)
(* polynomial 0xA001 shifted out at the low end.  As in boost a table says *)
(* what a whole byte does to the register.                                 *)
(*                                                                         *)
(* Registers and bytes are the sets of their bits that are set, the lowest *)
(* being bit 1, so that exclusive or is the symmetric difference.          *)
(***************************************************************************)
EXTENDS Naturals, Sequences, SequencesExt

Bit == 1 .. 16
LowBit == 1 .. 8

Weight == <<1, 2, 4, 8, 16, 32, 64, 128, 256, 512, 1024, 2048, 4096, 8192, 16384, 32768>>

BitsOf(byte) == {i \in LowBit : (byte \div Weight[i]) % 2 = 1}

NumberOf(bits) ==
  LET Value(i) == IF i \in bits THEN Weight[i] ELSE 0
  IN  Value(1) + Value(2) + Value(3) + Value(4) + Value(5) + Value(6) + Value(7) + Value(8)
      + Value(9) + Value(10) + Value(11) + Value(12) + Value(13) + Value(14) + Value(15) + Value(16)

\* Variant: the register begins with 0.
kCrcInitialZero == {}

kCrcInitialValue == Bit

\* 0x8005.
kCrcPolynomial == {1, 3, 16}

Reflected(bits) == {i \in Bit : 17 - i \in bits}

\* One bit out of the register.
ShiftOut(crc) ==
  LET shifted == {i \in Bit : i + 1 \in crc}
  IN  IF 1 \in crc THEN SymDiff(shifted, Reflected(kCrcPolynomial)) ELSE shifted

\* One byte out of the register.
Table ==
  [byte \in SUBSET LowBit |->
     ShiftOut(ShiftOut(ShiftOut(ShiftOut(ShiftOut(ShiftOut(ShiftOut(ShiftOut(byte))))))))]

ProcessByte(crc, byte) ==
  SymDiff({i \in Bit : i + 8 \in crc}, Table[SymDiff(crc \cap LowBit, BitsOf(byte))])

Register(bytes) == FoldLeft(ProcessByte, kCrcInitialValue, bytes)

CalcCrc(bytes) == NumberOf(Register(bytes))
=============================================================================
