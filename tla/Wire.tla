-------------------------------- MODULE Wire --------------------------------
(***************************************************************************)
(* The primitives every Modbus message is read and written with: utils.hpp *)
(* (ReadBe, WriteBe, WouldAddressOverflow, BitsToBytes), coil.hpp,         *)
(* function_code.hpp and exception_code.hpp.                               *)
(*                                                                         *)
(* A buffer is a sequence of bytes.  A reader returns a record: whether it *)
(* succeeded, its value or its ParseError, and the buffer it leaves behind *)
(* (the std::span it takes by reference).                                  *)
(***************************************************************************)
EXTENDS Naturals, Sequences

Byte == 0 .. 255
Word == 0 .. 65535

Ok(value, rest) == [ok |-> TRUE, value |-> value, error |-> "none", rest |-> rest]
Err(error, rest) == [ok |-> FALSE, value |-> 0, error |-> error, rest |-> rest]

\* The result of a decoder whose steps ran one after the other and whose last
\* step, when none failed, gives final.
Decoded(steps, final) ==
  IF \A i \in DOMAIN steps : steps[i].ok THEN final
  ELSE steps[CHOOSE i \in DOMAIN steps :
               ~ steps[i].ok /\ \A j \in 1 .. i - 1 : steps[j].ok]

\* A condition checked between two reads.
Require(condition, error, rest) ==
  IF condition THEN Ok(0, rest) ELSE Err(error, rest)

From(buf, n) == SubSeq(buf, n + 1, Len(buf))

\* Variant: the low byte first.
ReadLe(size, buf) ==
  IF Len(buf) < size THEN Err("kBufferTooShort", buf)
  ELSE Ok(IF size = 1 THEN buf[1] ELSE 256 * buf[2] + buf[1], From(buf, size))

\* ReadBe<uint8_t> (size 1) and ReadBe<uint16_t> (size 2).
ReadBe(size, buf) ==
  IF Len(buf) < size THEN Err("kBufferTooShort", buf)
  ELSE Ok(IF size = 1 THEN buf[1] ELSE 256 * buf[1] + buf[2], From(buf, size))

\* The bytes WriteBe<uint16_t> stores.
Be16(w) == <<w \div 256, w % 256>>

kMaxAddressSpace == 65536

\* Variant: off by one at the end of the address space.
OverflowsAboveLast(address, quantity) == address + quantity > kMaxAddressSpace + 1

WouldAddressOverflow(address, quantity) == address + quantity > kMaxAddressSpace

BitsToBytes(bits) == (bits + 7) \div 8

\* Bits of a byte string, the least significant of each byte first.
BitsOf(bytes, n) ==
  [i \in 1 .. n |-> (bytes[(i - 1) \div 8 + 1] \div 2 ^ ((i - 1) % 8)) % 2]

\* Bits packed into bytes, the last byte padded with zeros.
PackBits(bits) ==
  [k \in 1 .. BitsToBytes(Len(bits)) |->
     LET bit(j) == IF 8 * (k - 1) + j <= Len(bits)
                     THEN bits[8 * (k - 1) + j] * 2 ^ (j - 1) ELSE 0
     IN  bit(1) + bit(2) + bit(3) + bit(4) + bit(5) + bit(6) + bit(7) + bit(8)]

\* Registers of a byte string and the other way round, high byte first.
WordsOf(bytes, n) == [i \in 1 .. n |-> 256 * bytes[2 * i - 1] + bytes[2 * i]]

PackWords(words) ==
  [i \in 1 .. 2 * Len(words) |->
     IF i % 2 = 1 THEN words[(i + 1) \div 2] \div 256 ELSE words[i \div 2] % 256]

----------------------------------------------------------------------------
(***************************************************************************)
(* Coil values on the wire.                                                *)
(***************************************************************************)

Coil == {0, 1}  \* kOff, kOn

kCoilOnRawValue == 65280
kCoilOffRawValue == 0

\* Variant: every raw value but zero is on.
CoilFromTruth(raw, rest) == Ok(IF raw = kCoilOffRawValue THEN 0 ELSE 1, rest)

CoilFromRaw(raw, rest) ==
  CASE raw = kCoilOnRawValue -> Ok(1, rest)
    [] raw = kCoilOffRawValue -> Ok(0, rest)
    [] OTHER -> Err("kInvalidValue", rest)

CoilToRaw(coil) == IF coil = 1 THEN kCoilOnRawValue ELSE kCoilOffRawValue

----------------------------------------------------------------------------
(***************************************************************************)
(* Function and exception codes.                                           *)
(***************************************************************************)

kReadCoils == 1
kReadDiscreteInputs == 2
kReadHoldingRegisters == 3
kReadInputRegisters == 4
kWriteSingleCoil == 5
kWriteSingleHoldingRegister == 6
kWriteMultipleCoils == 15
kWriteMultipleHoldingRegisters == 16

kErrorFlag == 128

\* function_code | kErrorFlag, function_code & kErrorFlag and & kFunctionCodeMask.
IsErrorFunctionCode(byte) == byte >= kErrorFlag
ToErrorFunctionCode(code) == IF IsErrorFunctionCode(code) THEN code ELSE code + kErrorFlag
ToNormalFunctionCode(byte) == byte % kErrorFlag

ExceptionCodes == {1, 2, 3, 4, 5, 6, 8, 10, 11}

IsValidExceptionCode(byte) == byte \in ExceptionCodes
=============================================================================
