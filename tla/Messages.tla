------------------------------ MODULE Messages ------------------------------
(***************************************************************************)
(* The Modbus messages: Create, Deserialize and Serialize of the classes   *)
(* under include/modbus/request and include/modbus/response, which are     *)
(* instances of a few templates for the eight function codes.              *)
(***************************************************************************)
EXTENDS Wire, Constants

ReadCodes == {kReadCoils, kReadDiscreteInputs, kReadHoldingRegisters, kReadInputRegisters}
WriteSingleCodes == {kWriteSingleCoil, kWriteSingleHoldingRegister}
WriteMultipleCodes == {kWriteMultipleCoils, kWriteMultipleHoldingRegisters}

\* Messages whose values are bits: Coil and DiscreteInput.
BitCodes == {kReadCoils, kReadDiscreteInputs, kWriteSingleCoil, kWriteMultipleCoils}

\* MaxQty of the template instances.
kMaxQuantity ==
  [code \in ReadCodes \cup WriteMultipleCodes |->
     CASE code \in {kReadCoils, kReadDiscreteInputs} -> 2000
       [] code \in {kReadHoldingRegisters, kReadInputRegisters} -> 125
       [] code = kWriteMultipleCoils -> 1968
       [] OTHER -> 123]

kMinQuantity == 1

QuantityAllowed(code, n) == n >= kMinQuantity /\ n <= kMaxQuantity[code]

\* The uint8_t byte count that announces n values.
ByteCount(code, n) == (IF code \in BitCodes THEN BitsToBytes(n) ELSE 2 * n) % 256

Unpack(code, bytes, n) == IF code \in BitCodes THEN BitsOf(bytes, n) ELSE WordsOf(bytes, n)
Pack(code, values) == IF code \in BitCodes THEN PackBits(values) ELSE PackWords(values)

\* What the reading of values leaves of a buffer that ends too early.
Unread(code, buf) == IF code \in BitCodes THEN <<>> ELSE From(buf, 2 * (Len(buf) \div 2))

\* Variant: any function code will do.
ReadAnyCode(buf, code) == ReadBe(1, buf)

\* The leading function code of a message.
ReadCode(buf, code) ==
  LET c == ReadBe(1, buf)
  IN  Decoded(<<c>>, Require(c.value = code, "kInvalidFunctionCode", c.rest))

\* Serialize: into out when it has room for the whole message.
Serialize(bytes, room) ==
  IF room < Len(bytes) THEN Err("kBufferTooShort", bytes) ELSE Ok(bytes, <<>>)

----------------------------------------------------------------------------
(***************************************************************************)
(* An address and a quantity: request ReadMultiple and response            *)
(* WriteMultiple.                                                          *)
(***************************************************************************)

CreateRange(code, address, quantity, rest) ==
  Decoded(
    <<Require(QuantityAllowed(code, quantity), "kInvalidQuantity", rest),
      Require(~ WouldAddressOverflow(address, quantity), "kAddressOverflow", rest)>>,
    Ok([address |-> address, quantity |-> quantity], rest))

DeserializeRange(code, buf) ==
  LET c == ReadCode(buf, code)
      a == ReadBe(2, c.rest)
      q == ReadBe(2, a.rest)
  IN  Decoded(<<c, a, q>>, CreateRange(code, a.value, q.value, q.rest))

RangeBytes(code, m) == <<code>> \o Be16(m.address) \o Be16(m.quantity)

----------------------------------------------------------------------------
(***************************************************************************)
(* WriteSingle, the same as a request and as a response.                   *)
(***************************************************************************)

CreateSingle(code, address, value, rest) ==
  Decoded(<<Require(code \in BitCodes => value \in Coil, "kInvalidValue", rest)>>,
          Ok([address |-> address, value |-> value], rest))

DeserializeSingle(code, buf) ==
  LET c == ReadCode(buf, code)
      a == ReadBe(2, c.rest)
      w == ReadBe(2, a.rest)
      v == IF code \in BitCodes THEN CoilFromRaw(w.value, w.rest) ELSE w
  IN  Decoded(<<c, a, w, v>>, CreateSingle(code, a.value, v.value, v.rest))

SingleBytes(code, m) ==
  <<code>> \o Be16(m.address)
    \o Be16(IF code \in BitCodes THEN CoilToRaw(m.value) ELSE m.value)

----------------------------------------------------------------------------
(***************************************************************************)
(* Request WriteMultiple.                                                  *)
(***************************************************************************)

CreateWrite(code, address, values, rest) ==
  Decoded(
    <<Require(QuantityAllowed(code, Len(values)), "kInvalidQuantity", rest),
      Require(~ WouldAddressOverflow(address, Len(values)), "kAddressOverflow", rest),
      Require(code \in BitCodes => \A i \in DOMAIN values : values[i] \in Coil,
              "kInvalidValue", rest)>>,
    Ok([address |-> address, values |-> values], rest))

DeserializeWrite(code, buf) ==
  LET c == ReadCode(buf, code)
      a == ReadBe(2, c.rest)
      q == ReadBe(2, a.rest)
      n == ReadBe(1, q.rest)
      size == ByteCount(code, q.value)
  IN  Decoded(
        <<c, a, q,
          Require(QuantityAllowed(code, q.value), "kInvalidQuantity", q.rest),
          Require(~ WouldAddressOverflow(a.value, q.value), "kAddressOverflow", q.rest),
          n,
          Require(n.value = size, "kInvalidQuantity", n.rest),
          Require(Len(n.rest) >= size, "kBufferTooShort", Unread(code, n.rest))>>,
        CreateWrite(code, a.value, Unpack(code, n.rest, q.value), From(n.rest, size)))

WriteBytes(code, m) ==
  <<code>> \o Be16(m.address) \o Be16(Len(m.values))
    \o <<ByteCount(code, Len(m.values))>> \o Pack(code, m.values)

----------------------------------------------------------------------------
(***************************************************************************)
(* Response ReadMultiple.                                                  *)
(***************************************************************************)

CreateValues(code, values, rest) ==
  Decoded(<<Require(QuantityAllowed(code, Len(values)), "kInvalidQuantity", rest)>>,
          Ok([values |-> values], rest))

\* Variant: as many bits as the byte count says.
DeserializeBitsOfCount(code, buf, expected) ==
  LET c == ReadCode(buf, code)
      n == ReadBe(1, c.rest)
      count == 8 * n.value
  IN  Decoded(
        <<c, n,
          Require(QuantityAllowed(code, count), "kInvalidQuantity", n.rest),
          Require(Len(n.rest) >= n.value, "kBufferTooShort", Unread(code, n.rest))>>,
        CreateValues(code, BitsOf(n.rest, count), From(n.rest, n.value)))

\* Bits: as many as the caller expects, and the byte count has to match that.
DeserializeBits(code, buf, expected) ==
  LET c == ReadCode(buf, code)
      n == ReadBe(1, c.rest)
  IN  Decoded(
        <<c, n,
          Require(QuantityAllowed(code, expected), "kInvalidQuantity", n.rest),
          Require(n.value = BitsToBytes(expected), "kInvalidValue", n.rest),
          Require(Len(n.rest) >= n.value, "kBufferTooShort", Unread(code, n.rest))>>,
        CreateValues(code, BitsOf(n.rest, expected), From(n.rest, n.value)))

\* Registers: as many as the byte count says; expected is not looked at.
DeserializeRegisters(code, buf, expected) ==
  LET c == ReadCode(buf, code)
      n == ReadBe(1, c.rest)
      count == n.value \div 2
  IN  Decoded(
        <<c, n,
          Require(n.value % 2 = 0, "kInvalidValue", n.rest),
          Require(QuantityAllowed(code, count), "kInvalidQuantity", n.rest),
          Require(Len(n.rest) >= n.value, "kBufferTooShort", Unread(code, n.rest))>>,
        CreateValues(code, WordsOf(n.rest, count), From(n.rest, n.value)))

DeserializeValues(code, buf, expected) ==
  IF code \in BitCodes THEN DeserializeBits(code, buf, expected)
  ELSE DeserializeRegisters(code, buf, expected)

ValuesBytes(code, m) ==
  <<code, ByteCount(code, Len(m.values))>> \o Pack(code, m.values)

----------------------------------------------------------------------------
(***************************************************************************)
(* ErrorResponse.                                                          *)
(***************************************************************************)

\* Variant: the buffer is not advanced.
DeserializeErrorInPlace(buf) ==
  IF Len(buf) < 2 THEN Err("kBufferTooShort", buf)
  ELSE Decoded(
         <<Require(IsErrorFunctionCode(buf[1]), "kInvalidFunctionCode", buf),
           Require(IsValidExceptionCode(buf[2]), "kInvalidExceptionCode", buf)>>,
         Ok([code |-> ToNormalFunctionCode(buf[1]), exception |-> buf[2]], buf))

\* Variant: nothing may follow an error response.
DeserializeErrorAlone(buf) ==
  IF Len(buf) # 2 THEN Err("kExtraDataAtEnd", buf)
  ELSE Decoded(
         <<Require(IsErrorFunctionCode(buf[1]), "kInvalidFunctionCode", buf),
           Require(IsValidExceptionCode(buf[2]), "kInvalidExceptionCode", buf)>>,
         Ok([code |-> ToNormalFunctionCode(buf[1]), exception |-> buf[2]], <<>>))

DeserializeError(buf) ==
  IF Len(buf) < 2 THEN Err("kBufferTooShort", buf)
  ELSE Decoded(
         <<Require(IsErrorFunctionCode(buf[1]), "kInvalidFunctionCode", buf),
           Require(IsValidExceptionCode(buf[2]), "kInvalidExceptionCode", buf)>>,
         Ok([code |-> ToNormalFunctionCode(buf[1]), exception |-> buf[2]],
            From(buf, 2)))

ErrorBytes(m) == <<ToErrorFunctionCode(m.code), m.exception>>

----------------------------------------------------------------------------
(***************************************************************************)
(* The class of a message chooses among them.                              *)
(***************************************************************************)

Kinds == {"range", "single", "write", "values", "error"}

\* Function codes a class of that kind exists for.
CodesOf(kind) ==
  CASE kind = "range" -> ReadCodes \cup WriteMultipleCodes
    [] kind = "single" -> WriteSingleCodes
    [] kind = "write" -> WriteMultipleCodes
    [] kind = "values" -> ReadCodes
    [] kind = "error" -> {0}

\* The bytes of a message.
EncodingOf(kind, code, content) ==
  CASE kind = "range" -> RangeBytes(code, content)
    [] kind = "single" -> SingleBytes(code, content)
    [] kind = "write" -> WriteBytes(code, content)
    [] kind = "values" -> ValuesBytes(code, content)
    [] kind = "error" -> ErrorBytes(content)

\* Deserialize; only the reader of a ReadMultiple response expects a quantity.
Deserialize(kind, code, expected, buf) ==
  CASE kind = "range" -> DeserializeRange(code, buf)
    [] kind = "single" -> DeserializeSingle(code, buf)
    [] kind = "write" -> DeserializeWrite(code, buf)
    [] kind = "values" -> DeserializeValues(code, buf, expected)
    [] kind = "error" -> DeserializeError(buf)
=============================================================================
