--------------------------- MODULE MessagesProofs ---------------------------
(***************************************************************************)
(* Proofs about the messages and the slave, for every operation, every     *)
(* content of its tables and every buffer: what the bytes of a message and *)
(* the reading of them have in common, that a request is read by the       *)
(* slave's classes as the call it was made of, that a response gives back  *)
(* the values it was made of, and what serving a request does.             *)
(***************************************************************************)
EXTENDS Slave, SequenceTheorems, TLAPS

(***************************************************************************)
(* Decoders.                                                               *)
(***************************************************************************)

\* A decoder of up to eight steps succeeds only when all of them do.
LEMMA DecodedOk ==
  ASSUME NEW n \in 1 .. 8, NEW steps, DOMAIN steps = 1 .. n, NEW final,
         Decoded(steps, final).ok
  PROVE  Decoded(steps, final) = final /\ final.ok /\ \A i \in 1 .. n : steps[i].ok
<1> DEFINE First(i) == /\ i \in 1 .. n /\ ~ steps[i].ok
                       /\ \A j \in 1 .. i - 1 : steps[j].ok
<1>1. CASE \A i \in 1 .. n : steps[i].ok
  BY <1>1, Zenon DEF Decoded
<1>2. CASE ~ \A i \in 1 .. n : steps[i].ok
  <2>1. \E i \in 1 .. n : First(i)
    <3>1. PICK k \in 1 .. n : ~ steps[k].ok
      BY <1>2
    <3>2. CASE First(1) \/ First(2) \/ First(3) \/ First(4)
      BY <3>2
    <3>3. CASE First(5) \/ First(6) \/ First(7) \/ First(8)
      BY <3>3
    <3>4. CASE \A i \in 1 .. 8 : ~ First(i)
      <4>1. 1 > n \/ steps[1].ok
        BY <3>4
      <4>2. 2 > n \/ steps[2].ok
        BY <3>4, <4>1
      <4>3. 3 > n \/ steps[3].ok
        BY <3>4, <4>1, <4>2
      <4>4. 4 > n \/ steps[4].ok
        BY <3>4, <4>1, <4>2, <4>3
      <4>5. 5 > n \/ steps[5].ok
        BY <3>4, <4>1, <4>2, <4>3, <4>4
      <4>6. 6 > n \/ steps[6].ok
        BY <3>4, <4>1, <4>2, <4>3, <4>4, <4>5
      <4>7. 7 > n \/ steps[7].ok
        BY <3>4, <4>1, <4>2, <4>3, <4>4, <4>5, <4>6
      <4>8. 8 > n \/ steps[8].ok
        BY <3>4, <4>1, <4>2, <4>3, <4>4, <4>5, <4>6, <4>7
      <4> QED
        BY <3>1, <4>1, <4>2, <4>3, <4>4, <4>5, <4>6, <4>7, <4>8
    <3> QED
      BY <3>2, <3>3, <3>4
  <2> DEFINE k == CHOOSE i \in DOMAIN steps :
                    ~ steps[i].ok /\ \A j \in 1 .. i - 1 : steps[j].ok
  <2>2. ~ steps[k].ok
    BY <2>1
  <2>3. Decoded(steps, final) = steps[k]
    BY <1>2, Zenon DEF Decoded
  <2> QED
    BY <2>2, <2>3
<1> QED
  BY <1>1, <1>2

LEMMA OkIsOk ==
  ASSUME NEW value, NEW rest
  PROVE  Ok(value, rest).ok /\ Ok(value, rest).value = value /\ Ok(value, rest).rest = rest
BY DEF Ok

LEMMA ErrIsNot ==
  ASSUME NEW error, NEW rest
  PROVE  ~ Err(error, rest).ok
BY DEF Err

\* A message that is read begins with the function code of its class.
LEMMA CodeRead ==
  ASSUME NEW code, NEW buf, Len(buf) \in Nat, ReadCode(buf, code).ok
  PROVE  /\ Len(buf) >= 1 /\ buf[1] = code
         /\ ReadCode(buf, code).rest = From(buf, 1)
<1> DEFINE c == ReadBe(1, buf)
           r == Require(c.value = code, "kInvalidFunctionCode", c.rest)
<1>1. ReadCode(buf, code) = Decoded(<<c>>, r)
  BY DEF ReadCode
<1>2. DOMAIN <<c>> = 1 .. 1 /\ <<c>>[1] = c
  OBVIOUS
<1> HIDE DEF c, r
<1>3. Decoded(<<c>>, r) = r /\ r.ok /\ c.ok
  BY <1>1, <1>2, DecodedOk
<1>4. Len(buf) >= 1
  BY <1>3, ErrIsNot DEF c, ReadBe
<1>5. c = Ok(buf[1], From(buf, 1))
  BY <1>4 DEF c, ReadBe
<1>6. c.value = buf[1] /\ c.rest = From(buf, 1)
  BY <1>5, OkIsOk
<1>7. c.value = code
  BY <1>3, ErrIsNot DEF r, Require
<1>8. r.rest = c.rest
  BY <1>7, OkIsOk DEF r, Require
<1> QED
  BY <1>1, <1>3, <1>4, <1>6, <1>7, <1>8

----------------------------------------------------------------------------
(***************************************************************************)
(* The bytes of responses.                                                 *)
(***************************************************************************)

LEMMA CodeNumbers ==
  /\ ReadCodes = {1, 2, 3, 4}
  /\ WriteSingleCodes = {5, 6}
  /\ WriteMultipleCodes = {15, 16}
  /\ BitCodes = {1, 2, 5, 15}
BY DEF ReadCodes, WriteSingleCodes, WriteMultipleCodes, BitCodes, kReadCoils,
       kReadDiscreteInputs, kReadHoldingRegisters, kReadInputRegisters,
       kWriteSingleCoil, kWriteSingleHoldingRegister, kWriteMultipleCoils,
       kWriteMultipleHoldingRegisters

\* A function on 1 .. n is a sequence of n elements.
LEMMA FunctionIsSequence ==
  ASSUME NEW n \in Nat, NEW f, f = [i \in 1 .. n |-> f[i]]
  PROVE  f \in Seq({f[i] : i \in 1 .. n}) /\ Len(f) = n
<1>1. f \in [1 .. n -> {f[i] : i \in 1 .. n}]
  OBVIOUS
<1> QED
  BY <1>1, LenProperties

LEMMA PackIsSequence ==
  ASSUME NEW code, NEW values, Len(values) \in Nat
  PROVE  \E S : Pack(code, values) \in Seq(S)
<1>1. BitsToBytes(Len(values)) \in Nat /\ 2 * Len(values) \in Nat
  BY DEF BitsToBytes
<1>2. PackBits(values) = [k \in 1 .. BitsToBytes(Len(values)) |-> PackBits(values)[k]]
  <2> DEFINE Bit(k, j) == IF 8 * (k - 1) + j <= Len(values)
                            THEN values[8 * (k - 1) + j] * 2 ^ (j - 1) ELSE 0
             Packed(k) == Bit(k, 1) + Bit(k, 2) + Bit(k, 3) + Bit(k, 4)
                            + Bit(k, 5) + Bit(k, 6) + Bit(k, 7) + Bit(k, 8)
  <2>1. PackBits(values) = [k \in 1 .. BitsToBytes(Len(values)) |-> Packed(k)]
    BY Zenon DEF PackBits
  <2> HIDE DEF Packed
  <2> QED
    BY <2>1, Zenon
<1>3. PackWords(values) = [k \in 1 .. 2 * Len(values) |-> PackWords(values)[k]]
  BY Zenon DEF PackWords
<1>4. \E S : PackBits(values) \in Seq(S)
  BY <1>1, <1>2, FunctionIsSequence
<1>5. \E S : PackWords(values) \in Seq(S)
  BY <1>1, <1>3, FunctionIsSequence
<1> QED
  BY <1>4, <1>5 DEF Pack

LEMMA Prefix ==
  ASSUME NEW S, NEW s \in Seq(S), NEW t \in Seq(S)
  PROVE  /\ s \o t \in Seq(S) /\ Len(s) \in Nat /\ Len(t) \in Nat
         /\ Len(s \o t) = Len(s) + Len(t)
         /\ \A i \in 1 .. Len(s) : (s \o t)[i] = s[i]
<1>1. Len(s) \in Nat /\ Len(t) \in Nat
  BY LenProperties
<1>2. \A i \in 1 .. Len(s) + Len(t) :
        (s \o t)[i] = IF i <= Len(s) THEN s[i] ELSE t[i - Len(s)]
  BY ConcatProperties
<1>3. \A i \in 1 .. Len(s) : (s \o t)[i] = s[i]
  BY <1>1, <1>2
<1> QED
  BY <1>1, <1>3, ConcatProperties

\* A response with values begins with its function code and their byte count.
LEMMA ValuesHead ==
  ASSUME NEW code, NEW n \in Nat, NEW v, v = [i \in 1 .. n |-> v[i]]
  PROVE  LET bytes == ValuesBytes(code, [values |-> v])
         IN  /\ Len(bytes) \in Nat /\ Len(bytes) >= 2
             /\ bytes[1] = code /\ bytes[2] = ByteCount(code, n)
<1> DEFINE count == ByteCount(code, n)
<1>1. Len(v) = n
  BY FunctionIsSequence
<1>2. PICK S : Pack(code, v) \in Seq(S)
  BY <1>1, PackIsSequence
<1>3. ValuesBytes(code, [values |-> v]) = <<code, count>> \o Pack(code, v)
  BY <1>1 DEF ValuesBytes
<1> HIDE DEF count
<1> DEFINE T == S \cup {code, count}
<1>4. Pack(code, v) \in Seq(T) /\ <<code, count>> \in Seq(T)
  BY <1>2
<1>5. Len(<<code, count>>) = 2 /\ <<code, count>>[1] = code /\ <<code, count>>[2] = count
  OBVIOUS
<1> HIDE DEF T
<1> DEFINE head == <<code, count>>
           tail == Pack(code, v)
<1>6. head \in Seq(T) /\ tail \in Seq(T) /\ Len(head) = 2 /\ head[1] = code /\ head[2] = count
  BY <1>4, <1>5
<1> HIDE DEF head, tail
<1>7. /\ Len(tail) \in Nat /\ Len(head \o tail) = Len(head) + Len(tail)
      /\ \A i \in 1 .. Len(head) : (head \o tail)[i] = head[i]
  BY <1>6, Prefix, Zenon
<1>8. Len(head \o tail) >= 2 /\ (head \o tail)[1] = code /\ (head \o tail)[2] = count
  BY <1>6, <1>7
<1> QED
  BY <1>3, <1>7, <1>8 DEF head, tail, count

\* Words are numbers.
LEMMA WordIsNat == Word \subseteq Nat
BY SMTT(30) DEF Word

LEMMA Be16Bytes ==
  ASSUME NEW w \in Word
  PROVE  Be16(w) \in Seq(Nat) /\ Len(Be16(w)) = 2
<1>1. w \in Nat
  BY WordIsNat, Zenon
<1>2. w % 256 \in Nat
  BY <1>1
<1>3. w \div 256 \in Nat
  BY <1>1
<1> QED
  BY <1>2, <1>3 DEF Be16

\* The responses to writes and the exceptions begin with a function code too.
LEMMA Be16Head ==
  ASSUME NEW code \in Nat, NEW a \in Word, NEW b \in Word
  PROVE  LET bytes == <<code>> \o Be16(a) \o Be16(b)
         IN  Len(bytes) = 5 /\ bytes[1] = code
<1> DEFINE s == <<code>>
           u == Be16(a)
           v == Be16(b)
<1>1. s \in Seq(Nat) /\ Len(s) = 1 /\ s[1] = code
  OBVIOUS
<1>2. \A w \in Word : Be16(w) \in Seq(Nat) /\ Len(Be16(w)) = 2
  BY Be16Bytes
<1>3. u \in Seq(Nat) /\ Len(u) = 2 /\ v \in Seq(Nat) /\ Len(v) = 2
  BY <1>2
<1> HIDE DEF s, u, v
<1>4. /\ s \o u \in Seq(Nat) /\ Len(s \o u) = Len(s) + Len(u)
      /\ \A i \in 1 .. Len(s) : (s \o u)[i] = s[i]
  BY <1>1, <1>3, Prefix, Zenon
<1>5. Len(s \o u) = 3 /\ (s \o u)[1] = code
  BY <1>1, <1>3, <1>4
<1>6. \A x \in Seq(Nat) : /\ Len(x \o v) = Len(x) + Len(v)
                         /\ \A i \in 1 .. Len(x) : (x \o v)[i] = x[i]
  BY <1>3, Prefix, Zenon
<1>7. Len((s \o u) \o v) = 5 /\ ((s \o u) \o v)[1] = code
  BY <1>3, <1>4, <1>5, <1>6
<1> QED
  BY <1>7 DEF s, u, v

\* The exceptions are those of their function code, with the error flag.
LEMMA ErrorHead ==
  ASSUME NEW code \in 1 .. 127
  PROVE  LET bytes == IllegalDataAddress(code)
         IN  Len(bytes) = 2 /\ bytes[1] = code + 128
BY DEF IllegalDataAddress, ErrorBytes, ToErrorFunctionCode, IsErrorFunctionCode, kErrorFlag

----------------------------------------------------------------------------
(***************************************************************************)
(* What the reading of a response looks at.                                *)
(***************************************************************************)

LEMMA SecondByte ==
  ASSUME NEW buf, Len(buf) \in Nat, Len(buf) >= 1, ReadBe(1, From(buf, 1)).ok
  PROVE  ReadBe(1, From(buf, 1)).value = buf[2]
<1> DEFINE S == {buf[i] : i \in 2 .. Len(buf)}
<1>1. \A i \in 2 .. Len(buf) : buf[i] \in S
  OBVIOUS
<1>2. 2 \in Int /\ Len(buf) \in Int
  OBVIOUS
<1> HIDE DEF S
<1>3. /\ Len(SubSeq(buf, 2, Len(buf))) = IF 2 <= Len(buf) THEN Len(buf) - 2 + 1 ELSE 0
      /\ \A i \in 1 .. Len(buf) - 2 + 1 : SubSeq(buf, 2, Len(buf))[i] = buf[2 + i - 1]
  BY <1>1, <1>2, SubSeqProperties
<1>4. From(buf, 1) = SubSeq(buf, 2, Len(buf))
  BY DEF From
<1>5. Len(From(buf, 1)) >= 1
  BY <1>3, <1>4, ErrIsNot DEF ReadBe
<1>6. ReadBe(1, From(buf, 1)).value = From(buf, 1)[1]
  BY <1>5, OkIsOk DEF ReadBe
<1>7. From(buf, 1)[1] = buf[2]
  BY <1>3, <1>4, <1>5
<1> QED
  BY <1>6, <1>7

LEMMA CoilIsWord ==
  ASSUME NEW value
  PROVE  CoilToRaw(value) \in Word
BY DEF CoilToRaw, Word, kCoilOnRawValue, kCoilOffRawValue

\* Bits are read only behind the byte count the reader expects.
LEMMA BitsAccepted ==
  ASSUME NEW code, NEW expected, NEW buf, Len(buf) \in Nat,
         DeserializeBits(code, buf, expected).ok
  PROVE  buf[1] = code /\ buf[2] = BitsToBytes(expected)
<1> DEFINE c == ReadCode(buf, code)
           n == ReadBe(1, c.rest)
           r1 == Require(QuantityAllowed(code, expected), "kInvalidQuantity", n.rest)
           r2 == Require(n.value = BitsToBytes(expected), "kInvalidValue", n.rest)
           r3 == Require(Len(n.rest) >= n.value, "kBufferTooShort", Unread(code, n.rest))
           final == CreateValues(code, BitsOf(n.rest, expected), From(n.rest, n.value))
           steps == <<c, n, r1, r2, r3>>
<1>1. DeserializeBits(code, buf, expected) = Decoded(steps, final)
  BY Zenon DEF DeserializeBits
<1> HIDE DEF c, n, r1, r2, r3, final
<1>2. DOMAIN steps = 1 .. 5 /\ steps[1] = c /\ steps[2] = n /\ steps[4] = r2
  OBVIOUS
<1> HIDE DEF steps
<1>3. \A i \in 1 .. 5 : steps[i].ok
  BY <1>1, <1>2, DecodedOk
<1>4. c.ok /\ n.ok /\ r2.ok
  BY <1>2, <1>3
<1>5. Len(buf) >= 1 /\ buf[1] = code /\ c.rest = From(buf, 1)
  BY <1>4, CodeRead DEF c
<1>6. n.value = buf[2]
  BY <1>4, <1>5, SecondByte DEF n
<1>7. n.value = BitsToBytes(expected)
  BY <1>4, ErrIsNot DEF r2, Require
<1> QED
  BY <1>5, <1>6, <1>7

LEMMA RegistersAccepted ==
  ASSUME NEW code, NEW expected, NEW buf, Len(buf) \in Nat,
         DeserializeRegisters(code, buf, expected).ok
  PROVE  buf[1] = code
<1> DEFINE c == ReadCode(buf, code)
           n == ReadBe(1, c.rest)
           count == n.value \div 2
           r1 == Require(n.value % 2 = 0, "kInvalidValue", n.rest)
           r2 == Require(QuantityAllowed(code, count), "kInvalidQuantity", n.rest)
           r3 == Require(Len(n.rest) >= n.value, "kBufferTooShort", Unread(code, n.rest))
           final == CreateValues(code, WordsOf(n.rest, count), From(n.rest, n.value))
           steps == <<c, n, r1, r2, r3>>
<1>1. DeserializeRegisters(code, buf, expected) = Decoded(steps, final)
  BY Zenon DEF DeserializeRegisters
<1> HIDE DEF c, n, r1, r2, r3, final
<1>2. DOMAIN steps = 1 .. 5 /\ steps[1] = c
  OBVIOUS
<1> HIDE DEF steps
<1>3. \A i \in 1 .. 5 : steps[i].ok
  BY <1>1, <1>2, DecodedOk
<1>4. c.ok
  BY <1>2, <1>3
<1> QED
  BY <1>4, CodeRead DEF c

LEMMA RangeAccepted ==
  ASSUME NEW code, NEW buf, Len(buf) \in Nat, DeserializeRange(code, buf).ok
  PROVE  buf[1] = code
<1> DEFINE c == ReadCode(buf, code)
           a == ReadBe(2, c.rest)
           q == ReadBe(2, a.rest)
           final == CreateRange(code, a.value, q.value, q.rest)
           steps == <<c, a, q>>
<1>1. DeserializeRange(code, buf) = Decoded(steps, final)
  BY Zenon DEF DeserializeRange
<1> HIDE DEF c, a, q, final
<1>2. DOMAIN steps = 1 .. 3 /\ steps[1] = c
  OBVIOUS
<1> HIDE DEF steps
<1>3. \A i \in 1 .. 3 : steps[i].ok
  BY <1>1, <1>2, DecodedOk
<1>4. c.ok
  BY <1>2, <1>3
<1> QED
  BY <1>4, CodeRead DEF c

LEMMA SingleAccepted ==
  ASSUME NEW code, NEW buf, Len(buf) \in Nat, DeserializeSingle(code, buf).ok
  PROVE  buf[1] = code
<1> DEFINE c == ReadCode(buf, code)
           a == ReadBe(2, c.rest)
           w == ReadBe(2, a.rest)
           v == IF code \in BitCodes THEN CoilFromRaw(w.value, w.rest) ELSE w
           final == CreateSingle(code, a.value, v.value, v.rest)
           steps == <<c, a, w, v>>
<1>1. DeserializeSingle(code, buf) = Decoded(steps, final)
  BY Zenon DEF DeserializeSingle
<1> HIDE DEF c, a, w, v, final
<1>2. DOMAIN steps = 1 .. 4 /\ steps[1] = c
  OBVIOUS
<1> HIDE DEF steps
<1>3. \A i \in 1 .. 4 : steps[i].ok
  BY <1>1, <1>2, DecodedOk
<1>4. c.ok
  BY <1>2, <1>3
<1> QED
  BY <1>4, CodeRead DEF c

\* All a call looks at to tell whether a response is its own: the function code
\* and, when it reads bits, the byte count.
LEMMA ResponseAccepted ==
  ASSUME NEW op, op.code \in ReadCodes \cup WriteSingleCodes \cup WriteMultipleCodes,
         NEW pdu, Len(pdu) \in Nat, ResponseOf(op, pdu).ok
  PROVE  /\ pdu[1] = op.code
         /\ op.code \in ReadCodes \cap BitCodes => pdu[2] = BitsToBytes(op.quantity)
<1> DEFINE code == op.code
           n == op.quantity
<1>1. ResponseOf(op, pdu) = Deserialize(ResponseKind(code), code, n, pdu)
  BY DEF ResponseOf
<1>2. CASE code \in ReadCodes /\ code \in BitCodes
  <2>1. ResponseKind(code) = "values"
    BY <1>2, CodeNumbers DEF ResponseKind
  <2>2. ResponseOf(op, pdu) = DeserializeBits(code, pdu, n)
    BY <1>1, <1>2, <2>1 DEF Deserialize, DeserializeValues
  <2> QED
    BY <2>2, BitsAccepted
<1>3. CASE code \in ReadCodes /\ code \notin BitCodes
  <2>1. ResponseKind(code) = "values"
    BY <1>3, CodeNumbers DEF ResponseKind
  <2>2. ResponseOf(op, pdu) = DeserializeRegisters(code, pdu, n)
    BY <1>1, <1>3, <2>1 DEF Deserialize, DeserializeValues
  <2> QED
    BY <1>3, <2>2, RegistersAccepted
<1>4. CASE code \in WriteSingleCodes
  <2>1. ResponseKind(code) = "single" /\ code \notin ReadCodes
    BY <1>4, CodeNumbers DEF ResponseKind
  <2>2. ResponseOf(op, pdu) = DeserializeSingle(code, pdu)
    BY <1>1, <2>1 DEF Deserialize
  <2> QED
    BY <2>1, <2>2, SingleAccepted
<1>5. CASE code \in WriteMultipleCodes
  <2>1. ResponseKind(code) = "range" /\ code \notin ReadCodes
    BY <1>5, CodeNumbers DEF ResponseKind
  <2>2. ResponseOf(op, pdu) = DeserializeRange(code, pdu)
    BY <1>1, <2>1 DEF Deserialize
  <2> QED
    BY <2>1, <2>2, RangeAccepted
<1> QED
  BY <1>2, <1>3, <1>4, <1>5

----------------------------------------------------------------------------
(***************************************************************************)
(* What a call sends and what the slave does with it.                      *)
(***************************************************************************)

LEMMA CreatedRange ==
  ASSUME NEW code, NEW address, NEW quantity, NEW rest,
         CreateRange(code, address, quantity, rest).ok
  PROVE  /\ QuantityAllowed(code, quantity) /\ ~ WouldAddressOverflow(address, quantity)
         /\ CreateRange(code, address, quantity, rest) =
              Ok([address |-> address, quantity |-> quantity], rest)
<1> DEFINE q == Require(QuantityAllowed(code, quantity), "kInvalidQuantity", rest)
           a == Require(~ WouldAddressOverflow(address, quantity), "kAddressOverflow", rest)
           final == Ok([address |-> address, quantity |-> quantity], rest)
           steps == <<q, a>>
<1>1. CreateRange(code, address, quantity, rest) = Decoded(steps, final)
  BY Zenon DEF CreateRange
<1> HIDE DEF q, a, final
<1>2. DOMAIN steps = 1 .. 2 /\ steps[1] = q /\ steps[2] = a
  OBVIOUS
<1> HIDE DEF steps
<1>3. Decoded(steps, final) = final /\ \A i \in 1 .. 2 : steps[i].ok
  BY <1>1, <1>2, DecodedOk
<1>4. q.ok /\ a.ok
  BY <1>2, <1>3
<1>5. QuantityAllowed(code, quantity)
  BY <1>4, ErrIsNot DEF q, Require
<1>6. ~ WouldAddressOverflow(address, quantity)
  BY <1>4, ErrIsNot DEF a, Require
<1> QED
  BY <1>1, <1>3, <1>5, <1>6 DEF final

LEMMA CreatedSingle ==
  ASSUME NEW code, NEW address, NEW value, NEW rest,
         CreateSingle(code, address, value, rest).ok
  PROVE  /\ code \in BitCodes => value \in Coil
         /\ CreateSingle(code, address, value, rest) =
              Ok([address |-> address, value |-> value], rest)
<1> DEFINE c == Require(code \in BitCodes => value \in Coil, "kInvalidValue", rest)
           final == Ok([address |-> address, value |-> value], rest)
           steps == <<c>>
<1>1. CreateSingle(code, address, value, rest) = Decoded(steps, final)
  BY Zenon DEF CreateSingle
<1> HIDE DEF c, final
<1>2. DOMAIN steps = 1 .. 1 /\ steps[1] = c
  OBVIOUS
<1> HIDE DEF steps
<1>3. Decoded(steps, final) = final /\ \A i \in 1 .. 1 : steps[i].ok
  BY <1>1, <1>2, DecodedOk
<1>4. code \in BitCodes => value \in Coil
  BY <1>2, <1>3, ErrIsNot DEF c, Require
<1> QED
  BY <1>1, <1>3, <1>4 DEF final

LEMMA CreatedWrite ==
  ASSUME NEW code, NEW address, NEW values, NEW rest,
         CreateWrite(code, address, values, rest).ok
  PROVE  /\ QuantityAllowed(code, Len(values)) /\ ~ WouldAddressOverflow(address, Len(values))
         /\ code \in BitCodes => \A i \in DOMAIN values : values[i] \in Coil
         /\ CreateWrite(code, address, values, rest) =
              Ok([address |-> address, values |-> values], rest)
<1> DEFINE n == Require(QuantityAllowed(code, Len(values)), "kInvalidQuantity", rest)
           a == Require(~ WouldAddressOverflow(address, Len(values)), "kAddressOverflow", rest)
           c == Require(code \in BitCodes => \A i \in DOMAIN values : values[i] \in Coil,
                        "kInvalidValue", rest)
           final == Ok([address |-> address, values |-> values], rest)
           steps == <<n, a, c>>
<1>1. CreateWrite(code, address, values, rest) = Decoded(steps, final)
  BY Zenon DEF CreateWrite
<1> HIDE DEF n, a, c, final
<1>2. DOMAIN steps = 1 .. 3 /\ steps[1] = n /\ steps[2] = a /\ steps[3] = c
  OBVIOUS
<1> HIDE DEF steps
<1>3. Decoded(steps, final) = final /\ \A i \in 1 .. 3 : steps[i].ok
  BY <1>1, <1>2, DecodedOk
<1>4. n.ok /\ a.ok /\ c.ok
  BY <1>2, <1>3
<1>5. QuantityAllowed(code, Len(values))
  BY <1>4, ErrIsNot DEF n, Require
<1>6. ~ WouldAddressOverflow(address, Len(values))
  BY <1>4, ErrIsNot DEF a, Require
<1>7. code \in BitCodes => \A i \in DOMAIN values : values[i] \in Coil
  BY <1>4, ErrIsNot DEF c, Require
<1> QED
  BY <1>1, <1>3, <1>5, <1>6, <1>7 DEF final

\* The other way round: what Create makes when it has nothing to object to.
LEMMA RangeMade ==
  ASSUME NEW code, NEW address, NEW quantity, NEW rest,
         QuantityAllowed(code, quantity), ~ WouldAddressOverflow(address, quantity)
  PROVE  CreateRange(code, address, quantity, rest) =
           Ok([address |-> address, quantity |-> quantity], rest)
<1> DEFINE q == Require(QuantityAllowed(code, quantity), "kInvalidQuantity", rest)
           a == Require(~ WouldAddressOverflow(address, quantity), "kAddressOverflow", rest)
           final == Ok([address |-> address, quantity |-> quantity], rest)
           steps == <<q, a>>
<1>1. CreateRange(code, address, quantity, rest) = Decoded(steps, final)
  BY Zenon DEF CreateRange
<1>2. q.ok /\ a.ok
  BY OkIsOk DEF Require
<1> HIDE DEF q, a, final
<1>3. \A i \in DOMAIN steps : steps[i].ok
  BY <1>2
<1> HIDE DEF steps
<1>4. (\A i \in DOMAIN steps : steps[i].ok) => Decoded(steps, final) = final
  BY Zenon DEF Decoded
<1> QED
  BY <1>1, <1>3, <1>4 DEF final

LEMMA SingleMade ==
  ASSUME NEW code, NEW address, NEW value, NEW rest, code \in BitCodes => value \in Coil
  PROVE  CreateSingle(code, address, value, rest) =
           Ok([address |-> address, value |-> value], rest)
<1> DEFINE c == Require(code \in BitCodes => value \in Coil, "kInvalidValue", rest)
           final == Ok([address |-> address, value |-> value], rest)
           steps == <<c>>
<1>1. CreateSingle(code, address, value, rest) = Decoded(steps, final)
  BY Zenon DEF CreateSingle
<1>2. c.ok
  BY OkIsOk DEF Require
<1> HIDE DEF c, final
<1>3. \A i \in DOMAIN steps : steps[i].ok
  BY <1>2
<1> HIDE DEF steps
<1>4. (\A i \in DOMAIN steps : steps[i].ok) => Decoded(steps, final) = final
  BY Zenon DEF Decoded
<1> QED
  BY <1>1, <1>3, <1>4 DEF final

LEMMA WriteMade ==
  ASSUME NEW code, NEW address, NEW values, NEW rest,
         QuantityAllowed(code, Len(values)), ~ WouldAddressOverflow(address, Len(values)),
         code \in BitCodes => \A i \in DOMAIN values : values[i] \in Coil
  PROVE  CreateWrite(code, address, values, rest) =
           Ok([address |-> address, values |-> values], rest)
<1> DEFINE n == Require(QuantityAllowed(code, Len(values)), "kInvalidQuantity", rest)
           a == Require(~ WouldAddressOverflow(address, Len(values)), "kAddressOverflow", rest)
           c == Require(code \in BitCodes => \A i \in DOMAIN values : values[i] \in Coil,
                        "kInvalidValue", rest)
           final == Ok([address |-> address, values |-> values], rest)
           steps == <<n, a, c>>
<1>1. CreateWrite(code, address, values, rest) = Decoded(steps, final)
  BY Zenon DEF CreateWrite
<1>2. n.ok /\ a.ok
  BY OkIsOk DEF Require
<1>3. c.ok
  <2>1. c = Ok(0, rest)
    BY Zenon DEF Require
  <2> QED
    BY <2>1, OkIsOk
<1> HIDE DEF n, a, c, final
<1>4. \A i \in DOMAIN steps : steps[i].ok
  BY <1>2, <1>3
<1> HIDE DEF steps
<1>5. (\A i \in DOMAIN steps : steps[i].ok) => Decoded(steps, final) = final
  BY Zenon DEF Decoded
<1> QED
  BY <1>1, <1>4, <1>5 DEF final

LEMMA ValuesMade ==
  ASSUME NEW code, NEW values, NEW rest, QuantityAllowed(code, Len(values))
  PROVE  CreateValues(code, values, rest) = Ok([values |-> values], rest)
<1> DEFINE r == Require(QuantityAllowed(code, Len(values)), "kInvalidQuantity", rest)
           steps == <<r>>
           final == Ok([values |-> values], rest)
<1>1. CreateValues(code, values, rest) = Decoded(steps, final)
  BY Zenon DEF CreateValues
<1>2. r.ok
  BY OkIsOk DEF Require
<1> HIDE DEF r, final
<1>3. \A i \in DOMAIN steps : steps[i].ok
  BY <1>2
<1> HIDE DEF steps
<1>4. (\A i \in DOMAIN steps : steps[i].ok) => Decoded(steps, final) = final
  BY Zenon DEF Decoded
<1> QED
  BY <1>1, <1>3, <1>4 DEF final

\* An operation whose request is sent.
Sent(op) == OperationType(op) /\ Refusal(op) = "none"

LEMMA SentIsCreated ==
  ASSUME NEW op, Sent(op)
  PROVE  Created(op).ok
<1>1. Refusal(op) = "none"
  BY DEF Sent
<1> QED
  BY <1>1 DEF Refusal

LEMMA SentRead ==
  ASSUME NEW op, Sent(op), op.code \in ReadCodes
  PROVE  /\ QuantityAllowed(op.code, op.quantity)
         /\ Created(op) = Ok([address |-> op.address, quantity |-> op.quantity], <<>>)
         /\ Created(op).value = [address |-> op.address, quantity |-> op.quantity]
<1>1. Created(op) = CreateRange(op.code, op.address, op.quantity, <<>>)
  BY CodeNumbers DEF Created
<1>2. /\ QuantityAllowed(op.code, op.quantity)
      /\ Created(op) = Ok([address |-> op.address, quantity |-> op.quantity], <<>>)
  BY <1>1, SentIsCreated, CreatedRange
<1> QED
  BY <1>2, OkIsOk

\* The byte count of bits is not cut to a byte at any quantity that is allowed.
LEMMA BitsFit ==
  ASSUME NEW code \in ReadCodes \cap BitCodes, NEW n \in Word, QuantityAllowed(code, n)
  PROVE  ByteCount(code, n) = BitsToBytes(n)
<1>1. n \in Nat
  BY WordIsNat, Zenon
<1>2. kMaxQuantity[code] \in Nat /\ kMaxQuantity[code] <= 2000
  BY CodeNumbers DEF kMaxQuantity, kReadCoils, kReadDiscreteInputs,
     kReadHoldingRegisters, kReadInputRegisters, kWriteMultipleCoils
<1>3. n <= 2000
  BY <1>1, <1>2 DEF QuantityAllowed
<1>4. BitsToBytes(n) \in 0 .. 255
  BY <1>1, <1>3 DEF BitsToBytes
<1>5. BitsToBytes(n) % 256 = BitsToBytes(n)
  BY <1>4
<1> QED
  BY <1>5 DEF ByteCount

LEMMA SentSingle ==
  ASSUME NEW op, Sent(op), op.code \in WriteSingleCodes
  PROVE  /\ op.code \in BitCodes => op.values[1] \in Coil
         /\ Created(op) = Ok([address |-> op.address, value |-> op.values[1]], <<>>)
         /\ Created(op).value = [address |-> op.address, value |-> op.values[1]]
<1> DEFINE create == CreateSingle(op.code, op.address, op.values[1], <<>>)
           value == [address |-> op.address, value |-> op.values[1]]
<1>1. Created(op) = create
  BY CodeNumbers DEF Created
<1>2. create.ok
  BY <1>1, SentIsCreated
<1>3. /\ op.code \in BitCodes => op.values[1] \in Coil
      /\ create = Ok(value, <<>>)
  <2>1. ASSUME NEW c, NEW a, NEW v, CreateSingle(c, a, v, <<>>).ok
        PROVE  /\ c \in BitCodes => v \in Coil
               /\ CreateSingle(c, a, v, <<>>) = Ok([address |-> a, value |-> v], <<>>)
    BY <2>1, CreatedSingle
  <2> QED
    BY <1>2, <2>1, Zenon
<1>4. Created(op) = Ok(value, <<>>)
  BY <1>1, <1>3, Zenon
<1> QED
  BY <1>3, <1>4, OkIsOk

LEMMA SentMultiple ==
  ASSUME NEW op, Sent(op), op.code \in WriteMultipleCodes
  PROVE  /\ QuantityAllowed(op.code, Len(op.values))
         /\ ~ WouldAddressOverflow(op.address, Len(op.values))
         /\ op.code \in BitCodes => \A i \in DOMAIN op.values : op.values[i] \in Coil
         /\ Created(op) = Ok([address |-> op.address, values |-> op.values], <<>>)
         /\ Created(op).value = [address |-> op.address, values |-> op.values]
<1> DEFINE create == CreateWrite(op.code, op.address, op.values, <<>>)
           value == [address |-> op.address, values |-> op.values]
<1>1. Created(op) = create
  BY CodeNumbers DEF Created
<1>2. create.ok
  BY <1>1, SentIsCreated
<1>3. /\ QuantityAllowed(op.code, Len(op.values))
      /\ ~ WouldAddressOverflow(op.address, Len(op.values))
      /\ op.code \in BitCodes => \A i \in DOMAIN op.values : op.values[i] \in Coil
      /\ create = Ok(value, <<>>)
  <2>1. ASSUME NEW c, NEW a, NEW v, CreateWrite(c, a, v, <<>>).ok
        PROVE  /\ QuantityAllowed(c, Len(v)) /\ ~ WouldAddressOverflow(a, Len(v))
               /\ c \in BitCodes => \A i \in DOMAIN v : v[i] \in Coil
               /\ CreateWrite(c, a, v, <<>>) = Ok([address |-> a, values |-> v], <<>>)
    BY <2>1, CreatedWrite
  <2> QED
    BY <1>2, <2>1, Zenon
<1>4. Created(op) = Ok(value, <<>>)
  BY <1>1, <1>3, Zenon
<1> QED
  BY <1>3, <1>4, OkIsOk

----------------------------------------------------------------------------
(***************************************************************************)
(* Buffers.                                                                *)
(***************************************************************************)

\* What a reader leaves of a buffer.
LEMMA FromElements ==
  ASSUME NEW S, NEW buf \in Seq(S), NEW k \in 0 .. Len(buf)
  PROVE  /\ From(buf, k) \in Seq(S) /\ Len(From(buf, k)) = Len(buf) - k
         /\ \A i \in 1 .. Len(buf) - k : From(buf, k)[i] = buf[k + i]
<1>1. Len(buf) \in Nat /\ \A i \in 1 .. Len(buf) : buf[i] \in S
  BY ElementOfSeq, LenProperties
<1>2. k + 1 \in Int /\ Len(buf) \in Int /\ \A i \in k + 1 .. Len(buf) : buf[i] \in S
  BY <1>1
<1>3. /\ SubSeq(buf, k + 1, Len(buf)) \in Seq(S)
      /\ Len(SubSeq(buf, k + 1, Len(buf))) =
           IF k + 1 <= Len(buf) THEN Len(buf) - (k + 1) + 1 ELSE 0
      /\ \A i \in 1 .. Len(buf) - (k + 1) + 1 :
           SubSeq(buf, k + 1, Len(buf))[i] = buf[k + 1 + i - 1]
  BY <1>2, SubSeqProperties
<1>4. From(buf, k) = SubSeq(buf, k + 1, Len(buf))
  BY DEF From
<1> QED
  BY <1>1, <1>3, <1>4

\* A sequence is what its elements are.
LEMMA SameElements ==
  ASSUME NEW S, NEW s \in Seq(S), NEW t \in Seq(S), Len(s) = Len(t),
         \A i \in 1 .. Len(s) : s[i] = t[i]
  PROVE  s = t
BY SeqEqual

\* One field read after another.
LEMMA FromFrom ==
  ASSUME NEW S, NEW buf \in Seq(S), NEW k \in 0 .. Len(buf), NEW n \in 0 .. Len(buf) - k
  PROVE  From(From(buf, k), n) = From(buf, k + n)
<1>1. Len(buf) \in Nat
  BY LenProperties
<1>2. k + n \in 0 .. Len(buf)
  BY <1>1
<1> DEFINE rest == From(buf, k)
           both == From(buf, k + n)
<1>3. /\ rest \in Seq(S) /\ Len(rest) = Len(buf) - k
      /\ \A i \in 1 .. Len(buf) - k : rest[i] = buf[k + i]
  BY FromElements
<1>4. /\ both \in Seq(S) /\ Len(both) = Len(buf) - (k + n)
      /\ \A i \in 1 .. Len(buf) - (k + n) : both[i] = buf[k + n + i]
  BY <1>2, FromElements
<1> HIDE DEF rest, both
<1>5. n \in 0 .. Len(rest)
  BY <1>3
<1>6. /\ From(rest, n) \in Seq(S) /\ Len(From(rest, n)) = Len(rest) - n
      /\ \A i \in 1 .. Len(rest) - n : From(rest, n)[i] = rest[n + i]
  BY <1>3, <1>5, FromElements, SMTT(30)
<1>7. Len(From(rest, n)) = Len(both)
  BY <1>1, <1>3, <1>4, <1>6
<1>8. \A i \in 1 .. Len(both) : From(rest, n)[i] = both[i]
  <2> SUFFICES ASSUME NEW i \in 1 .. Len(both)
               PROVE  From(rest, n)[i] = both[i]
    OBVIOUS
  <2>1. i \in 1 .. Len(rest) - n /\ n + i \in 1 .. Len(buf) - k
    BY <1>1, <1>3, <1>4
  <2>2. From(rest, n)[i] = rest[n + i]
    BY <1>6, <2>1
  <2>3. rest[n + i] = buf[k + (n + i)]
    BY <1>3, <2>1
  <2>4. both[i] = buf[k + n + i]
    BY <1>4
  <2>5. k + (n + i) = k + n + i
    BY <1>1, <2>1
  <2> QED
    BY <2>2, <2>3, <2>4, <2>5
<1> QED
  BY <1>4, <1>6, <1>7, <1>8, SameElements DEF rest, both

\* A reader that takes nothing, and one that takes everything.
LEMMA FromNothing ==
  ASSUME NEW S, NEW buf \in Seq(S)
  PROVE  From(buf, 0) = buf /\ From(buf, Len(buf)) = <<>>
<1>1. Len(buf) \in Nat
  BY LenProperties
<1>2. 0 \in 0 .. Len(buf) /\ Len(buf) \in 0 .. Len(buf)
  BY <1>1
<1>3. /\ From(buf, 0) \in Seq(S) /\ Len(From(buf, 0)) = Len(buf) - 0
      /\ \A i \in 1 .. Len(buf) - 0 : From(buf, 0)[i] = buf[0 + i]
  BY <1>2, FromElements
<1>4. From(buf, Len(buf)) \in Seq(S) /\ Len(From(buf, Len(buf))) = Len(buf) - Len(buf)
  BY <1>2, FromElements
<1>5. From(buf, 0) = buf
  <2>1. Len(From(buf, 0)) = Len(buf) /\ \A i \in 1 .. Len(From(buf, 0)) : From(buf, 0)[i] = buf[i]
    BY <1>1, <1>3
  <2> QED
    BY <1>3, <2>1, SameElements
<1>6. From(buf, Len(buf)) = <<>>
  BY <1>1, <1>4, EmptySeq
<1> QED
  BY <1>5, <1>6

\* A field in the middle of a buffer.
LEMMA ReadByte ==
  ASSUME NEW S, NEW buf \in Seq(S), NEW k \in 0 .. Len(buf) - 1
  PROVE  ReadBe(1, From(buf, k)) = Ok(buf[k + 1], From(buf, k + 1))
<1>1. Len(buf) \in Nat /\ k \in 0 .. Len(buf) /\ 1 \in 0 .. Len(buf) - k
  BY LenProperties
<1>2. Len(From(buf, k)) = Len(buf) - k /\ From(buf, k)[1] = buf[k + 1]
  BY <1>1, FromElements
<1>3. From(From(buf, k), 1) = From(buf, k + 1)
  BY <1>1, FromFrom
<1>4. ~ Len(From(buf, k)) < 1
  BY <1>1, <1>2
<1> QED
  BY <1>2, <1>3, <1>4 DEF ReadBe

\* The same for a field of two bytes.
LEMMA ReadWord ==
  ASSUME NEW S, NEW buf \in Seq(S), NEW k \in 0 .. Len(buf) - 2
  PROVE  ReadBe(2, From(buf, k)) = Ok(256 * buf[k + 1] + buf[k + 2], From(buf, k + 2))
<1>1. Len(buf) \in Nat /\ k \in 0 .. Len(buf) /\ 2 \in 0 .. Len(buf) - k
  BY LenProperties
<1>2. Len(From(buf, k)) = Len(buf) - k /\ From(buf, k)[1] = buf[k + 1] /\ From(buf, k)[2] = buf[k + 2]
  BY <1>1, FromElements
<1>3. From(From(buf, k), 2) = From(buf, k + 2)
  BY <1>1, FromFrom
<1>4. ~ Len(From(buf, k)) < 2
  BY <1>1, <1>2
<1> QED
  BY <1>2, <1>3, <1>4 DEF ReadBe

\* A decoder whose steps all succeed gives what its last step makes.
LEMMA DecodedAll ==
  ASSUME NEW steps, NEW final, \A i \in DOMAIN steps : steps[i].ok
  PROVE  Decoded(steps, final) = final
BY Zenon DEF Decoded

\* A condition that holds stops no decoder.
LEMMA RequireTrue ==
  ASSUME NEW condition, condition, NEW error, NEW rest
  PROVE  Require(condition, error, rest) = Ok(0, rest)
BY DEF Require

\* The function code of a message is read by the class it belongs to.
LEMMA CodeReadBack ==
  ASSUME NEW S, NEW buf \in Seq(S), Len(buf) >= 1, NEW code, buf[1] = code
  PROVE  ReadCode(buf, code) = Ok(0, From(buf, 1))
<1> DEFINE c == ReadBe(1, buf)
           r == Require(c.value = code, "kInvalidFunctionCode", c.rest)
<1>1. Len(buf) \in Nat /\ From(buf, 0) = buf
  BY FromNothing, LenProperties
<1>2. 0 \in 0 .. Len(buf) - 1
  BY <1>1
<1>3. ReadBe(1, From(buf, 0)) = Ok(buf[0 + 1], From(buf, 0 + 1))
  BY <1>2, ReadByte
<1>4. c = Ok(buf[1], From(buf, 1))
  BY <1>1, <1>3
<1>5. c.ok /\ c.value = code /\ c.rest = From(buf, 1)
  BY <1>4, OkIsOk
<1>6. ReadCode(buf, code) = Decoded(<<c>>, r)
  BY DEF ReadCode
<1> HIDE DEF c
<1>7. r = Ok(0, From(buf, 1))
  BY <1>5 DEF Require
<1>8. \A i \in DOMAIN <<c>> : <<c>>[i].ok
  BY <1>5
<1> HIDE DEF r
<1> QED
  BY <1>6, <1>7, <1>8, DecodedAll

\* Where the elements of two joined sequences are.
LEMMA Joined ==
  ASSUME NEW S, NEW s \in Seq(S), NEW t \in Seq(S)
  PROVE  /\ s \o t \in Seq(S) /\ Len(s \o t) = Len(s) + Len(t)
         /\ \A i \in 1 .. Len(s) : (s \o t)[i] = s[i]
         /\ \A i \in 1 .. Len(t) : (s \o t)[Len(s) + i] = t[i]
<1>1. Len(s) \in Nat /\ Len(t) \in Nat
  BY LenProperties
<1>2. /\ s \o t \in Seq(S) /\ Len(s \o t) = Len(s) + Len(t)
      /\ \A i \in 1 .. Len(s) + Len(t) :
           (s \o t)[i] = IF i <= Len(s) THEN s[i] ELSE t[i - Len(s)]
  BY ConcatProperties
<1> DEFINE both == s \o t
<1> HIDE DEF both
<1>3. \A i \in 1 .. Len(s) : both[i] = s[i]
  BY <1>1, <1>2 DEF both
<1>4. ASSUME NEW i \in 1 .. Len(t)
      PROVE  both[Len(s) + i] = t[i]
  <2>1. /\ Len(s) + i \in 1 .. Len(s) + Len(t)
        /\ ~ Len(s) + i <= Len(s) /\ Len(s) + i - Len(s) = i
    BY <1>1
  <2> QED
    BY <1>2, <2>1 DEF both
<1> QED
  BY <1>2, <1>3, <1>4 DEF both

\* What follows the first of two joined sequences is the second.
LEMMA FromJoined ==
  ASSUME NEW S, NEW s \in Seq(S), NEW t \in Seq(S)
  PROVE  From(s \o t, Len(s)) = t
<1> DEFINE both == s \o t
           rest == From(both, Len(s))
<1>1. Len(s) \in Nat /\ Len(t) \in Nat
  BY LenProperties
<1>2. /\ both \in Seq(S) /\ Len(both) = Len(s) + Len(t)
      /\ \A i \in 1 .. Len(t) : both[Len(s) + i] = t[i]
  BY Joined
<1> HIDE DEF both
<1>3. Len(s) \in 0 .. Len(both)
  BY <1>1, <1>2
<1>4. /\ rest \in Seq(S) /\ Len(rest) = Len(both) - Len(s)
      /\ \A i \in 1 .. Len(both) - Len(s) : rest[i] = both[Len(s) + i]
  BY <1>2, <1>3, FromElements
<1> HIDE DEF rest
<1>5. Len(rest) = Len(t)
  BY <1>1, <1>2, <1>4
<1>6. \A i \in 1 .. Len(rest) : rest[i] = t[i]
  BY <1>2, <1>4, <1>5
<1> QED
  BY <1>4, <1>5, <1>6, SameElements DEF both, rest

\* The largest word, without the number that costs the provers most.
WordLimit == 256 * 255 + 255

LEMMA WordRange == Word = 0 .. WordLimit /\ WordLimit \in Nat
BY SMTT(30) DEF Word, WordLimit

LEMMA IsWord ==
  ASSUME NEW w \in Nat, w <= WordLimit
  PROVE  w \in Word
<1>1. w \in 0 .. WordLimit
  BY WordRange
<1> QED
  BY <1>1, WordRange

LEMMA CoilIsWords == Coil \subseteq Word
BY IsWord DEF Coil, WordLimit

\* A word is what its two bytes make.
LEMMA WordParts ==
  ASSUME NEW w \in Word
  PROVE  /\ w \in Nat /\ w \div 256 \in Byte /\ (w % 256) \in Byte
         /\ 256 * (w \div 256) + (w % 256) = w
<1>1. w \in Nat /\ w <= WordLimit
  BY WordRange
<1>2. w \div 256 \in 0 .. 255
  BY <1>1 DEF WordLimit
<1>3. (w % 256) \in 0 .. 255
  BY <1>1
<1>4. 256 * (w \div 256) + (w % 256) = w
  BY <1>1
<1> QED
  BY <1>1, <1>2, <1>3, <1>4 DEF Byte

\* Two bytes make a word.
LEMMA WordOfBytes ==
  ASSUME NEW h \in Byte, NEW l \in Byte
  PROVE  256 * h + l \in Word
<1>1. PICK w : w = 256 * h + l
  OBVIOUS
<1>2. w \in Nat /\ w <= WordLimit
  BY <1>1 DEF Byte, WordLimit
<1>3. w \in Word
  BY <1>2, IsWord
<1> QED
  BY <1>1, <1>3, Zenon

\* The function code and the two words of a message of fixed size.
LEMMA FiveBytes ==
  ASSUME NEW code \in Byte, NEW a \in Word, NEW b \in Word
  PROVE  LET bytes == <<code>> \o Be16(a) \o Be16(b)
         IN  /\ bytes \in Seq(Byte) /\ Len(bytes) = 5 /\ bytes[1] = code
             /\ 256 * bytes[2] + bytes[3] = a /\ 256 * bytes[4] + bytes[5] = b
<1> DEFINE ah == a \div 256
           al == a % 256
           bh == b \div 256
           bl == b % 256
<1>1. ah \in Byte /\ al \in Byte /\ 256 * ah + al = a
  BY WordParts, ZenonT(30)
<1>2. bh \in Byte /\ bl \in Byte /\ 256 * bh + bl = b
  BY WordParts, ZenonT(30)
<1>3. Be16(a) = <<ah, al>> /\ Be16(b) = <<bh, bl>>
  BY Zenon DEF Be16
<1> HIDE DEF ah, al, bh, bl
<1> DEFINE s == <<code>>
           u == Be16(a)
           v == Be16(b)
<1>4. s \in Seq(Byte) /\ Len(s) = 1 /\ s[1] = code
  OBVIOUS
<1>5. u \in Seq(Byte) /\ Len(u) = 2 /\ u[1] = ah /\ u[2] = al
  BY <1>1, <1>3
<1>6. v \in Seq(Byte) /\ Len(v) = 2 /\ v[1] = bh /\ v[2] = bl
  BY <1>2, <1>3
<1> HIDE DEF s, u, v
<1>7. \A p, q \in Seq(Byte) :
        /\ p \o q \in Seq(Byte) /\ Len(p \o q) = Len(p) + Len(q)
        /\ \A i \in 1 .. Len(p) : (p \o q)[i] = p[i]
        /\ \A i \in 1 .. Len(q) : (p \o q)[Len(p) + i] = q[i]
  BY Joined
<1> DEFINE x == s \o u
           y == x \o v
<1>8. /\ x \in Seq(Byte) /\ Len(x) = Len(s) + Len(u)
      /\ \A i \in 1 .. Len(s) : x[i] = s[i]
      /\ \A i \in 1 .. Len(u) : x[Len(s) + i] = u[i]
  BY <1>4, <1>5, <1>7, Zenon
<1> HIDE DEF x
<1>9. Len(x) = 3 /\ x[1] = code /\ x[2] = ah /\ x[3] = al
  BY <1>4, <1>5, <1>8
<1>10. /\ y \in Seq(Byte) /\ Len(y) = Len(x) + Len(v)
       /\ \A i \in 1 .. Len(x) : y[i] = x[i]
       /\ \A i \in 1 .. Len(v) : y[Len(x) + i] = v[i]
  BY <1>6, <1>7, <1>8, Zenon
<1> HIDE DEF y
<1>11. Len(y) = 5 /\ y[1] = code /\ y[2] = ah /\ y[3] = al /\ y[4] = bh /\ y[5] = bl
  BY <1>6, <1>9, <1>10
<1>12. 256 * y[2] + y[3] = a /\ 256 * y[4] + y[5] = b
  BY <1>1, <1>2, <1>11
<1> QED
  BY <1>10, <1>11, <1>12 DEF s, u, v, x, y

----------------------------------------------------------------------------
(***************************************************************************)
(* The fields of a buffer, whoever wrote it.                               *)
(***************************************************************************)

\* A field that was read was there.
LEMMA FieldFits ==
  ASSUME NEW S, NEW buf \in Seq(S), NEW k \in 0 .. Len(buf), NEW size \in Nat,
         ReadBe(size, From(buf, k)).ok
  PROVE  k + size <= Len(buf)
<1>1. Len(From(buf, k)) = Len(buf) - k
  BY FromElements
<1>2. ~ Len(From(buf, k)) < size
  BY ErrIsNot DEF ReadBe
<1> QED
  BY <1>1, <1>2, LenProperties

\* A byte string holds bytes.
LEMMA BytesOf ==
  ASSUME NEW buf \in Seq(Byte)
  PROVE  Len(buf) \in Nat /\ \A i \in 1 .. Len(buf) : buf[i] \in Byte /\ buf[i] \in Nat
<1>1. Len(buf) \in Nat /\ \A i \in 1 .. Len(buf) : buf[i] \in Byte
  BY ElementOfSeq, LenProperties
<1>2. Byte \subseteq Nat
  BY DEF Byte
<1> QED
  BY <1>1, <1>2

\* The words behind the function code, as they come out of a reader.
FieldOf(buf, k) == 256 * buf[k] + buf[k + 1]

FieldsRead(code, buf, c, a, q) ==
  /\ Len(buf) >= 5 /\ buf[1] = code
  /\ c.ok /\ a = Ok(FieldOf(buf, 2), From(buf, 3)) /\ q = Ok(FieldOf(buf, 4), From(buf, 5))

LEMMA Fields ==
  ASSUME NEW code, NEW buf \in Seq(Byte),
         NEW c, c = ReadCode(buf, code), NEW a, a = ReadBe(2, c.rest),
         NEW q, q = ReadBe(2, a.rest),
         \/ Len(buf) >= 5 /\ buf[1] = code
         \/ c.ok /\ a.ok /\ q.ok
  PROVE  FieldsRead(code, buf, c, a, q)
<1>1. Len(buf) \in Nat
  BY LenProperties
<1>2. Len(buf) >= 1 /\ buf[1] = code
  BY <1>1, CodeRead
<1>3. c = Ok(0, From(buf, 1))
  BY <1>2, CodeReadBack
<1>4. c.ok /\ c.rest = From(buf, 1) /\ 1 \in 0 .. Len(buf)
  BY <1>1, <1>2, <1>3, OkIsOk
<1>5. Len(buf) >= 3
  BY <1>1, <1>4, FieldFits
<1>6. 1 \in 0 .. Len(buf) - 2 /\ 3 \in 0 .. Len(buf)
  BY <1>1, <1>5
<1>7. ReadBe(2, From(buf, 1)) = Ok(256 * buf[1 + 1] + buf[1 + 2], From(buf, 1 + 2))
  BY <1>6, ReadWord
<1>8. a = Ok(FieldOf(buf, 2), From(buf, 3))
  BY <1>4, <1>7 DEF FieldOf
<1>9. a.rest = From(buf, 3)
  BY <1>8, OkIsOk
<1>10. Len(buf) >= 5
  BY <1>1, <1>6, <1>9, FieldFits
<1>11. 3 \in 0 .. Len(buf) - 2
  BY <1>1, <1>10
<1>12. ReadBe(2, From(buf, 3)) = Ok(256 * buf[3 + 1] + buf[3 + 2], From(buf, 3 + 2))
  BY <1>11, ReadWord
<1>13. q = Ok(FieldOf(buf, 4), From(buf, 5))
  BY <1>9, <1>12 DEF FieldOf
<1> QED
  BY <1>2, <1>4, <1>8, <1>10, <1>13, Zenon DEF FieldsRead

\* They are words.
LEMMA FieldIsWord ==
  ASSUME NEW buf \in Seq(Byte), Len(buf) >= 5
  PROVE  FieldOf(buf, 2) \in Word /\ FieldOf(buf, 4) \in Word
<1>1. buf[2] \in Byte /\ buf[3] \in Byte /\ buf[4] \in Byte /\ buf[5] \in Byte
  BY BytesOf
<1>2. 256 * buf[2] + buf[3] \in Word /\ 256 * buf[4] + buf[5] \in Word
  BY <1>1, WordOfBytes, Zenon
<1> QED
  BY <1>2 DEF FieldOf

----------------------------------------------------------------------------
(***************************************************************************)
(* Messages of fixed size.                                                 *)
(***************************************************************************)

\* What the reader of an address and a quantity makes of a buffer.
LEMMA RangeRead ==
  ASSUME NEW code, NEW buf \in Seq(Byte), Len(buf) >= 5, buf[1] = code
  PROVE  DeserializeRange(code, buf) =
           CreateRange(code, FieldOf(buf, 2), FieldOf(buf, 4), From(buf, 5))
<1> DEFINE c == ReadCode(buf, code)
           a == ReadBe(2, c.rest)
           q == ReadBe(2, a.rest)
           final == CreateRange(code, a.value, q.value, q.rest)
           steps == <<c, a, q>>
<1>1. DeserializeRange(code, buf) = Decoded(steps, final)
  BY Zenon DEF DeserializeRange
<1>2. FieldsRead(code, buf, c, a, q)
  BY Fields, Zenon
<1> HIDE DEF c, a, q
<1>3. c.ok /\ a = Ok(FieldOf(buf, 2), From(buf, 3)) /\ q = Ok(FieldOf(buf, 4), From(buf, 5))
  BY <1>2, Zenon DEF FieldsRead
<1>4. /\ a.ok /\ a.value = FieldOf(buf, 2)
      /\ q.ok /\ q.value = FieldOf(buf, 4) /\ q.rest = From(buf, 5)
  BY <1>3, OkIsOk
<1>5. \A i \in DOMAIN steps : steps[i].ok
  BY <1>3, <1>4
<1> HIDE DEF steps
<1> QED
  BY <1>1, <1>4, <1>5, DecodedAll

\* What it accepts begins with those fields.
LEMMA RangeTaken ==
  ASSUME NEW code, NEW buf \in Seq(Byte), DeserializeRange(code, buf).ok
  PROVE  Len(buf) >= 5 /\ buf[1] = code
<1> DEFINE c == ReadCode(buf, code)
           a == ReadBe(2, c.rest)
           q == ReadBe(2, a.rest)
           final == CreateRange(code, a.value, q.value, q.rest)
           steps == <<c, a, q>>
<1>1. DeserializeRange(code, buf) = Decoded(steps, final)
  BY Zenon DEF DeserializeRange
<1>2. c.ok /\ a.ok /\ q.ok => FieldsRead(code, buf, c, a, q)
  BY Fields, Zenon
<1> HIDE DEF c, a, q, final
<1>3. DOMAIN steps = 1 .. 3 /\ steps[1] = c /\ steps[2] = a /\ steps[3] = q
  OBVIOUS
<1> HIDE DEF steps
<1>4. \A i \in 1 .. 3 : steps[i].ok
  BY <1>1, <1>3, DecodedOk
<1>5. c.ok /\ a.ok /\ q.ok
  BY <1>3, <1>4
<1> QED
  BY <1>2, <1>5, Zenon DEF FieldsRead

\* A coil comes out of its raw value as it went in.
LEMMA CoilReadBack ==
  ASSUME NEW value \in Coil, NEW rest
  PROVE  CoilFromRaw(CoilToRaw(value), rest) = Ok(value, rest)
BY DEF Coil, CoilFromRaw, CoilToRaw, kCoilOnRawValue, kCoilOffRawValue

\* The value of a WriteSingle message, from its raw bytes.
SingleValue(code, raw, rest) ==
  IF code \in BitCodes THEN CoilFromRaw(raw, rest) ELSE Ok(raw, rest)

\* What the reader of an address and a value makes of a buffer.
LEMMA SingleRead ==
  ASSUME NEW code, NEW buf \in Seq(Byte), Len(buf) >= 5, buf[1] = code,
         NEW v, v = SingleValue(code, FieldOf(buf, 4), From(buf, 5)), v.ok
  PROVE  DeserializeSingle(code, buf) = CreateSingle(code, FieldOf(buf, 2), v.value, v.rest)
<1> DEFINE c == ReadCode(buf, code)
           a == ReadBe(2, c.rest)
           w == ReadBe(2, a.rest)
           x == IF code \in BitCodes THEN CoilFromRaw(w.value, w.rest) ELSE w
           final == CreateSingle(code, a.value, x.value, x.rest)
           steps == <<c, a, w, x>>
<1>1. DeserializeSingle(code, buf) = Decoded(steps, final)
  BY Zenon DEF DeserializeSingle
<1>2. FieldsRead(code, buf, c, a, w)
  BY Fields, Zenon
<1> HIDE DEF c, a, w
<1>3. c.ok /\ a = Ok(FieldOf(buf, 2), From(buf, 3)) /\ w = Ok(FieldOf(buf, 4), From(buf, 5))
  BY <1>2, Zenon DEF FieldsRead
<1>4. /\ a.ok /\ a.value = FieldOf(buf, 2)
      /\ w.ok /\ w.value = FieldOf(buf, 4) /\ w.rest = From(buf, 5)
  BY <1>3, OkIsOk
<1>5. x = v
  BY <1>3, <1>4, Zenon DEF SingleValue
<1> HIDE DEF x
<1>6. \A i \in DOMAIN steps : steps[i].ok
  BY <1>3, <1>4, <1>5
<1> HIDE DEF steps
<1> QED
  BY <1>1, <1>4, <1>5, <1>6, DecodedAll

\* What it accepts begins with those fields and a value of its class.
LEMMA SingleTaken ==
  ASSUME NEW code, NEW buf \in Seq(Byte), DeserializeSingle(code, buf).ok
  PROVE  Len(buf) >= 5 /\ buf[1] = code /\ SingleValue(code, FieldOf(buf, 4), From(buf, 5)).ok
<1> DEFINE c == ReadCode(buf, code)
           a == ReadBe(2, c.rest)
           w == ReadBe(2, a.rest)
           x == IF code \in BitCodes THEN CoilFromRaw(w.value, w.rest) ELSE w
           final == CreateSingle(code, a.value, x.value, x.rest)
           steps == <<c, a, w, x>>
<1>1. DeserializeSingle(code, buf) = Decoded(steps, final)
  BY Zenon DEF DeserializeSingle
<1>2. c.ok /\ a.ok /\ w.ok => FieldsRead(code, buf, c, a, w)
  BY Fields, Zenon
<1> HIDE DEF c, a, w, final
<1>3. DOMAIN steps = 1 .. 4 /\ steps[1] = c /\ steps[2] = a /\ steps[3] = w /\ steps[4] = x
  <2> HIDE DEF x
  <2> QED
    OBVIOUS
<1> HIDE DEF steps
<1>4. \A i \in 1 .. 4 : steps[i].ok
  <2> HIDE DEF x
  <2> QED
    BY <1>1, <1>3, DecodedOk
<1>5. c.ok /\ a.ok /\ w.ok /\ x.ok
  <2> HIDE DEF x
  <2> QED
    BY <1>3, <1>4
<1>6. Len(buf) >= 5 /\ buf[1] = code /\ w = Ok(FieldOf(buf, 4), From(buf, 5))
  BY <1>2, <1>5, Zenon DEF FieldsRead
<1>7. w.value = FieldOf(buf, 4) /\ w.rest = From(buf, 5)
  BY <1>6, OkIsOk
<1>8. x = SingleValue(code, FieldOf(buf, 4), From(buf, 5))
  BY <1>6, <1>7, Zenon DEF SingleValue
<1> QED
  BY <1>5, <1>6, <1>8, Zenon

\* What begins a buffer is still there with more bytes behind it.
LEMMA HeadKept ==
  ASSUME NEW bytes \in Seq(Byte), NEW tail \in Seq(Byte)
  PROVE  /\ bytes \o tail \in Seq(Byte) /\ Len(bytes \o tail) = Len(bytes) + Len(tail)
         /\ Len(bytes \o tail) \in Nat /\ Len(bytes \o tail) >= Len(bytes)
         /\ \A i \in 1 .. Len(bytes) : (bytes \o tail)[i] = bytes[i]
         /\ From(bytes \o tail, Len(bytes)) = tail
<1>1. Len(bytes) \in Nat /\ Len(tail) \in Nat
  BY LenProperties
<1>2. /\ bytes \o tail \in Seq(Byte) /\ Len(bytes \o tail) = Len(bytes) + Len(tail)
      /\ \A i \in 1 .. Len(bytes) : (bytes \o tail)[i] = bytes[i]
  BY Joined
<1>3. From(bytes \o tail, Len(bytes)) = tail
  BY FromJoined
<1> QED
  BY <1>1, <1>2, <1>3

\* A message of a function code and two words.
Five(code, a, b) == <<code>> \o Be16(a) \o Be16(b)

\* The fields of a message are those of any buffer that begins with it.
FiveBegin(buf, code, a, b, tail) ==
  /\ buf \in Seq(Byte) /\ Len(buf) >= 5 /\ buf[1] = code
  /\ FieldOf(buf, 2) = a /\ FieldOf(buf, 4) = b /\ From(buf, 5) = tail

LEMMA FiveFields ==
  ASSUME NEW code \in Byte, NEW a \in Word, NEW b \in Word, NEW tail \in Seq(Byte)
  PROVE  FiveBegin(Five(code, a, b) \o tail, code, a, b, tail)
<1>1. PICK bytes : bytes = Five(code, a, b)
  OBVIOUS
<1>2. /\ bytes \in Seq(Byte) /\ Len(bytes) = 5 /\ bytes[1] = code
      /\ 256 * bytes[2] + bytes[3] = a /\ 256 * bytes[4] + bytes[5] = b
  BY <1>1, FiveBytes DEF Five
<1>3. PICK buf : buf = bytes \o tail
  OBVIOUS
<1>4. /\ buf \in Seq(Byte) /\ Len(buf) >= Len(bytes)
      /\ \A i \in 1 .. Len(bytes) : buf[i] = bytes[i]
      /\ From(buf, Len(bytes)) = tail
  BY <1>2, <1>3, HeadKept, Zenon
<1>5. /\ Len(buf) >= 5 /\ buf[1] = bytes[1] /\ buf[2] = bytes[2] /\ buf[3] = bytes[3]
      /\ buf[4] = bytes[4] /\ buf[5] = bytes[5] /\ From(buf, 5) = tail
  BY <1>2, <1>4
<1>6. FiveBegin(buf, code, a, b, tail)
  BY <1>2, <1>4, <1>5 DEF FieldOf, FiveBegin
<1> QED
  BY <1>1, <1>3, <1>6, Zenon

\* What is written of an address and a quantity is read back, whatever follows.
LEMMA RangeReadBack ==
  ASSUME NEW code \in Byte, NEW m, m.address \in Word, m.quantity \in Word,
         NEW tail \in Seq(Byte)
  PROVE  DeserializeRange(code, RangeBytes(code, m) \o tail) =
           CreateRange(code, m.address, m.quantity, tail)
<1>1. RangeBytes(code, m) = Five(code, m.address, m.quantity)
  BY DEF RangeBytes, Five
<1>2. PICK buf : buf = RangeBytes(code, m) \o tail
  OBVIOUS
<1>3. FiveBegin(buf, code, m.address, m.quantity, tail)
  BY <1>1, <1>2, FiveFields, Zenon
<1>4. DeserializeRange(code, buf) = CreateRange(code, m.address, m.quantity, tail)
  BY <1>3, RangeRead DEF FiveBegin
<1> QED
  BY <1>2, <1>4, Zenon

\* What is written of an address and a value is read back, whatever follows.
LEMMA SingleReadBack ==
  ASSUME NEW code \in Byte, NEW m, m.address \in Word, m.value \in Word,
         code \in BitCodes => m.value \in Coil, NEW tail \in Seq(Byte)
  PROVE  DeserializeSingle(code, SingleBytes(code, m) \o tail) =
           CreateSingle(code, m.address, m.value, tail)
<1> DEFINE raw == IF code \in BitCodes THEN CoilToRaw(m.value) ELSE m.value
           v == SingleValue(code, raw, tail)
<1>1. raw \in Word
  BY CoilIsWord
<1>2. SingleBytes(code, m) = Five(code, m.address, raw)
  BY Zenon DEF SingleBytes, Five
<1>3. v = Ok(m.value, tail)
  BY CoilReadBack DEF SingleValue
<1> HIDE DEF raw
<1>4. PICK buf : buf = SingleBytes(code, m) \o tail
  OBVIOUS
<1>5. FiveBegin(buf, code, m.address, raw, tail)
  BY <1>1, <1>2, <1>4, FiveFields, Zenon
<1>6. v = SingleValue(code, FieldOf(buf, 4), From(buf, 5))
  BY <1>5, Zenon DEF FiveBegin
<1> HIDE DEF v
<1>7. v.ok /\ v.value = m.value /\ v.rest = tail
  BY <1>3, OkIsOk
<1>8. DeserializeSingle(code, buf) = CreateSingle(code, FieldOf(buf, 2), v.value, v.rest)
  BY <1>5, <1>6, <1>7, SingleRead, Zenon DEF FiveBegin
<1> QED
  BY <1>4, <1>5, <1>7, <1>8, Zenon DEF FiveBegin

\* A function code is a byte.
LEMMA CodeIsByte == ReadCodes \cup WriteSingleCodes \cup WriteMultipleCodes \subseteq Byte
BY CodeNumbers DEF Byte

\* Nothing follows a request.
LEMMA NothingBehind == <<>> \in Seq(Byte) /\ \A bytes \in Seq(Byte) : bytes \o <<>> = bytes
BY ConcatEmptySeq, EmptySeq

\* A function on 1 .. n is a sequence.
LEMMA ListIsSequence ==
  ASSUME NEW n \in Nat, NEW S, NEW f \in [1 .. n -> S]
  PROVE  f \in Seq(S) /\ Len(f) = n
BY LenProperties

----------------------------------------------------------------------------
(***************************************************************************)
(* Lists of values.                                                        *)
(***************************************************************************)

\* Registers come out of their bytes as they went in.
LEMMA WordsReadBack ==
  ASSUME NEW values \in Seq(Word)
  PROVE  /\ PackWords(values) \in Seq(Byte) /\ Len(PackWords(values)) = 2 * Len(values)
         /\ WordsOf(PackWords(values), Len(values)) = values
<1> DEFINE n == Len(values)
           p == PackWords(values)
           w == WordsOf(p, n)
<1>1. n \in Nat /\ \A i \in 1 .. n : values[i] \in Word
  BY LenProperties, ElementOfSeq
<1>2. p = [k \in 1 .. 2 * n |->
             IF k % 2 = 1 THEN values[(k + 1) \div 2] \div 256 ELSE values[k \div 2] % 256]
  BY Zenon DEF PackWords
<1>3. w = [i \in 1 .. n |-> 256 * p[2 * i - 1] + p[2 * i]]
  BY Zenon DEF WordsOf
<1> HIDE DEF n, p, w
<1>4. ASSUME NEW i \in 1 .. n
      PROVE  p[2 * i - 1] = values[i] \div 256 /\ p[2 * i] = values[i] % 256
  <2>1. 2 * i - 1 \in 1 .. 2 * n /\ 2 * i \in 1 .. 2 * n
    BY <1>1
  <2>2. (2 * i - 1) % 2 = 1 /\ (2 * i) % 2 = 0
    BY <1>1
  <2>3. (2 * i - 1 + 1) \div 2 = i /\ (2 * i) \div 2 = i
    BY <1>1
  <2> QED
    BY <1>2, <2>1, <2>2, <2>3
<1>5. ASSUME NEW k \in 1 .. 2 * n
      PROVE  p[k] \in Byte
  <2>1. CASE k % 2 = 1
    <3>1. (k + 1) \div 2 \in 1 .. n
      BY <1>1, <2>1
    <3>2. values[(k + 1) \div 2] \div 256 \in Byte
      BY <1>1, <3>1, WordParts
    <3> QED
      BY <1>2, <2>1, <3>2
  <2>2. CASE k % 2 # 1
    <3>1. k \div 2 \in 1 .. n
      BY <1>1, <2>2
    <3>2. (values[k \div 2] % 256) \in Byte
      BY <1>1, <3>1, WordParts
    <3> QED
      BY <1>2, <2>2, <3>2
  <2> QED
    BY <2>1, <2>2
<1>6. 2 * n \in Nat /\ p \in [1 .. 2 * n -> Byte]
  BY <1>1, <1>2, <1>5
<1>7. p \in Seq(Byte) /\ Len(p) = 2 * n
  BY <1>6, ListIsSequence
<1>8. ASSUME NEW i \in 1 .. n
      PROVE  256 * p[2 * i - 1] + p[2 * i] = values[i]
  <2>1. values[i] \in Word
    BY <1>1
  <2>2. 256 * (values[i] \div 256) + (values[i] % 256) = values[i]
    BY <2>1, WordParts, Zenon
  <2> QED
    BY <1>4, <2>2
<1>9. w \in [1 .. n -> Word] /\ \A i \in 1 .. n : w[i] = values[i]
  BY <1>1, <1>3, <1>8
<1>10. w \in Seq(Word) /\ Len(w) = n
  BY <1>1, <1>9, ListIsSequence
<1>11. w = values
  BY <1>9, <1>10, SameElements DEF n
<1> QED
  BY <1>7, <1>11 DEF n, p, w

\* One byte of packed bits: its bits are those of the list, and zeros behind it.
LEMMA PackedByte ==
  ASSUME NEW bits \in Seq(Coil), NEW k \in 1 .. BitsToBytes(Len(bits))
  PROVE  /\ PackBits(bits)[k] \in Byte
         /\ \A j \in 0 .. 7 : 8 * (k - 1) + j + 1 <= Len(bits) =>
              (PackBits(bits)[k] \div 2 ^ j) % 2 = bits[8 * (k - 1) + j + 1]
<1> DEFINE n == Len(bits)
           Bit(j) == IF 8 * (k - 1) + j <= n THEN bits[8 * (k - 1) + j] ELSE 0
           Part(j) == IF 8 * (k - 1) + j <= n THEN bits[8 * (k - 1) + j] * 2 ^ (j - 1) ELSE 0
           byte == PackBits(bits)[k]
<1>1. n \in Nat /\ \A i \in 1 .. n : bits[i] \in Coil
  BY LenProperties, ElementOfSeq
<1>2. k \in Nat /\ k >= 1
  BY <1>1 DEF BitsToBytes
<1>3. byte = Part(1) + Part(2) + Part(3) + Part(4) + Part(5) + Part(6) + Part(7) + Part(8)
  BY DEF PackBits
<1>4. ASSUME NEW j \in 1 .. 8
      PROVE  Bit(j) \in Coil
  <2>1. CASE 8 * (k - 1) + j <= n
    <3>1. 8 * (k - 1) + j \in 1 .. n
      BY <1>1, <1>2, <2>1
    <3> QED
      BY <1>1, <2>1, <3>1
  <2>2. CASE ~ 8 * (k - 1) + j <= n
    BY <2>2 DEF Coil
  <2> QED
    BY <2>1, <2>2
<1> HIDE DEF n
<1>5. /\ 2 ^ 0 = 1 /\ 2 ^ 1 = 2 /\ 2 ^ 2 = 4 /\ 2 ^ 3 = 8
      /\ 2 ^ 4 = 16 /\ 2 ^ 5 = 32 /\ 2 ^ 6 = 64 /\ 2 ^ 7 = 128
  OBVIOUS
<1>6. ASSUME NEW j \in 1 .. 8
      PROVE  Part(j) = Bit(j) * 2 ^ (j - 1)
  <2>1. CASE 8 * (k - 1) + j <= n
    BY <2>1
  <2>2. CASE ~ 8 * (k - 1) + j <= n
    <3>1. 0 * 2 ^ (j - 1) = 0
      BY <1>5
    <3> QED
      BY <2>2, <3>1
  <2> QED
    BY <2>1, <2>2
<1> HIDE DEF byte, Bit, Part
<1>7. byte = Bit(1) + 2 * Bit(2) + 4 * Bit(3) + 8 * Bit(4) + 16 * Bit(5) + 32 * Bit(6)
               + 64 * Bit(7) + 128 * Bit(8)
  <2>1. /\ Part(1) = Bit(1) * 2 ^ (1 - 1) /\ Part(2) = Bit(2) * 2 ^ (2 - 1)
        /\ Part(3) = Bit(3) * 2 ^ (3 - 1) /\ Part(4) = Bit(4) * 2 ^ (4 - 1)
        /\ Part(5) = Bit(5) * 2 ^ (5 - 1) /\ Part(6) = Bit(6) * 2 ^ (6 - 1)
        /\ Part(7) = Bit(7) * 2 ^ (7 - 1) /\ Part(8) = Bit(8) * 2 ^ (8 - 1)
    BY <1>6
  <2> QED
    BY <1>3, <1>4, <1>5, <2>1 DEF Coil
<1>8. /\ byte \in Byte
      /\ byte % 2 = Bit(1) /\ (byte \div 2) % 2 = Bit(2)
      /\ (byte \div 4) % 2 = Bit(3) /\ (byte \div 8) % 2 = Bit(4)
      /\ (byte \div 16) % 2 = Bit(5) /\ (byte \div 32) % 2 = Bit(6)
      /\ (byte \div 64) % 2 = Bit(7) /\ (byte \div 128) % 2 = Bit(8)
  <2>1. PICK a \in Coil : a = Bit(1)
    BY <1>4
  <2>2. PICK b \in Coil : b = Bit(2)
    BY <1>4
  <2>3. PICK c \in Coil : c = Bit(3)
    BY <1>4
  <2>4. PICK d \in Coil : d = Bit(4)
    BY <1>4
  <2>5. PICK e \in Coil : e = Bit(5)
    BY <1>4
  <2>6. PICK f \in Coil : f = Bit(6)
    BY <1>4
  <2>7. PICK g \in Coil : g = Bit(7)
    BY <1>4
  <2>8. PICK h \in Coil : h = Bit(8)
    BY <1>4
  <2>9. byte = a + 2 * b + 4 * c + 8 * d + 16 * e + 32 * f + 64 * g + 128 * h
    BY <1>7, <2>1, <2>2, <2>3, <2>4, <2>5, <2>6, <2>7, <2>8
  <2>10. byte \in Byte
    <3>1. byte \in 0 .. 255
      BY <2>9 DEF Coil
    <3> QED
      BY <3>1 DEF Byte
  <2>11. byte % 2 = Bit(1)
    <3>1. byte % 2 = a
      BY <2>9 DEF Coil
    <3> QED
      BY <2>1, <3>1
  <2>12. (byte \div 2) % 2 = Bit(2)
    <3>1. (byte \div 2) % 2 = b
      BY <2>9 DEF Coil
    <3> QED
      BY <2>2, <3>1
  <2>13. (byte \div 4) % 2 = Bit(3)
    <3>1. (byte \div 4) % 2 = c
      BY <2>9 DEF Coil
    <3> QED
      BY <2>3, <3>1
  <2>14. (byte \div 8) % 2 = Bit(4)
    <3>1. (byte \div 8) % 2 = d
      BY <2>9 DEF Coil
    <3> QED
      BY <2>4, <3>1
  <2>15. (byte \div 16) % 2 = Bit(5)
    <3>1. (byte \div 16) % 2 = e
      BY <2>9 DEF Coil
    <3> QED
      BY <2>5, <3>1
  <2>16. (byte \div 32) % 2 = Bit(6)
    <3>1. (byte \div 32) % 2 = f
      BY <2>9 DEF Coil
    <3> QED
      BY <2>6, <3>1
  <2>17. (byte \div 64) % 2 = Bit(7)
    <3>1. (byte \div 64) % 2 = g
      BY <2>9 DEF Coil
    <3> QED
      BY <2>7, <3>1
  <2>18. (byte \div 128) % 2 = Bit(8)
    <3>1. (byte \div 128) % 2 = h
      BY <2>9 DEF Coil
    <3> QED
      BY <2>8, <3>1
  <2> QED
    BY <2>10, <2>11, <2>12, <2>13, <2>14, <2>15, <2>16, <2>17, <2>18
<1>9. byte \div 1 = byte
  BY <1>8 DEF Byte
<1>10. ASSUME NEW j \in 0 .. 7
       PROVE  (byte \div 2 ^ j) % 2 = Bit(j + 1)
  <2>1. CASE j = 0
    BY <1>5, <1>8, <1>9, <2>1
  <2>2. CASE j = 1
    BY <1>5, <1>8, <2>2
  <2>3. CASE j = 2
    BY <1>5, <1>8, <2>3
  <2>4. CASE j = 3
    BY <1>5, <1>8, <2>4
  <2>5. CASE j = 4
    BY <1>5, <1>8, <2>5
  <2>6. CASE j = 5
    BY <1>5, <1>8, <2>6
  <2>7. CASE j = 6
    BY <1>5, <1>8, <2>7
  <2>8. CASE j = 7
    BY <1>5, <1>8, <2>8
  <2> QED
    BY <2>1, <2>2, <2>3, <2>4, <2>5, <2>6, <2>7, <2>8
<1>11. ASSUME NEW j \in 0 .. 7, 8 * (k - 1) + j + 1 <= n
       PROVE  (byte \div 2 ^ j) % 2 = bits[8 * (k - 1) + j + 1]
  <2>1. 8 * (k - 1) + (j + 1) = 8 * (k - 1) + j + 1
    BY <1>2
  <2>2. Bit(j + 1) = bits[8 * (k - 1) + j + 1]
    BY <1>11, <2>1 DEF Bit
  <2> QED
    BY <1>10, <2>2
<1> QED
  BY <1>8, <1>11 DEF byte, n

\* Bits come out of their bytes as they went in.
LEMMA BitsReadBack ==
  ASSUME NEW bits \in Seq(Coil)
  PROVE  /\ PackBits(bits) \in Seq(Byte) /\ Len(PackBits(bits)) = BitsToBytes(Len(bits))
         /\ BitsOf(PackBits(bits), Len(bits)) = bits
<1> DEFINE n == Len(bits)
           size == BitsToBytes(n)
           p == PackBits(bits)
           b == BitsOf(p, n)
<1>1. n \in Nat /\ \A i \in 1 .. n : bits[i] \in Coil
  BY LenProperties, ElementOfSeq
<1>2. size \in Nat
  BY <1>1 DEF BitsToBytes
<1>3. \A k \in 1 .. size : p[k] \in Byte
  BY PackedByte
<1>4. p = [k \in 1 .. size |-> p[k]]
  BY DEF PackBits
<1>5. b = [i \in 1 .. n |-> (p[(i - 1) \div 8 + 1] \div 2 ^ ((i - 1) % 8)) % 2]
  BY Zenon DEF BitsOf
<1>6. ASSUME NEW i \in 1 .. n
      PROVE  (p[(i - 1) \div 8 + 1] \div 2 ^ ((i - 1) % 8)) % 2 = bits[i]
  <2> DEFINE k == (i - 1) \div 8 + 1
             j == (i - 1) % 8
  <2>1. k \in 1 .. size /\ j \in 0 .. 7 /\ 8 * (k - 1) + j + 1 = i
    BY <1>1 DEF BitsToBytes
  <2>2. 8 * (k - 1) + j + 1 <= n
    BY <1>1, <2>1
  <2> HIDE DEF k, j
  <2>3. (p[k] \div 2 ^ j) % 2 = bits[8 * (k - 1) + j + 1]
    BY <2>1, <2>2, PackedByte
  <2> QED
    BY <2>1, <2>3 DEF k, j
<1> HIDE DEF p, b, size, n
<1>7. p \in [1 .. size -> Byte]
  BY <1>3, <1>4
<1>8. p \in Seq(Byte) /\ Len(p) = size
  BY <1>2, <1>7, ListIsSequence
<1>9. b \in [1 .. n -> Coil] /\ \A i \in 1 .. n : b[i] = bits[i]
  BY <1>1, <1>5, <1>6
<1>10. b \in Seq(Coil) /\ Len(b) = n
  BY <1>1, <1>9, ListIsSequence
<1>11. b = bits
  BY <1>9, <1>10, SameElements DEF n
<1> QED
  BY <1>8, <1>11 DEF n, size, p, b

\* The bytes n values take.
ContentBytes(code, n) == IF code \in BitCodes THEN BitsToBytes(n) ELSE 2 * n

\* Values come from those bytes alone.
LEMMA UnpackSame ==
  ASSUME NEW code, NEW n \in Nat, NEW a, NEW b,
         \A i \in 1 .. ContentBytes(code, n) : a[i] = b[i]
  PROVE  Unpack(code, a, n) = Unpack(code, b, n)
<1>1. CASE code \in BitCodes
  <2>1. ASSUME NEW i \in 1 .. n
        PROVE  a[(i - 1) \div 8 + 1] = b[(i - 1) \div 8 + 1]
    <3>1. (i - 1) \div 8 + 1 \in 1 .. BitsToBytes(n)
      BY DEF BitsToBytes
    <3>2. \A k \in 1 .. BitsToBytes(n) : a[k] = b[k]
      BY <1>1 DEF ContentBytes
    <3> QED
      BY <3>1, <3>2, Zenon
  <2>2. BitsOf(a, n) = BitsOf(b, n)
    BY <2>1, Zenon DEF BitsOf
  <2> QED
    BY <1>1, <2>2 DEF Unpack
<1>2. CASE code \notin BitCodes
  <2>1. ASSUME NEW i \in 1 .. n
        PROVE  a[2 * i - 1] = b[2 * i - 1] /\ a[2 * i] = b[2 * i]
    <3>1. 2 * i - 1 \in 1 .. 2 * n /\ 2 * i \in 1 .. 2 * n
      OBVIOUS
    <3>2. \A k \in 1 .. 2 * n : a[k] = b[k]
      BY <1>2 DEF ContentBytes
    <3> QED
      BY <3>1, <3>2, Zenon
  <2>2. WordsOf(a, n) = WordsOf(b, n)
    BY <2>1, Zenon DEF WordsOf
  <2> QED
    BY <1>2, <2>2 DEF Unpack
<1> QED
  BY <1>1, <1>2

\* They are words, or bits.
LEMMA UnpackType ==
  ASSUME NEW code, NEW n \in Nat, NEW bytes,
         \A i \in 1 .. ContentBytes(code, n) : bytes[i] \in Byte
  PROVE  /\ Unpack(code, bytes, n) \in Seq(Word) /\ Len(Unpack(code, bytes, n)) = n
         /\ code \in BitCodes =>
              \A i \in DOMAIN Unpack(code, bytes, n) : Unpack(code, bytes, n)[i] \in Coil
<1> DEFINE v == Unpack(code, bytes, n)
<1>1. Coil \subseteq Word
  BY CoilIsWords
<1>2. CASE code \in BitCodes
  <2>1. v = [i \in 1 .. n |-> (bytes[(i - 1) \div 8 + 1] \div 2 ^ ((i - 1) % 8)) % 2]
    BY <1>2, Zenon DEF Unpack, BitsOf
  <2> HIDE DEF v
  <2>2. ASSUME NEW i \in 1 .. n
        PROVE  (bytes[(i - 1) \div 8 + 1] \div 2 ^ ((i - 1) % 8)) % 2 \in Coil
    <3>1. (i - 1) \div 8 + 1 \in 1 .. BitsToBytes(n) /\ (i - 1) % 8 \in 0 .. 7
      BY DEF BitsToBytes
    <3>2. \A k \in 1 .. BitsToBytes(n) : bytes[k] \in Byte
      BY <1>2 DEF ContentBytes
    <3>3. PICK byte \in Byte : byte = bytes[(i - 1) \div 8 + 1]
      BY <3>1, <3>2, Zenon
    <3>4. PICK j \in 0 .. 7 : j = (i - 1) % 8
      BY <3>1, Zenon
    <3>5. byte \in Nat
      BY DEF Byte
    <3>6. /\ 2 ^ 0 = 1 /\ 2 ^ 1 = 2 /\ 2 ^ 2 = 4 /\ 2 ^ 3 = 8
          /\ 2 ^ 4 = 16 /\ 2 ^ 5 = 32 /\ 2 ^ 6 = 64 /\ 2 ^ 7 = 128
      OBVIOUS
    <3>7. PICK d \in {1, 2, 4, 8, 16, 32, 64, 128} : d = 2 ^ j
      <4>1. 2 ^ j \in {1, 2, 4, 8, 16, 32, 64, 128}
        <5>1. CASE j = 0
          BY <3>6, <5>1
        <5>2. CASE j = 1
          BY <3>6, <5>2
        <5>3. CASE j = 2
          BY <3>6, <5>3
        <5>4. CASE j = 3
          BY <3>6, <5>4
        <5>5. CASE j = 4
          BY <3>6, <5>5
        <5>6. CASE j = 5
          BY <3>6, <5>6
        <5>7. CASE j = 6
          BY <3>6, <5>7
        <5>8. CASE j = 7
          BY <3>6, <5>8
        <5> QED
          BY <5>1, <5>2, <5>3, <5>4, <5>5, <5>6, <5>7, <5>8
      <4> QED
        BY <4>1
    <3>8. (byte \div d) % 2 \in {0, 1}
      <4>1. \A x \in Nat : x % 2 \in {0, 1}
        OBVIOUS
      <4>2. /\ byte \div 1 \in Nat /\ byte \div 2 \in Nat /\ byte \div 4 \in Nat
            /\ byte \div 8 \in Nat /\ byte \div 16 \in Nat /\ byte \div 32 \in Nat
            /\ byte \div 64 \in Nat /\ byte \div 128 \in Nat
        BY <3>5
      <4>3. byte \div d \in Nat
        BY <3>7, <4>2
      <4> QED
        BY <4>1, <4>3, Zenon
    <3> QED
      BY <3>3, <3>4, <3>7, <3>8, Zenon DEF Coil
  <2>3. v \in [1 .. n -> Coil]
    BY <2>1, <2>2
  <2>4. v \in [1 .. n -> Word]
    BY <1>1, <2>3
  <2>5. v \in Seq(Word) /\ Len(v) = n /\ DOMAIN v = 1 .. n
    BY <2>4, ListIsSequence
  <2> QED
    BY <2>3, <2>5 DEF v
<1>3. CASE code \notin BitCodes
  <2>1. v = [i \in 1 .. n |-> 256 * bytes[2 * i - 1] + bytes[2 * i]]
    BY <1>3, Zenon DEF Unpack, WordsOf
  <2> HIDE DEF v
  <2>2. ASSUME NEW i \in 1 .. n
        PROVE  256 * bytes[2 * i - 1] + bytes[2 * i] \in Word
    <3>1. 2 * i - 1 \in 1 .. 2 * n /\ 2 * i \in 1 .. 2 * n
      OBVIOUS
    <3>2. \A k \in 1 .. 2 * n : bytes[k] \in Byte
      BY <1>3 DEF ContentBytes
    <3>3. bytes[2 * i - 1] \in Byte /\ bytes[2 * i] \in Byte
      BY <3>1, <3>2, Zenon
    <3> QED
      BY <3>3, WordOfBytes, Zenon
  <2>3. v \in [1 .. n -> Word]
    BY <2>1, <2>2
  <2>4. v \in Seq(Word) /\ Len(v) = n
    BY <2>3, ListIsSequence
  <2> QED
    BY <1>3, <2>4 DEF v
<1> QED
  BY <1>2, <1>3

\* The byte count of values is not cut off to its eight bits.
LEMMA ContentSize ==
  ASSUME NEW code \in ReadCodes \cup WriteMultipleCodes, NEW n \in Nat, QuantityAllowed(code, n)
  PROVE  /\ ByteCount(code, n) \in 1 .. 250
         /\ code \in WriteMultipleCodes => ByteCount(code, n) <= 246
         /\ ByteCount(code, n) = IF code \in BitCodes THEN BitsToBytes(n) ELSE 2 * n
<1>1. CASE code \in {1, 2}
  <2>1. n >= 1 /\ n <= 2000
    BY <1>1, CodeNumbers DEF QuantityAllowed, kMinQuantity, kMaxQuantity, kReadCoils,
       kReadDiscreteInputs, kReadHoldingRegisters, kReadInputRegisters, kWriteMultipleCoils
  <2>2. BitsToBytes(n) \in 1 .. 250
    BY <2>1 DEF BitsToBytes
  <2>3. BitsToBytes(n) % 256 = BitsToBytes(n)
    BY <2>2
  <2> QED
    BY <1>1, <2>2, <2>3, CodeNumbers DEF ByteCount
<1>2. CASE code \in {3, 4}
  <2>1. n >= 1 /\ n <= 125
    BY <1>2, CodeNumbers DEF QuantityAllowed, kMinQuantity, kMaxQuantity, kReadCoils,
       kReadDiscreteInputs, kReadHoldingRegisters, kReadInputRegisters, kWriteMultipleCoils
  <2>2. 2 * n \in 1 .. 250 /\ (2 * n) % 256 = 2 * n
    BY <2>1
  <2> QED
    BY <1>2, <2>2, CodeNumbers DEF ByteCount
<1>3. CASE code = 15
  <2>1. n >= 1 /\ n <= 1968
    BY <1>3, CodeNumbers DEF QuantityAllowed, kMinQuantity, kMaxQuantity, kReadCoils,
       kReadDiscreteInputs, kReadHoldingRegisters, kReadInputRegisters, kWriteMultipleCoils
  <2>2. BitsToBytes(n) \in 1 .. 246
    BY <2>1 DEF BitsToBytes
  <2>3. BitsToBytes(n) % 256 = BitsToBytes(n)
    BY <2>2
  <2> QED
    BY <1>3, <2>2, <2>3, CodeNumbers DEF ByteCount
<1>4. CASE code = 16
  <2>1. n >= 1 /\ n <= 123
    BY <1>4, CodeNumbers DEF QuantityAllowed, kMinQuantity, kMaxQuantity, kReadCoils,
       kReadDiscreteInputs, kReadHoldingRegisters, kReadInputRegisters, kWriteMultipleCoils
  <2>2. 2 * n \in 1 .. 246 /\ (2 * n) % 256 = 2 * n
    BY <2>1
  <2> QED
    BY <1>4, <2>2, CodeNumbers DEF ByteCount
<1> QED
  BY <1>1, <1>2, <1>3, <1>4, CodeNumbers

\* The largest write fits a PDU.
LEMMA WriteSize ==
  ASSUME NEW code \in WriteMultipleCodes, NEW n \in Nat, QuantityAllowed(code, n)
  PROVE  ByteCount(code, n) \in Nat /\ 6 + ByteCount(code, n) <= kMaxPduSize
BY ContentSize DEF kMaxPduSize

\* What the reader of a write request makes of a buffer that begins with one.
WriteBegin(code, buf, n, size) ==
  /\ Len(buf) >= 6 + size /\ buf[1] = code
  /\ n = FieldOf(buf, 4) /\ size = ByteCount(code, n) /\ buf[6] = size
  /\ QuantityAllowed(code, n) /\ ~ WouldAddressOverflow(FieldOf(buf, 2), n)

LEMMA WriteRead ==
  ASSUME NEW code, NEW buf \in Seq(Byte), NEW n, NEW size \in Nat, WriteBegin(code, buf, n, size)
  PROVE  DeserializeWrite(code, buf) =
           CreateWrite(code, FieldOf(buf, 2), Unpack(code, From(buf, 6), n), From(buf, 6 + size))
<1> DEFINE c == ReadCode(buf, code)
           a == ReadBe(2, c.rest)
           q == ReadBe(2, a.rest)
           k == ReadBe(1, q.rest)
           count == ByteCount(code, q.value)
           r1 == Require(QuantityAllowed(code, q.value), "kInvalidQuantity", q.rest)
           r2 == Require(~ WouldAddressOverflow(a.value, q.value), "kAddressOverflow", q.rest)
           r3 == Require(k.value = count, "kInvalidQuantity", k.rest)
           r4 == Require(Len(k.rest) >= count, "kBufferTooShort", Unread(code, k.rest))
           steps == <<c, a, q, r1, r2, k, r3, r4>>
           final == CreateWrite(code, a.value, Unpack(code, k.rest, q.value), From(k.rest, count))
<1>1. DeserializeWrite(code, buf) = Decoded(steps, final)
  BY Zenon DEF DeserializeWrite
<1>2. /\ Len(buf) >= 6 + size /\ buf[1] = code
      /\ n = FieldOf(buf, 4) /\ size = ByteCount(code, n) /\ buf[6] = size
      /\ QuantityAllowed(code, n) /\ ~ WouldAddressOverflow(FieldOf(buf, 2), n)
  BY DEF WriteBegin
<1>3. Len(buf) \in Nat /\ Len(buf) >= 5 /\ 5 \in 0 .. Len(buf) - 1 /\ 6 \in 0 .. Len(buf)
      /\ size \in 0 .. Len(buf) - 6
  BY <1>2, LenProperties
<1>4. FieldsRead(code, buf, c, a, q)
  BY <1>2, <1>3, Fields, Zenon
<1> HIDE DEF c, a, q
<1>5. c.ok /\ a = Ok(FieldOf(buf, 2), From(buf, 3)) /\ q = Ok(n, From(buf, 5))
  BY <1>2, <1>4, Zenon DEF FieldsRead
<1>6. /\ a.ok /\ a.value = FieldOf(buf, 2)
      /\ q.ok /\ q.value = n /\ q.rest = From(buf, 5)
  BY <1>5, OkIsOk
<1>7. ReadBe(1, From(buf, 5)) = Ok(buf[5 + 1], From(buf, 5 + 1))
  BY <1>3, ReadByte
<1>8. k = Ok(size, From(buf, 6))
  BY <1>2, <1>6, <1>7
<1>9. k.ok /\ k.value = size /\ k.rest = From(buf, 6)
  BY <1>8, OkIsOk
<1> HIDE DEF k
<1>10. r1 = Ok(0, q.rest) /\ r2 = Ok(0, q.rest)
  BY <1>2, <1>6 DEF Require
<1>11. count = size
  BY <1>2, <1>6, Zenon
<1> HIDE DEF count
<1>12. r3 = Ok(0, k.rest)
  BY <1>9, <1>11 DEF Require
<1>13. Len(From(buf, 6)) = Len(buf) - 6 /\ From(From(buf, 6), size) = From(buf, 6 + size)
  BY <1>3, FromElements, FromFrom
<1>14. Len(k.rest) >= count
  BY <1>3, <1>9, <1>11, <1>13
<1>15. r4 = Ok(0, Unread(code, k.rest))
  BY <1>14, RequireTrue
<1>16. r1.ok /\ r2.ok /\ r3.ok /\ r4.ok
  BY <1>10, <1>12, <1>15, OkIsOk
<1> HIDE DEF r1, r2, r3, r4
<1>17. \A i \in DOMAIN steps : steps[i].ok
  BY <1>5, <1>6, <1>9, <1>16
<1> HIDE DEF steps
<1>18. final = CreateWrite(code, FieldOf(buf, 2), Unpack(code, From(buf, 6), n), From(buf, 6 + size))
  BY <1>6, <1>9, <1>11, <1>13, Zenon
<1> HIDE DEF final
<1> QED
  BY <1>1, <1>17, <1>18, DecodedAll

\* It accepts nothing else.
LEMMA WriteTaken ==
  ASSUME NEW code \in WriteMultipleCodes, NEW buf \in Seq(Byte), DeserializeWrite(code, buf).ok
  PROVE  \E n \in Word, size \in Nat : WriteBegin(code, buf, n, size)
<1> DEFINE c == ReadCode(buf, code)
           a == ReadBe(2, c.rest)
           q == ReadBe(2, a.rest)
           k == ReadBe(1, q.rest)
           count == ByteCount(code, q.value)
           r1 == Require(QuantityAllowed(code, q.value), "kInvalidQuantity", q.rest)
           r2 == Require(~ WouldAddressOverflow(a.value, q.value), "kAddressOverflow", q.rest)
           r3 == Require(k.value = count, "kInvalidQuantity", k.rest)
           r4 == Require(Len(k.rest) >= count, "kBufferTooShort", Unread(code, k.rest))
           steps == <<c, a, q, r1, r2, k, r3, r4>>
           final == CreateWrite(code, a.value, Unpack(code, k.rest, q.value), From(k.rest, count))
<1>1. DeserializeWrite(code, buf) = Decoded(steps, final)
  BY Zenon DEF DeserializeWrite
<1>2. c.ok /\ a.ok /\ q.ok => FieldsRead(code, buf, c, a, q)
  BY Fields, Zenon
<1> HIDE DEF c, a, q, k, count, r1, r2, r3, r4, final
<1>3. /\ DOMAIN steps = 1 .. 8 /\ steps[1] = c /\ steps[2] = a /\ steps[3] = q
      /\ steps[4] = r1 /\ steps[5] = r2 /\ steps[6] = k /\ steps[7] = r3 /\ steps[8] = r4
  OBVIOUS
<1> HIDE DEF steps
<1>4. \A i \in 1 .. 8 : steps[i].ok
  BY <1>1, <1>3, DecodedOk
<1>5. c.ok /\ a.ok /\ q.ok /\ r1.ok /\ r2.ok /\ k.ok /\ r3.ok /\ r4.ok
  BY <1>3, <1>4
<1>6. /\ Len(buf) >= 5 /\ buf[1] = code
      /\ a = Ok(FieldOf(buf, 2), From(buf, 3)) /\ q = Ok(FieldOf(buf, 4), From(buf, 5))
  BY <1>2, <1>5, Zenon DEF FieldsRead
<1>7. a.value = FieldOf(buf, 2) /\ q.value = FieldOf(buf, 4) /\ q.rest = From(buf, 5)
  BY <1>6, OkIsOk
<1>8. Len(buf) \in Nat /\ 5 \in 0 .. Len(buf)
  BY <1>6, LenProperties
<1>9. Len(buf) >= 6 /\ 5 \in 0 .. Len(buf) - 1 /\ 6 \in 0 .. Len(buf)
  <2>1. k = ReadBe(1, From(buf, 5))
    BY <1>7 DEF k
  <2>2. 5 + 1 <= Len(buf)
    BY <1>5, <1>8, <2>1, FieldFits
  <2> QED
    BY <1>8, <2>2
<1>10. k.value = buf[6] /\ k.rest = From(buf, 6)
  <2>1. ReadBe(1, From(buf, 5)) = Ok(buf[5 + 1], From(buf, 5 + 1))
    BY <1>9, ReadByte
  <2>2. k = Ok(buf[6], From(buf, 6))
    BY <1>7, <2>1 DEF k
  <2> QED
    BY <2>2, OkIsOk
<1>11. QuantityAllowed(code, q.value)
  BY <1>5, ErrIsNot DEF r1, Require
<1>12. ~ WouldAddressOverflow(a.value, q.value)
  BY <1>5, ErrIsNot DEF r2, Require
<1>13. k.value = count
  BY <1>5, ErrIsNot DEF r3, Require
<1>14. Len(k.rest) >= count
  BY <1>5, ErrIsNot DEF r4, Require
<1>15. Len(From(buf, 6)) = Len(buf) - 6
  BY <1>9, FromElements
<1>16. count \in Nat
  <2>1. buf[6] \in Nat
    BY <1>9, BytesOf
  <2> QED
    BY <1>10, <1>13, <2>1
<1>17. Len(buf) >= 6 + count
  BY <1>8, <1>10, <1>14, <1>15, <1>16
<1>18. FieldOf(buf, 4) \in Word
  BY <1>6, FieldIsWord
<1>19. count = ByteCount(code, FieldOf(buf, 4)) /\ buf[6] = count
  BY <1>7, <1>10, <1>13, Zenon DEF count
<1>20. QuantityAllowed(code, FieldOf(buf, 4)) /\ ~ WouldAddressOverflow(FieldOf(buf, 2), FieldOf(buf, 4))
  BY <1>7, <1>11, <1>12, Zenon
<1>21. WriteBegin(code, buf, FieldOf(buf, 4), count)
  BY <1>6, <1>17, <1>19, <1>20, Zenon DEF WriteBegin
<1> QED
  BY <1>16, <1>18, <1>21, Zenon

\* What the reader of values makes of a buffer that begins with a response.
ValuesBegin(code, buf, expected, n, size) ==
  /\ Len(buf) >= 2 + size /\ buf[1] = code
  /\ size = ContentBytes(code, n) /\ buf[2] = size
  /\ QuantityAllowed(code, n)
  /\ code \in BitCodes => expected = n

LEMMA ValuesRead ==
  ASSUME NEW code, NEW buf \in Seq(Byte), NEW expected, NEW n \in Nat,
         NEW size \in Nat, ValuesBegin(code, buf, expected, n, size)
  PROVE  DeserializeValues(code, buf, expected) =
           CreateValues(code, Unpack(code, From(buf, 2), n), From(buf, 2 + size))
<1> DEFINE c == ReadCode(buf, code)
           b == ReadBe(1, c.rest)
<1>1. /\ Len(buf) >= 2 + size /\ buf[1] = code
      /\ size = ContentBytes(code, n) /\ buf[2] = size
      /\ QuantityAllowed(code, n)
      /\ code \in BitCodes => expected = n
  BY DEF ValuesBegin
<1>2. /\ Len(buf) \in Nat /\ Len(buf) >= 1 /\ 1 \in 0 .. Len(buf) - 1
      /\ 2 \in 0 .. Len(buf) /\ size \in 0 .. Len(buf) - 2
  BY <1>1, LenProperties
<1>3. c = Ok(0, From(buf, 1))
  BY <1>1, <1>2, CodeReadBack
<1>4. c.ok /\ c.rest = From(buf, 1)
  BY <1>3, OkIsOk
<1> HIDE DEF c
<1>5. ReadBe(1, From(buf, 1)) = Ok(buf[1 + 1], From(buf, 1 + 1))
  BY <1>2, ReadByte
<1>6. b = Ok(size, From(buf, 2))
  BY <1>1, <1>4, <1>5
<1>7. b.ok /\ b.value = size /\ b.rest = From(buf, 2)
  BY <1>6, OkIsOk
<1> HIDE DEF b
<1>8. Len(From(buf, 2)) = Len(buf) - 2 /\ From(From(buf, 2), size) = From(buf, 2 + size)
  BY <1>2, FromElements, FromFrom
<1>9. Len(b.rest) >= b.value
  BY <1>2, <1>7, <1>8
<1>10. CASE code \in BitCodes
  <2> DEFINE r1 == Require(QuantityAllowed(code, expected), "kInvalidQuantity", b.rest)
             r2 == Require(b.value = BitsToBytes(expected), "kInvalidValue", b.rest)
             r3 == Require(Len(b.rest) >= b.value, "kBufferTooShort", Unread(code, b.rest))
             steps == <<c, b, r1, r2, r3>>
             final == CreateValues(code, BitsOf(b.rest, expected), From(b.rest, b.value))
  <2>1. DeserializeBits(code, buf, expected) = Decoded(steps, final)
    BY Zenon DEF DeserializeBits, c, b
  <2>2. QuantityAllowed(code, expected)
    BY <1>1, <1>10
  <2>3. b.value = BitsToBytes(expected)
    BY <1>1, <1>7, <1>10 DEF ContentBytes
  <2>4. r1 = Ok(0, b.rest) /\ r2 = Ok(0, b.rest)
    BY <2>2, <2>3 DEF Require
  <2>5. r3 = Ok(0, Unread(code, b.rest))
    BY <1>9 DEF Require
  <2> HIDE DEF r1, r2, r3
  <2>6. r1.ok /\ r2.ok /\ r3.ok
    BY <2>4, <2>5, OkIsOk
  <2>7. \A i \in DOMAIN steps : steps[i].ok
    BY <1>4, <1>7, <2>6
  <2> HIDE DEF steps
  <2>8. BitsOf(b.rest, expected) = Unpack(code, From(buf, 2), n)
    BY <1>1, <1>7, <1>10, Zenon DEF Unpack
  <2>9. final = CreateValues(code, Unpack(code, From(buf, 2), n), From(buf, 2 + size))
    BY <1>7, <1>8, <2>8, Zenon
  <2> HIDE DEF final
  <2> QED
    BY <1>10, <2>1, <2>7, <2>9, DecodedAll DEF DeserializeValues
<1>11. CASE code \notin BitCodes
  <2> DEFINE count == b.value \div 2
             r1 == Require(b.value % 2 = 0, "kInvalidValue", b.rest)
             r2 == Require(QuantityAllowed(code, count), "kInvalidQuantity", b.rest)
             r3 == Require(Len(b.rest) >= b.value, "kBufferTooShort", Unread(code, b.rest))
             steps == <<c, b, r1, r2, r3>>
             final == CreateValues(code, WordsOf(b.rest, count), From(b.rest, b.value))
  <2>1. DeserializeRegisters(code, buf, expected) = Decoded(steps, final)
    BY Zenon DEF DeserializeRegisters, c, b
  <2>2. b.value = 2 * n
    BY <1>1, <1>7, <1>11 DEF ContentBytes
  <2>3. b.value % 2 = 0 /\ count = n
    BY <2>2
  <2> HIDE DEF count
  <2>4. r1 = Ok(0, b.rest) /\ r2 = Ok(0, b.rest)
    BY <1>1, <2>3 DEF Require
  <2>5. r3 = Ok(0, Unread(code, b.rest))
    BY <1>9 DEF Require
  <2> HIDE DEF r1, r2, r3
  <2>6. r1.ok /\ r2.ok /\ r3.ok
    BY <2>4, <2>5, OkIsOk
  <2>7. \A i \in DOMAIN steps : steps[i].ok
    BY <1>4, <1>7, <2>6
  <2> HIDE DEF steps
  <2>8. WordsOf(b.rest, count) = Unpack(code, From(buf, 2), n)
    BY <1>7, <1>11, <2>3, Zenon DEF Unpack
  <2>9. final = CreateValues(code, Unpack(code, From(buf, 2), n), From(buf, 2 + size))
    BY <1>7, <1>8, <2>8, Zenon
  <2> HIDE DEF final
  <2> QED
    BY <1>11, <2>1, <2>7, <2>9, DecodedAll DEF DeserializeValues
<1> QED
  BY <1>10, <1>11

\* It accepts nothing else.
LEMMA ValuesTaken ==
  ASSUME NEW code, NEW buf \in Seq(Byte), NEW expected \in Nat,
         DeserializeValues(code, buf, expected).ok
  PROVE  \E n \in Nat, size \in Nat : ValuesBegin(code, buf, expected, n, size)
<1> DEFINE c == ReadCode(buf, code)
           b == ReadBe(1, c.rest)
<1>1. ASSUME c.ok, b.ok, Len(b.rest) >= b.value
      PROVE  buf[1] = code /\ buf[2] = b.value /\ b.value \in Nat /\ Len(buf) >= 2 + b.value
  <2>1. Len(buf) \in Nat
    BY LenProperties
  <2>2. Len(buf) >= 1 /\ buf[1] = code /\ c.rest = From(buf, 1)
    BY <1>1, <2>1, CodeRead
  <2>3. 1 \in 0 .. Len(buf)
    BY <2>1, <2>2
  <2>4. 1 + 1 <= Len(buf)
    BY <1>1, <2>2, <2>3, FieldFits
  <2>5. 1 \in 0 .. Len(buf) - 1 /\ 2 \in 0 .. Len(buf)
    BY <2>1, <2>4
  <2>6. ReadBe(1, From(buf, 1)) = Ok(buf[1 + 1], From(buf, 1 + 1))
    BY <2>5, ReadByte
  <2>7. b = Ok(buf[2], From(buf, 2))
    BY <2>2, <2>6
  <2>8. b.value = buf[2] /\ b.rest = From(buf, 2)
    BY <2>7, OkIsOk
  <2>9. Len(From(buf, 2)) = Len(buf) - 2
    BY <2>5, FromElements
  <2>10. buf[2] \in Nat
    BY <2>4, BytesOf
  <2> HIDE DEF b, c
  <2> QED
    BY <1>1, <2>1, <2>2, <2>8, <2>9, <2>10
<1> HIDE DEF b, c
<1>2. CASE code \in BitCodes
  <2> DEFINE r1 == Require(QuantityAllowed(code, expected), "kInvalidQuantity", b.rest)
             r2 == Require(b.value = BitsToBytes(expected), "kInvalidValue", b.rest)
             r3 == Require(Len(b.rest) >= b.value, "kBufferTooShort", Unread(code, b.rest))
             steps == <<c, b, r1, r2, r3>>
             final == CreateValues(code, BitsOf(b.rest, expected), From(b.rest, b.value))
  <2>1. DeserializeBits(code, buf, expected) = Decoded(steps, final)
    BY Zenon DEF DeserializeBits, c, b
  <2>2. DeserializeValues(code, buf, expected) = DeserializeBits(code, buf, expected)
    BY <1>2, Zenon DEF DeserializeValues
  <2> HIDE DEF r1, r2, r3, final
  <2>3. DOMAIN steps = 1 .. 5 /\ steps[1] = c /\ steps[2] = b /\ steps[3] = r1 /\ steps[4] = r2 /\ steps[5] = r3
    OBVIOUS
  <2> HIDE DEF steps
  <2>4. \A i \in 1 .. 5 : steps[i].ok
    BY <2>1, <2>2, <2>3, DecodedOk
  <2>5. c.ok /\ b.ok /\ r1.ok /\ r2.ok /\ r3.ok
    BY <2>3, <2>4
  <2>6. QuantityAllowed(code, expected)
    BY <2>5, ErrIsNot DEF r1, Require
  <2>7. b.value = BitsToBytes(expected)
    BY <2>5, ErrIsNot DEF r2, Require
  <2>8. Len(b.rest) >= b.value
    BY <2>5, ErrIsNot DEF r3, Require
  <2>9. buf[1] = code /\ buf[2] = b.value /\ b.value \in Nat /\ Len(buf) >= 2 + b.value
    BY <1>1, <2>5, <2>8
  <2>10. ValuesBegin(code, buf, expected, expected, b.value)
    BY <1>2, <2>6, <2>7, <2>9 DEF ValuesBegin, ContentBytes
  <2> QED
    BY <2>9, <2>10, Zenon
<1>3. CASE code \notin BitCodes
  <2> DEFINE count == b.value \div 2
             r1 == Require(b.value % 2 = 0, "kInvalidValue", b.rest)
             r2 == Require(QuantityAllowed(code, count), "kInvalidQuantity", b.rest)
             r3 == Require(Len(b.rest) >= b.value, "kBufferTooShort", Unread(code, b.rest))
             steps == <<c, b, r1, r2, r3>>
             final == CreateValues(code, WordsOf(b.rest, count), From(b.rest, b.value))
  <2>1. DeserializeRegisters(code, buf, expected) = Decoded(steps, final)
    BY Zenon DEF DeserializeRegisters, c, b
  <2>2. DeserializeValues(code, buf, expected) = DeserializeRegisters(code, buf, expected)
    BY <1>3, Zenon DEF DeserializeValues
  <2> HIDE DEF r1, r2, r3, final
  <2>3. DOMAIN steps = 1 .. 5 /\ steps[1] = c /\ steps[2] = b /\ steps[3] = r1 /\ steps[4] = r2 /\ steps[5] = r3
    OBVIOUS
  <2> HIDE DEF steps
  <2>4. \A i \in 1 .. 5 : steps[i].ok
    BY <2>1, <2>2, <2>3, DecodedOk
  <2>5. c.ok /\ b.ok /\ r1.ok /\ r2.ok /\ r3.ok
    BY <2>3, <2>4
  <2>6. b.value % 2 = 0
    BY <2>5, ErrIsNot DEF r1, Require
  <2>7. QuantityAllowed(code, count)
    BY <2>5, ErrIsNot DEF r2, Require
  <2>8. Len(b.rest) >= b.value
    BY <2>5, ErrIsNot DEF r3, Require
  <2>9. buf[1] = code /\ buf[2] = b.value /\ b.value \in Nat /\ Len(buf) >= 2 + b.value
    BY <1>1, <2>5, <2>8
  <2>10. count \in Nat /\ b.value = 2 * count
    <3>1. \A x \in Nat : x % 2 = 0 => x \div 2 \in Nat /\ x = 2 * (x \div 2)
      OBVIOUS
    <3> QED
      BY <2>6, <2>9, <3>1, Zenon
  <2> HIDE DEF count
  <2>11. ValuesBegin(code, buf, expected, count, b.value)
    BY <1>3, <2>7, <2>9, <2>10 DEF ValuesBegin, ContentBytes
  <2> QED
    BY <2>9, <2>10, <2>11, Zenon
<1> QED
  BY <1>2, <1>3

\* What comes out of an accepted buffer.
ValuesOut(code, buf, expected, n, size, v) ==
  /\ v \in Seq(Word) /\ Len(v) = n
  /\ code \in BitCodes => \A i \in DOMAIN v : v[i] \in Coil
  /\ DeserializeValues(code, buf, expected) = Ok([values |-> v], From(buf, 2 + size))

LEMMA ValuesAccepted ==
  ASSUME NEW code, NEW buf \in Seq(Byte), NEW expected,
         NEW n \in Nat, NEW size \in Nat, ValuesBegin(code, buf, expected, n, size)
  PROVE  ValuesOut(code, buf, expected, n, size, Unpack(code, From(buf, 2), n))
<1> DEFINE v == Unpack(code, From(buf, 2), n)
<1>1. /\ Len(buf) >= 2 + size /\ size = ContentBytes(code, n) /\ QuantityAllowed(code, n)
  BY DEF ValuesBegin
<1>2. /\ Len(From(buf, 2)) = Len(buf) - 2
      /\ \A i \in 1 .. Len(buf) - 2 : From(buf, 2)[i] = buf[2 + i]
  <2>1. 2 \in 0 .. Len(buf)
    BY <1>1, LenProperties
  <2> QED
    BY <2>1, FromElements
<1>3. \A i \in 1 .. Len(buf) : buf[i] \in Byte
  BY BytesOf
<1>4. \A i \in 1 .. ContentBytes(code, n) : From(buf, 2)[i] \in Byte
  <2> SUFFICES ASSUME NEW i \in 1 .. size
               PROVE  From(buf, 2)[i] \in Byte
    BY <1>1
  <2>1. i \in 1 .. Len(buf) - 2 /\ 2 + i \in 1 .. Len(buf)
    BY <1>1, LenProperties
  <2>2. From(buf, 2)[i] = buf[2 + i]
    BY <1>2, <2>1
  <2> QED
    BY <1>3, <2>1, <2>2, Zenon
<1>5. /\ v \in Seq(Word) /\ Len(v) = n
      /\ code \in BitCodes => \A i \in DOMAIN v : v[i] \in Coil
  BY <1>4, UnpackType, Zenon
<1>6. DeserializeValues(code, buf, expected) = CreateValues(code, v, From(buf, 2 + size))
  BY ValuesRead, Zenon
<1> HIDE DEF v
<1>7. CreateValues(code, v, From(buf, 2 + size)) = Ok([values |-> v], From(buf, 2 + size))
  BY <1>1, <1>5, ValuesMade, Zenon
<1>8. ValuesOut(code, buf, expected, n, size, v)
  BY <1>5, <1>6, <1>7, Zenon DEF ValuesOut
<1> QED
  BY <1>8 DEF v

\* The fields of a write request.
WriteFields(bytes, code, address, n, size, p) ==
  /\ bytes \in Seq(Byte) /\ Len(bytes) = 6 + Len(p) /\ bytes[1] = code
  /\ 256 * bytes[2] + bytes[3] = address /\ 256 * bytes[4] + bytes[5] = n
  /\ bytes[6] = size /\ From(bytes, 6) = p

\* The bytes of a write request are those fields, whatever is packed behind them.
LEMMA WriteLayout ==
  ASSUME NEW code \in Byte, NEW address \in Word, NEW n \in Word, NEW size \in Byte,
         NEW p \in Seq(Byte), NEW bytes,
         bytes = <<code>> \o Be16(address) \o Be16(n) \o <<size>> \o p
  PROVE  WriteFields(bytes, code, address, n, size, p)
<1> DEFINE h == <<code>> \o Be16(address) \o Be16(n)
           s == <<size>>
           x == h \o s
           y == x \o p
<1>1. /\ h \in Seq(Byte) /\ Len(h) = 5 /\ h[1] = code
      /\ 256 * h[2] + h[3] = address /\ 256 * h[4] + h[5] = n
  BY FiveBytes
<1>2. s \in Seq(Byte) /\ Len(s) = 1 /\ s[1] = size
  OBVIOUS
<1> HIDE DEF h, s
<1>3. \A a, b \in Seq(Byte) :
        /\ a \o b \in Seq(Byte) /\ Len(a \o b) = Len(a) + Len(b)
        /\ \A i \in 1 .. Len(a) : (a \o b)[i] = a[i]
        /\ \A i \in 1 .. Len(b) : (a \o b)[Len(a) + i] = b[i]
  BY Joined
<1>4. /\ x \in Seq(Byte) /\ Len(x) = Len(h) + Len(s)
      /\ \A i \in 1 .. Len(h) : x[i] = h[i]
      /\ \A i \in 1 .. Len(s) : x[Len(h) + i] = s[i]
  BY <1>1, <1>2, <1>3, Zenon
<1> HIDE DEF x
<1>5. Len(x) = 6 /\ x[1] = h[1] /\ x[2] = h[2] /\ x[3] = h[3] /\ x[4] = h[4] /\ x[5] = h[5] /\ x[6] = size
  BY <1>1, <1>2, <1>4
<1>6. /\ y \in Seq(Byte) /\ Len(y) = Len(x) + Len(p)
      /\ \A i \in 1 .. Len(x) : y[i] = x[i]
  BY <1>3, <1>4, Zenon
<1>7. From(y, Len(x)) = p
  BY <1>4, FromJoined
<1> HIDE DEF y
<1>8. /\ y[1] = h[1] /\ y[2] = h[2] /\ y[3] = h[3] /\ y[4] = h[4] /\ y[5] = h[5] /\ y[6] = size
  <2>1. \A i \in 1 .. 6 : y[i] = x[i]
    BY <1>5, <1>6
  <2> QED
    BY <1>5, <2>1
<1>9. /\ y[1] = code /\ 256 * y[2] + y[3] = address /\ 256 * y[4] + y[5] = n
  BY <1>1, <1>8
<1>10. Len(y) = 6 + Len(p) /\ From(y, 6) = p
  BY <1>5, <1>6, <1>7
<1>11. /\ y \in Seq(Byte) /\ Len(y) = 6 + Len(p) /\ y[1] = code
       /\ 256 * y[2] + y[3] = address /\ 256 * y[4] + y[5] = n
       /\ y[6] = size /\ From(y, 6) = p
  BY <1>6, <1>8, <1>9, <1>10
<1>12. y = bytes
  BY Zenon DEF h, s, x, y
<1>13. WriteFields(y, code, address, n, size, p)
  BY <1>11, Zenon DEF WriteFields
<1> QED
  BY <1>12, <1>13, Zenon

\* Values come out of their packed bytes, which are as many as is announced.
LEMMA ContentReadBack ==
  ASSUME NEW code \in ReadCodes \cup WriteMultipleCodes, NEW values \in Seq(Word),
         code \in BitCodes => \A i \in DOMAIN values : values[i] \in Coil,
         QuantityAllowed(code, Len(values))
  PROVE  /\ Pack(code, values) \in Seq(Byte)
         /\ Len(Pack(code, values)) = ByteCount(code, Len(values))
         /\ Unpack(code, Pack(code, values), Len(values)) = values
<1>1. Len(values) \in Nat
  BY LenProperties
<1>2. ByteCount(code, Len(values)) =
        IF code \in BitCodes THEN BitsToBytes(Len(values)) ELSE 2 * Len(values)
  BY <1>1, ContentSize
<1>3. CASE code \in BitCodes
  <2>1. \A i \in 1 .. Len(values) : values[i] \in Coil
    BY <1>3, LenProperties
  <2>2. values \in Seq(Coil)
    BY <2>1, LenProperties
  <2>3. /\ PackBits(values) \in Seq(Byte) /\ Len(PackBits(values)) = BitsToBytes(Len(values))
        /\ BitsOf(PackBits(values), Len(values)) = values
    BY <2>2, BitsReadBack
  <2> QED
    BY <1>2, <1>3, <2>3 DEF Pack, Unpack
<1>4. CASE code \notin BitCodes
  <2>1. /\ PackWords(values) \in Seq(Byte) /\ Len(PackWords(values)) = 2 * Len(values)
        /\ WordsOf(PackWords(values), Len(values)) = values
    BY WordsReadBack
  <2> QED
    BY <1>2, <1>4, <2>1 DEF Pack, Unpack
<1> QED
  BY <1>3, <1>4

\* Values are found in a buffer that begins with their packed bytes.
LEMMA ContentFound ==
  ASSUME NEW code \in ReadCodes \cup WriteMultipleCodes, NEW values \in Seq(Word),
         code \in BitCodes => \A i \in DOMAIN values : values[i] \in Coil,
         NEW n \in Nat, n = Len(values), QuantityAllowed(code, n),
         NEW size, size = ByteCount(code, n), NEW tail \in Seq(Byte)
  PROVE  LET buf == Pack(code, values) \o tail
         IN  /\ size \in Byte /\ size \in Nat /\ size = ContentBytes(code, n)
             /\ buf \in Seq(Byte) /\ Len(buf) \in Nat /\ Len(buf) >= size
             /\ Unpack(code, buf, n) = values /\ From(buf, size) = tail
<1>1. PICK p : p = Pack(code, values)
  OBVIOUS
<1>2. p \in Seq(Byte) /\ Len(p) = size /\ Unpack(code, p, n) = values
  BY <1>1, ContentReadBack
<1>3. size \in 1 .. 250 /\ size = ContentBytes(code, n)
  BY ContentSize DEF ContentBytes
<1>4. PICK buf : buf = p \o tail
  OBVIOUS
<1>5. /\ buf \in Seq(Byte) /\ Len(buf) \in Nat /\ Len(buf) >= Len(p)
      /\ \A i \in 1 .. Len(p) : buf[i] = p[i]
      /\ From(buf, Len(p)) = tail
  BY <1>2, <1>4, HeadKept, Zenon
<1>6. \A i \in 1 .. ContentBytes(code, n) : buf[i] = p[i]
  BY <1>2, <1>3, <1>5
<1>7. Unpack(code, buf, n) = Unpack(code, p, n)
  BY <1>6, UnpackSame
<1>8. size \in Byte /\ size \in Nat
  <2>1. 1 .. 250 \subseteq Byte /\ 1 .. 250 \subseteq Nat
    BY DEF Byte
  <2> QED
    BY <1>3, <2>1, Zenon
<1>9. Len(buf) >= size
  BY <1>2, <1>5
<1> QED
  BY <1>1, <1>2, <1>3, <1>4, <1>5, <1>7, <1>8, <1>9, Zenon

\* A write request is read back, whatever follows.
LEMMA WriteReadBack ==
  ASSUME NEW code \in WriteMultipleCodes, NEW address \in Word, NEW values \in Seq(Word),
         NEW quantity \in Word, quantity = Len(values),
         code \in BitCodes => \A i \in DOMAIN values : values[i] \in Coil,
         QuantityAllowed(code, quantity), ~ WouldAddressOverflow(address, quantity),
         NEW m, m.address = address, m.values = values, NEW tail \in Seq(Byte)
  PROVE  /\ DeserializeWrite(code, WriteBytes(code, m) \o tail) =
              CreateWrite(code, address, values, tail)
         /\ Len(WriteBytes(code, m)) = 6 + ByteCount(code, quantity)
         /\ WriteBytes(code, m)[1] = code /\ WriteBytes(code, m) \in Seq(Byte)
<1> DEFINE p == Pack(code, values)
           size == ByteCount(code, quantity)
<1>1. quantity \in Nat /\ code \in Byte
  BY CodeNumbers, LenProperties DEF Byte
<1>2. /\ size \in Byte /\ size \in Nat
      /\ p \o tail \in Seq(Byte) /\ Len(p \o tail) \in Nat /\ Len(p \o tail) >= size
      /\ Unpack(code, p \o tail, quantity) = values /\ From(p \o tail, size) = tail
  BY <1>1, ContentFound
<1>3. p \in Seq(Byte) /\ Len(p) = size
  BY <1>1, ContentReadBack
<1>4. WriteBytes(code, m) = (Five(code, address, quantity) \o <<size>>) \o p
  BY Zenon DEF WriteBytes, Five
<1> HIDE DEF p, size
<1>5. \A q \in Seq(Byte) : WriteFields((Five(code, address, quantity) \o <<size>>) \o q,
                                     code, address, quantity, size, q)
  BY <1>1, <1>2, WriteLayout, Zenon DEF Five
<1>6. WriteFields(WriteBytes(code, m), code, address, quantity, size, p)
  BY <1>3, <1>4, <1>5, Zenon
<1>7. PICK h : h = Five(code, address, quantity) \o <<size>>
  OBVIOUS
<1>8. h \in Seq(Byte)
  <2>1. Five(code, address, quantity) \in Seq(Byte)
    BY <1>1, FiveBytes DEF Five
  <2>2. <<size>> \in Seq(Byte)
    BY <1>2
  <2> QED
    BY <1>7, <2>1, <2>2, ConcatProperties
<1>9. PICK buf : buf = WriteBytes(code, m) \o tail
  OBVIOUS
<1>10. buf = h \o (p \o tail)
  BY <1>3, <1>4, <1>7, <1>8, <1>9, ConcatAssociative, SMTT(30)
<1>11. WriteFields(buf, code, address, quantity, size, p \o tail)
  BY <1>2, <1>5, <1>7, <1>10, Zenon
<1>12. /\ buf \in Seq(Byte) /\ Len(buf) = 6 + Len(p \o tail) /\ buf[1] = code
       /\ FieldOf(buf, 2) = address /\ FieldOf(buf, 4) = quantity
       /\ buf[6] = size /\ From(buf, 6) = p \o tail
  BY <1>11 DEF WriteFields, FieldOf
<1>13. Len(buf) >= 6 + size
  BY <1>2, <1>12
<1>14. WriteBegin(code, buf, quantity, size)
  BY <1>12, <1>13 DEF WriteBegin, size
<1>15. From(buf, 6 + size) = tail
  <2>1. 6 \in 0 .. Len(buf) /\ size \in 0 .. Len(buf) - 6
    BY <1>2, <1>12
  <2>2. From(From(buf, 6), size) = From(buf, 6 + size)
    BY <1>12, <2>1, FromFrom, Zenon
  <2> QED
    BY <1>2, <1>12, <2>2, Zenon
<1>16. DeserializeWrite(code, buf) = CreateWrite(code, address, values, tail)
  <2>1. DeserializeWrite(code, buf) =
          CreateWrite(code, FieldOf(buf, 2), Unpack(code, From(buf, 6), quantity),
                      From(buf, 6 + size))
    BY <1>2, <1>12, <1>14, WriteRead
  <2> QED
    BY <1>2, <1>12, <1>15, <2>1, Zenon
<1>17. /\ Len(WriteBytes(code, m)) = 6 + size /\ WriteBytes(code, m)[1] = code
       /\ WriteBytes(code, m) \in Seq(Byte)
  BY <1>3, <1>6 DEF WriteFields
<1> QED
  BY <1>9, <1>16, <1>17, Zenon DEF size

----------------------------------------------------------------------------
(***************************************************************************)
(* The request of a call.                                                  *)
(***************************************************************************)

\* What is handed to SendRawRequest are the bytes of what Create made.
LEMMA SentBytes ==
  ASSUME NEW op, Sent(op)
  PROVE  RequestPdu(op).value = EncodingOf(RequestKind(op.code), op.code, Created(op).value)
<1> DEFINE bytes == EncodingOf(RequestKind(op.code), op.code, Created(op).value)
<1>1. RequestPdu(op).ok
  BY DEF Sent, Refusal
<1>2. RequestPdu(op) = IF kMaxPduSize < Len(bytes) THEN Err("kBufferTooShort", bytes) ELSE Ok(bytes, <<>>)
  BY Zenon DEF RequestPdu, Serialize
<1> HIDE DEF bytes
<1>3. RequestPdu(op) = Ok(bytes, <<>>)
  BY <1>1, <1>2, ErrIsNot
<1> QED
  BY <1>3, OkIsOk DEF bytes

\* The arguments of a call.
LEMMA OperationFields ==
  ASSUME NEW op, OperationType(op)
  PROVE  /\ op.code \in ReadCodes \cup WriteSingleCodes \cup WriteMultipleCodes
         /\ op.address \in Word /\ op.quantity \in Word /\ op.values \in Seq(Word)
         /\ op.code \notin ReadCodes => op.quantity = Len(op.values)
         /\ op.code \in WriteSingleCodes => op.quantity = 1 /\ op.values[1] \in Word
<1>1. op.code \in ReadCodes \cup WriteSingleCodes \cup WriteMultipleCodes
  BY Zenon DEF OperationType
<1>2. op.address \in Word /\ op.quantity \in Word /\ op.values \in Seq(Word)
  BY Zenon DEF OperationType
<1>3. op.code \notin ReadCodes => op.quantity = Len(op.values)
  BY Zenon DEF OperationType
<1>4. ASSUME op.code \in WriteSingleCodes
      PROVE  op.quantity = 1 /\ op.values[1] \in Word
  <2>1. op.quantity = 1
    BY <1>4, Zenon DEF OperationType
  <2>2. op.code \notin ReadCodes
    BY <1>4, CodeNumbers
  <2>3. Len(op.values) = 1
    BY <1>3, <2>1, <2>2, Zenon
  <2>4. op.values[1] \in Word
    BY <1>2, <2>3, ElementOfSeq
  <2> QED
    BY <2>1, <2>4
<1> QED
  BY <1>1, <1>2, <1>3, <1>4

\* A slave of the same classes reads in the request of a call what the call was
\* given, and nothing is left over.
THEOREM RequestReadBack ==
  ASSUME NEW op, Sent(op)
  PROVE  /\ RequestPdu(op).value[1] = op.code
         /\ Len(RequestPdu(op).value) <= kMaxPduSize
         /\ RequestPdu(op).value \in Seq(Byte)
         /\ Understood(RequestPdu(op).value) = Created(op)
<1> DEFINE pdu == RequestPdu(op).value
<1> HIDE DEF pdu
<1>1. OperationType(op)
  BY DEF Sent
<1>2. CASE op.code \in ReadCodes
  <2> DEFINE m == [address |-> op.address, quantity |-> op.quantity]
  <2>1. Created(op) = Ok(m, <<>>) /\ Created(op).value = m
    BY <1>2, SentRead, Zenon
  <2>2. Created(op) = CreateRange(op.code, op.address, op.quantity, <<>>)
    BY <1>2, CodeNumbers DEF Created
  <2>3. m.address = op.address /\ m.quantity = op.quantity
    OBVIOUS
  <2> HIDE DEF m
  <2>4. RequestKind(op.code) = "range" /\ op.code \in Byte
    <3>1. RequestKind(op.code) = "range"
      BY <1>2, CodeNumbers DEF RequestKind
    <3> QED
      BY <1>2, <3>1, CodeIsByte
  <2>5. pdu = RangeBytes(op.code, m)
    BY <2>1, <2>4, SentBytes DEF EncodingOf, pdu
  <2>6. op.address \in Word /\ op.quantity \in Word
    BY <1>1, OperationFields, Zenon
  <2>8. pdu \in Seq(Byte) /\ Len(pdu) = 5 /\ pdu[1] = op.code
    BY <2>3, <2>4, <2>5, <2>6, FiveBytes DEF RangeBytes
  <2>7. DeserializeRange(op.code, pdu) = Created(op)
    <3>1. <<>> \in Seq(Byte) /\ pdu \o <<>> = pdu
      BY <2>8, NothingBehind, Zenon
    <3>2. DeserializeRange(op.code, RangeBytes(op.code, m) \o <<>>) =
            CreateRange(op.code, m.address, m.quantity, <<>>)
      BY <2>3, <2>4, <2>6, <3>1, RangeReadBack
    <3> QED
      BY <2>2, <2>3, <2>5, <3>1, <3>2, Zenon
  <2>9. Understood(pdu) = DeserializeRange(op.code, pdu)
    BY <2>4, <2>8 DEF Understood, Deserialize
  <2> QED
    BY <2>7, <2>8, <2>9 DEF kMaxPduSize, pdu
<1>3. CASE op.code \in WriteSingleCodes
  <2> DEFINE m == [address |-> op.address, value |-> op.values[1]]
  <2>1. Created(op).value = m
    BY <1>3, SentSingle, Zenon
  <2>2. Created(op) = CreateSingle(op.code, op.address, op.values[1], <<>>)
    BY <1>3, CodeNumbers DEF Created
  <2>3. m.address = op.address /\ m.value = op.values[1]
    OBVIOUS
  <2>4. op.code \in BitCodes => op.values[1] \in Coil
    BY <1>3, SentSingle, Zenon
  <2> HIDE DEF m
  <2>5. RequestKind(op.code) = "single" /\ op.code \in Byte
    <3>1. RequestKind(op.code) = "single"
      BY <1>3, CodeNumbers DEF RequestKind
    <3> QED
      BY <1>3, <3>1, CodeIsByte
  <2>6. pdu = SingleBytes(op.code, m)
    BY <2>1, <2>5, SentBytes DEF EncodingOf, pdu
  <2>7. op.address \in Word /\ op.values[1] \in Word
    BY <1>1, <1>3, OperationFields, Zenon
  <2> DEFINE raw == IF op.code \in BitCodes THEN CoilToRaw(m.value) ELSE m.value
  <2>9. raw \in Word
    BY <2>3, <2>7, CoilIsWord
  <2>10. pdu = <<op.code>> \o Be16(op.address) \o Be16(raw)
    BY <2>3, <2>6 DEF SingleBytes
  <2> HIDE DEF raw
  <2>11. pdu \in Seq(Byte) /\ Len(pdu) = 5 /\ pdu[1] = op.code
    BY <2>5, <2>7, <2>9, <2>10, FiveBytes
  <2>8. DeserializeSingle(op.code, pdu) = Created(op)
    <3>1. <<>> \in Seq(Byte) /\ pdu \o <<>> = pdu
      BY <2>11, NothingBehind, Zenon
    <3>2. DeserializeSingle(op.code, SingleBytes(op.code, m) \o <<>>) =
            CreateSingle(op.code, m.address, m.value, <<>>)
      BY <2>3, <2>4, <2>5, <2>7, <3>1, SingleReadBack
    <3> QED
      BY <2>2, <2>3, <2>6, <3>1, <3>2, Zenon
  <2>12. Understood(pdu) = DeserializeSingle(op.code, pdu)
    BY <2>5, <2>11 DEF Understood, Deserialize
  <2> QED
    BY <2>8, <2>11, <2>12 DEF kMaxPduSize, pdu
<1>4. CASE op.code \in WriteMultipleCodes
  <2> DEFINE m == [address |-> op.address, values |-> op.values]
             quantity == Len(op.values)
  <2>1. Created(op).value = m
    BY <1>4, SentMultiple, Zenon
  <2>2. Created(op) = CreateWrite(op.code, op.address, op.values, <<>>)
    BY <1>4, CodeNumbers DEF Created
  <2>3. m.address = op.address /\ m.values = op.values
    OBVIOUS
  <2>4. /\ QuantityAllowed(op.code, quantity) /\ ~ WouldAddressOverflow(op.address, quantity)
        /\ op.code \in BitCodes => \A i \in DOMAIN op.values : op.values[i] \in Coil
    BY <1>4, SentMultiple, Zenon
  <2>5. RequestKind(op.code) = "write" /\ op.code \in Byte
    <3>1. RequestKind(op.code) = "write"
      BY <1>4, CodeNumbers DEF RequestKind
    <3> QED
      BY <1>4, <3>1, CodeIsByte
  <2> HIDE DEF m
  <2>6. pdu = WriteBytes(op.code, m)
    BY <2>1, <2>5, SentBytes DEF EncodingOf, pdu
  <2>7. op.address \in Word /\ op.values \in Seq(Word) /\ quantity \in Word
    <3>1. op.code \notin ReadCodes
      BY <1>4, CodeNumbers
    <3> QED
      BY <1>1, <3>1, OperationFields, Zenon
  <2> HIDE DEF quantity
  <2>8. quantity = Len(op.values)
    BY DEF quantity
  <2>9. /\ DeserializeWrite(op.code, pdu) = Created(op)
        /\ Len(pdu) = 6 + ByteCount(op.code, quantity) /\ pdu[1] = op.code
        /\ pdu \in Seq(Byte)
    <3>1. <<>> \in Seq(Byte) /\ \A bytes \in Seq(Byte) : bytes \o <<>> = bytes
      BY NothingBehind
    <3>2. PICK none : none = <<>>
      OBVIOUS
    <3>3. /\ DeserializeWrite(op.code, WriteBytes(op.code, m) \o none) =
               CreateWrite(op.code, op.address, op.values, none)
          /\ Len(WriteBytes(op.code, m)) = 6 + ByteCount(op.code, quantity)
          /\ WriteBytes(op.code, m)[1] = op.code /\ WriteBytes(op.code, m) \in Seq(Byte)
      <4>1. none \in Seq(Byte)
        BY <3>1, <3>2
      <4> QED
        BY <1>4, <2>3, <2>4, <2>7, <2>8, <4>1, WriteReadBack
    <3>4. DeserializeWrite(op.code, pdu) = Created(op)
      BY <2>2, <2>6, <3>1, <3>2, <3>3, Zenon
    <3> QED
      BY <2>6, <3>3, <3>4, Zenon
  <2>10. Len(pdu) <= kMaxPduSize
    <3>1. quantity \in Word
      BY <2>7
    <3>2. quantity \in Nat
      BY <3>1, WordIsNat, Zenon
    <3>3. ByteCount(op.code, quantity) \in Nat /\ 6 + ByteCount(op.code, quantity) <= kMaxPduSize
      BY <1>4, <2>4, <3>2, WriteSize, Zenon
    <3> QED
      BY <2>9, <3>3, Zenon
  <2>11. Understood(pdu) = DeserializeWrite(op.code, pdu)
    BY <2>5, <2>9 DEF Understood, Deserialize
  <2> QED
    BY <2>9, <2>10, <2>11 DEF pdu
<1> QED
  BY <1>1, <1>2, <1>3, <1>4, OperationFields

----------------------------------------------------------------------------
(***************************************************************************)
(* The response to a read.                                                 *)
(***************************************************************************)

\* The fields of the response, for any byte count that is announced.
ValuesFields(bytes, code, size, p) ==
  /\ bytes \in Seq(Byte) /\ Len(bytes) = 2 + Len(p)
  /\ bytes[1] = code /\ bytes[2] = size /\ From(bytes, 2) = p

\* The bytes of the response are those fields.
LEMMA ValuesLayout ==
  ASSUME NEW code \in Byte, NEW size \in Byte, NEW p \in Seq(Byte), NEW bytes,
         bytes = <<code, size>> \o p
  PROVE  ValuesFields(bytes, code, size, p)
<1> DEFINE h == <<code, size>>
           y == h \o p
<1>1. h \in Seq(Byte) /\ Len(h) = 2 /\ h[1] = code /\ h[2] = size
  OBVIOUS
<1> HIDE DEF h
<1>2. /\ y \in Seq(Byte) /\ Len(y) = Len(h) + Len(p)
      /\ \A i \in 1 .. Len(h) : y[i] = h[i]
  BY <1>1, Joined, ZenonT(30)
<1>3. From(y, Len(h)) = p
  BY <1>1, FromJoined, Zenon
<1> HIDE DEF y
<1>4. y[1] = code /\ y[2] = size
  BY <1>1, <1>2
<1>5. Len(y) = 2 + Len(p) /\ From(y, 2) = p
  BY <1>1, <1>2, <1>3
<1>6. ValuesFields(y, code, size, p)
  BY <1>2, <1>4, <1>5 DEF ValuesFields
<1>7. y = bytes
  BY Zenon DEF h, y
<1> QED
  BY <1>6, <1>7, Zenon

\* The values a response was made of are those its reader returns, whatever
\* follows the response.
THEOREM ValuesReadBack ==
  ASSUME NEW code \in ReadCodes, NEW values \in Seq(Word), NEW n \in Nat, n = Len(values),
         code \in BitCodes => \A i \in DOMAIN values : values[i] \in Coil,
         QuantityAllowed(code, n), NEW m, m.values = values, NEW tail \in Seq(Byte)
  PROVE  LET bytes == ValuesBytes(code, m)
         IN  /\ DeserializeValues(code, bytes \o tail, n) = CreateValues(code, values, tail)
             /\ Unpack(code, From(bytes, 2), n) = values
             /\ bytes[1] = code /\ bytes \in Seq(Byte)
             /\ Len(bytes) = 2 + ByteCount(code, n)
<1> DEFINE p == Pack(code, values)
           size == ByteCount(code, n)
<1>1. code \in Byte
  BY CodeNumbers DEF Byte
<1>2. /\ size \in Byte /\ size \in Nat /\ size = ContentBytes(code, n)
      /\ p \o tail \in Seq(Byte) /\ Len(p \o tail) \in Nat /\ Len(p \o tail) >= size
      /\ Unpack(code, p \o tail, n) = values /\ From(p \o tail, size) = tail
  BY ContentFound
<1>3. p \in Seq(Byte) /\ Len(p) = size /\ Unpack(code, p, n) = values
  BY ContentReadBack
<1>4. PICK bytes : bytes = ValuesBytes(code, m)
  OBVIOUS
<1>5. bytes = <<code, size>> \o p
  BY <1>4, Zenon DEF ValuesBytes
<1> HIDE DEF p, size
<1>6. \A q \in Seq(Byte) : ValuesFields(<<code, size>> \o q, code, size, q)
  BY <1>1, <1>2, ValuesLayout, Zenon
<1>7. ValuesFields(bytes, code, size, p)
  BY <1>3, <1>5, <1>6, Zenon
<1>8. PICK h : h = <<code, size>>
  OBVIOUS
<1>9. h \in Seq(Byte)
  BY <1>1, <1>2, <1>8
<1>10. PICK buf : buf = bytes \o tail
  OBVIOUS
<1>11. buf = h \o (p \o tail)
  BY <1>3, <1>5, <1>8, <1>9, <1>10, ConcatAssociative
<1>12. ValuesFields(buf, code, size, p \o tail)
  BY <1>2, <1>6, <1>8, <1>11, Zenon
<1>13. /\ buf \in Seq(Byte) /\ Len(buf) = 2 + Len(p \o tail)
       /\ buf[1] = code /\ buf[2] = size /\ From(buf, 2) = p \o tail
  BY <1>12 DEF ValuesFields
<1>14. Len(buf) >= 2 + size
  BY <1>2, <1>13
<1>15. ValuesBegin(code, buf, n, n, size)
  BY <1>2, <1>13, <1>14 DEF ValuesBegin
<1>16. From(buf, 2 + size) = tail
  <2>1. 2 \in 0 .. Len(buf) /\ size \in 0 .. Len(buf) - 2
    BY <1>2, <1>13
  <2>2. From(From(buf, 2), size) = From(buf, 2 + size)
    BY <1>13, <2>1, FromFrom, Zenon
  <2> QED
    BY <1>2, <1>13, <2>2, Zenon
<1>17. DeserializeValues(code, buf, n) = CreateValues(code, values, tail)
  <2>1. DeserializeValues(code, buf, n) =
          CreateValues(code, Unpack(code, From(buf, 2), n), From(buf, 2 + size))
    BY <1>2, <1>13, <1>15, ValuesRead
  <2> QED
    BY <1>2, <1>13, <1>16, <2>1, Zenon
<1>18. /\ bytes[1] = code /\ bytes \in Seq(Byte) /\ Len(bytes) = 2 + size /\ From(bytes, 2) = p
  BY <1>3, <1>7 DEF ValuesFields
<1> QED
  BY <1>3, <1>4, <1>10, <1>17, <1>18, Zenon DEF size

----------------------------------------------------------------------------
(***************************************************************************)
(* The slave serves a request that was read back.                          *)
(***************************************************************************)

Place(op) == op.address .. op.address + op.quantity - 1

\* The tables after a call, and its answer, as RemoteMemory has them.
WrittenTo(tables, op) ==
  IF ~ op.write THEN tables
  ELSE [tables EXCEPT ![op.table] =
          [a \in Addresses |-> IF a \in Place(op) THEN op.values[a - op.address + 1] ELSE @[a]]]

AnswerFrom(tables, op) ==
  IF op.write THEN <<>>
  ELSE [i \in 1 .. op.quantity |-> tables[op.table][op.address + i - 1]]

\* Values a call may read.
IsContent(op, v) ==
  /\ v \in Seq(Word) /\ Len(v) = op.quantity
  /\ op.code \in BitCodes => \A i \in DOMAIN v : v[i] \in Coil

\* A response to a call: of another function code, or of values it may read.
AnswerTo(op, pdu) ==
  /\ Len(pdu) \in Nat
  /\ pdu[1] = op.code /\ ~ op.write =>
       \E v : IsContent(op, v) /\ pdu = ValuesBytes(op.code, [values |-> v])

\* Which calls write, and where.
LEMMA SentFields ==
  ASSUME NEW op, Sent(op)
  PROVE  /\ op.code \in ReadCodes \cup WriteSingleCodes \cup WriteMultipleCodes
         /\ op.code \in 1 .. 127
         /\ op.write <=> op.code \notin ReadCodes
         /\ op.table = TableOf(op.code) /\ op.table \in Tables
         /\ op.table \in BitTables <=> op.code \in BitCodes
         /\ op.write => op.table \notin {"discrete inputs", "input registers"}
         /\ op.address \in Nat /\ op.quantity \in Nat
<1>1. OperationType(op)
  BY DEF Sent
<1>2. /\ op.code \in ReadCodes \cup WriteSingleCodes \cup WriteMultipleCodes
      /\ op.address \in Word /\ op.quantity \in Word
  BY <1>1, OperationFields, Zenon
<1>3. op.write <=> op.code \notin ReadCodes
  BY <1>1, Zenon DEF OperationType
<1>4. op.table = TableOf(op.code)
  BY <1>1, Zenon DEF OperationType
<1>5. op.code \in 1 .. 127
  BY <1>2, CodeNumbers
<1>10. op.address \in Word /\ op.quantity \in Word
  BY <1>2
<1>6. op.address \in Nat /\ op.quantity \in Nat
  BY <1>10, WordIsNat, Zenon
<1>7. TableOf(op.code) \in Tables
  BY DEF TableOf, Tables
<1>8. TableOf(op.code) \in BitTables <=> op.code \in BitCodes
  BY <1>2, CodeNumbers DEF TableOf, BitTables, kReadCoils, kWriteSingleCoil,
     kWriteMultipleCoils, kReadDiscreteInputs, kReadInputRegisters
<1>9. op.code \notin ReadCodes => TableOf(op.code) \notin {"discrete inputs", "input registers"}
  BY <1>2, CodeNumbers DEF TableOf, kReadCoils, kWriteSingleCoil,
     kWriteMultipleCoils, kReadDiscreteInputs, kReadInputRegisters
<1> QED
  BY <1>2, <1>3, <1>4, <1>5, <1>6, <1>7, <1>8, <1>9, Zenon

\* A response of values a call may read is accepted, and gives those values.
LEMMA AnswerCarries ==
  ASSUME NEW op, Sent(op), ~ op.write, NEW v, IsContent(op, v),
         NEW pdu, pdu = ValuesBytes(op.code, [values |-> v])
  PROVE  /\ ResponseOf(op, pdu) = Ok([values |-> v], <<>>)
         /\ Unpack(op.code, From(pdu, 2), op.quantity) = v
         /\ pdu[1] = op.code /\ Len(pdu) \in Nat /\ pdu \in Seq(Byte)
<1> DEFINE code == op.code
           n == op.quantity
           m == [values |-> v]
<1>1. code \in ReadCodes /\ n \in Nat
  BY SentFields, Zenon
<1>2. QuantityAllowed(code, n)
  BY <1>1, SentRead, Zenon
<1>3. v \in Seq(Word) /\ n = Len(v) /\ (code \in BitCodes => \A i \in DOMAIN v : v[i] \in Coil)
  BY Zenon DEF IsContent
<1>4. m.values = v
  OBVIOUS
<1> HIDE DEF code, n, m
<1>5. /\ DeserializeValues(code, ValuesBytes(code, m), n) = CreateValues(code, v, <<>>)
      /\ Unpack(code, From(ValuesBytes(code, m), 2), n) = v
      /\ ValuesBytes(code, m)[1] = code /\ ValuesBytes(code, m) \in Seq(Byte)
  <2>1. <<>> \in Seq(Byte) /\ \A bytes \in Seq(Byte) : bytes \o <<>> = bytes
    BY NothingBehind
  <2>2. PICK none : none = <<>>
    OBVIOUS
  <2>3. none \in Seq(Byte)
    BY <2>1, <2>2
  <2>4. /\ DeserializeValues(code, ValuesBytes(code, m) \o none, n) = CreateValues(code, v, none)
        /\ Unpack(code, From(ValuesBytes(code, m), 2), n) = v
        /\ ValuesBytes(code, m)[1] = code /\ ValuesBytes(code, m) \in Seq(Byte)
    BY <1>1, <1>2, <1>3, <1>4, <2>3, ValuesReadBack
  <2> QED
    BY <2>1, <2>2, <2>4, Zenon
<1>6. pdu = ValuesBytes(code, m)
  BY Zenon DEF code, m
<1>7. Len(pdu) \in Nat
  BY <1>5, <1>6, LenProperties
<1>8. ResponseKind(code) = "values"
  BY <1>1, CodeNumbers DEF ResponseKind
<1>9. ResponseOf(op, pdu) = Deserialize("values", code, n, pdu)
  BY <1>8, Zenon DEF ResponseOf, code, n
<1>10. ResponseOf(op, pdu) = DeserializeValues(code, pdu, n)
  BY <1>9 DEF Deserialize
<1>11. CreateValues(code, v, <<>>) = Ok(m, <<>>)
  BY <1>2, <1>3, ValuesMade, Zenon DEF m
<1> QED
  BY <1>5, <1>6, <1>7, <1>10, <1>11 DEF code, n, m

\* The addresses the slave reads in a request are those of the call.
LEMMA CoversPlace ==
  ASSUME NEW op, Sent(op)
  PROVE  Covered(op.code, Created(op).value) = Place(op)
<1> DEFINE m == Created(op).value
           code == op.code
<1>1. /\ code \in ReadCodes \cup WriteSingleCodes \cup WriteMultipleCodes
      /\ op.write <=> code \notin ReadCodes
  BY SentFields, Zenon
<1>2. op.write => op.quantity = Len(op.values)
  BY <1>1, OperationFields, Zenon DEF Sent
<1>3. CASE code \in ReadCodes
  <2>1. m = [address |-> op.address, quantity |-> op.quantity]
    BY <1>3, SentRead, Zenon
  <2>2. Extent(code, m) = op.quantity
    BY <1>3, <2>1, CodeNumbers DEF Extent
  <2> QED
    BY <2>1, <2>2 DEF Covered, Place
<1>4. CASE code \in WriteSingleCodes
  <2>1. m = [address |-> op.address, value |-> op.values[1]]
    BY <1>4, SentSingle, Zenon
  <2>2. op.quantity = 1
    BY <1>4, OperationFields, Zenon DEF Sent
  <2>3. Extent(code, m) = 1
    BY <1>4, CodeNumbers DEF Extent
  <2> QED
    BY <2>1, <2>2, <2>3 DEF Covered, Place
<1>5. CASE code \in WriteMultipleCodes
  <2>1. m = [address |-> op.address, values |-> op.values]
    BY <1>5, SentMultiple, Zenon
  <2>2. op.quantity = Len(op.values)
    BY <1>1, <1>2, <1>5, CodeNumbers
  <2>3. Extent(code, m) = Len(op.values)
    BY <1>5, <2>1, CodeNumbers DEF Extent
  <2> QED
    BY <2>1, <2>2, <2>3 DEF Covered, Place
<1> QED
  BY <1>1, <1>3, <1>4, <1>5

\* What a served request does: all of its effect and the answer to the call, or
\* nothing and an exception.
LEMMA Served ==
  ASSUME NEW op, Sent(op), NEW tables, MemoryType(tables)
  PROVE  LET done == Executed(tables, op.code, Created(op).value)
         IN  /\ MemoryType(done.tables)
             /\ AnswerTo(op, done.reply) /\ done.reply \in Seq(Byte)
             /\ Place(op) \subseteq Addresses =>
                  /\ done.tables = WrittenTo(tables, op)
                  /\ done.reply[1] = op.code
                  /\ ~ op.write =>
                       Unpack(op.code, From(done.reply, 2), op.quantity) = AnswerFrom(tables, op)
             /\ ~ Place(op) \subseteq Addresses =>
                  done.tables = tables /\ done.reply[1] # op.code
<1> DEFINE m == Created(op).value
           code == op.code
           done == Executed(tables, code, m)
<1>1. /\ code \in ReadCodes \cup WriteSingleCodes \cup WriteMultipleCodes /\ code \in 1 .. 127
      /\ op.write <=> code \notin ReadCodes
      /\ op.table = TableOf(code) /\ op.table \in Tables
      /\ op.table \in BitTables <=> code \in BitCodes
      /\ op.address \in Nat /\ op.quantity \in Nat
  BY SentFields, Zenon
<1>2. op.address \in Word /\ op.quantity \in Word /\ op.values \in Seq(Word)
  BY OperationFields, Zenon DEF Sent
<1>3. op.write => op.quantity = Len(op.values)
  BY <1>1, OperationFields, Zenon DEF Sent
<1>4. /\ tables \in [Tables -> [Addresses -> Word]]
      /\ \A t \in BitTables : tables[t] \in [Addresses -> Coil]
  BY Zenon DEF MemoryType
<1>5. Covered(code, m) = Place(op)
  BY CoversPlace, Zenon
<1>6. CASE ~ Place(op) \subseteq Addresses
  <2>1. done = [tables |-> tables, reply |-> IllegalDataAddress(code)]
    BY <1>5, <1>6 DEF Executed
  <2>2. Len(IllegalDataAddress(code)) = 2 /\ IllegalDataAddress(code)[1] = code + 128
    BY <1>1, ErrorHead
  <2>3. IllegalDataAddress(code)[1] # code
    BY <1>1, <2>2
  <2>4. AnswerTo(op, IllegalDataAddress(code))
    BY <2>2, <2>3 DEF AnswerTo
  <2>5. IllegalDataAddress(code) \in Seq(Byte)
    <3>1. PICK e : e = ToErrorFunctionCode(code)
      OBVIOUS
    <3>2. IllegalDataAddress(code) = <<e, 2>>
      BY <3>1 DEF IllegalDataAddress, ErrorBytes
    <3>3. e \in Byte /\ 2 \in Byte
      BY <1>1, <3>1 DEF ToErrorFunctionCode, IsErrorFunctionCode, kErrorFlag, Byte
    <3> QED
      BY <3>2, <3>3
  <2> QED
    BY <1>6, <2>1, <2>3, <2>4, <2>5
<1>7. CASE Place(op) \subseteq Addresses /\ code \in ReadCodes
  <2> DEFINE v == [i \in 1 .. op.quantity |-> tables[op.table][op.address + i - 1]]
  <2>1. m = [address |-> op.address, quantity |-> op.quantity]
    BY <1>7, SentRead, Zenon
  <2>2. Stored(tables, code, m) = tables
    BY <1>7 DEF Stored
  <2>3. ResponseKind(code) = "values"
    BY <1>7, CodeNumbers DEF ResponseKind
  <2>4. Response(tables, code, m) = ValuesBytes(code, [values |-> v])
    BY <1>1, <1>7, <2>1, <2>3, CodeNumbers DEF Response, EncodingOf
  <2>5. ~ op.write
    BY <1>1, <1>7
  <2>6. \A i \in 1 .. op.quantity : op.address + i - 1 \in Addresses
    BY <1>1, <1>7 DEF Place
  <2>7. tables[op.table] \in [Addresses -> Word]
    BY <1>1, <1>4
  <2>8. v \in [1 .. op.quantity -> Word]
    BY <2>6, <2>7
  <2>9. code \in BitCodes => \A i \in 1 .. op.quantity : v[i] \in Coil
    BY <1>1, <1>4, <2>6
  <2>10. v = AnswerFrom(tables, op)
    BY <2>5 DEF AnswerFrom
  <2> HIDE DEF v
  <2>11. v \in Seq(Word) /\ Len(v) = op.quantity
    BY <1>1, <2>8, ListIsSequence
  <2>12. IsContent(op, v)
    BY <2>8, <2>9, <2>11 DEF IsContent
  <2>13. /\ Unpack(code, From(ValuesBytes(code, [values |-> v]), 2), op.quantity) = v
         /\ ValuesBytes(code, [values |-> v])[1] = code
         /\ Len(ValuesBytes(code, [values |-> v])) \in Nat
         /\ ValuesBytes(code, [values |-> v]) \in Seq(Byte)
    BY <2>5, <2>12, AnswerCarries, Zenon
  <2>14. done = [tables |-> tables, reply |-> ValuesBytes(code, [values |-> v])]
    BY <1>5, <1>7, <2>2, <2>4, Zenon DEF Executed
  <2>15. done.tables = tables /\ done.reply = ValuesBytes(code, [values |-> v])
    BY <2>14
  <2>16. AnswerTo(op, done.reply)
    BY <2>12, <2>13, <2>15, Zenon DEF AnswerTo
  <2>17. WrittenTo(tables, op) = tables
    BY <2>5 DEF WrittenTo
  <2> HIDE DEF done
  <2> QED
    BY <1>7, <2>10, <2>13, <2>15, <2>16, <2>17, Zenon DEF done
<1>8. CASE Place(op) \subseteq Addresses /\ code \notin ReadCodes
  <2>1. op.write
    BY <1>1, <1>8
  \* The two classes of writes store the same, under other names.
  <2>2. /\ Stored(tables, code, m) = WrittenTo(tables, op)
        /\ Len(Response(tables, code, m)) \in Nat /\ Response(tables, code, m)[1] = code
        /\ Response(tables, code, m) \in Seq(Byte)
    <3>1. CASE code \in WriteSingleCodes
      <4>1. m = [address |-> op.address, value |-> op.values[1]]
        BY <3>1, SentSingle, Zenon
      <4>2. m.address = op.address /\ m.value = op.values[1]
        BY <4>1
      <4>3. op.quantity = 1 /\ op.values[1] \in Word
        BY <3>1, OperationFields, Zenon DEF Sent
      <4>4. <<m.value>>[1] = op.values[1]
        BY <4>2
      <4>5. \A a \in Place(op) : a - op.address + 1 = 1
        BY <1>1, <4>3 DEF Place
      <4>6. Stored(tables, code, m) =
              [tables EXCEPT ![TableOf(code)] =
                 [a \in Addresses |->
                    IF a \in Place(op) THEN <<m.value>>[a - op.address + 1] ELSE @[a]]]
        BY <1>5, <1>8, <3>1, <4>2, Zenon DEF Stored
      <4>7. \A a \in Place(op) : <<m.value>>[a - op.address + 1] = op.values[a - op.address + 1]
        BY <4>4, <4>5
      <4>8. Stored(tables, code, m) = WrittenTo(tables, op)
        BY <1>1, <2>1, <4>6, <4>7 DEF WrittenTo
      <4>9. ResponseKind(code) = "single"
        BY <1>8, <3>1, CodeNumbers DEF ResponseKind
      <4>10. Response(tables, code, m) = SingleBytes(code, m)
        BY <1>8, <3>1, <4>9, CodeNumbers DEF Response, EncodingOf
      <4> DEFINE w == IF code \in BitCodes THEN CoilToRaw(m.value) ELSE m.value
      <4>11. w \in Word
        BY <4>2, <4>3, CoilIsWord, Zenon
      <4>12. Response(tables, code, m) = <<code>> \o Be16(op.address) \o Be16(w)
        BY <4>2, <4>10, Zenon DEF SingleBytes
      <4> HIDE DEF w
      <4>13. code \in Byte
        BY <1>1, CodeIsByte
      <4>14. /\ Response(tables, code, m) \in Seq(Byte)
            /\ Len(Response(tables, code, m)) = 5 /\ Response(tables, code, m)[1] = code
        BY <1>2, <4>11, <4>12, <4>13, FiveBytes
      <4> QED
        BY <4>8, <4>14
    <3>2. CASE code \in WriteMultipleCodes
      <4>1. m = [address |-> op.address, values |-> op.values]
        BY <3>2, SentMultiple, Zenon
      <4>2. m.address = op.address /\ m.values = op.values
        BY <4>1
      <4>3. code \notin WriteSingleCodes
        BY <3>2, CodeNumbers
      <4>4. Stored(tables, code, m) = WrittenTo(tables, op)
        BY <1>1, <1>5, <1>8, <2>1, <4>2, <4>3, Zenon DEF Stored, WrittenTo
      <4>5. ResponseKind(code) = "range"
        BY <1>8, <3>2, <4>3, CodeNumbers DEF ResponseKind
      <4>6. Extent(code, m) = op.quantity
        BY <1>3, <1>8, <2>1, <3>2, <4>2, <4>3 DEF Extent
      <4>7. Response(tables, code, m) =
              RangeBytes(code, [address |-> op.address, quantity |-> op.quantity])
        BY <1>8, <3>2, <4>2, <4>3, <4>5, <4>6, CodeNumbers DEF Response, EncodingOf
      <4>8. Response(tables, code, m) = <<code>> \o Be16(op.address) \o Be16(op.quantity)
        BY <4>7 DEF RangeBytes
      <4>9. code \in Byte
        BY <1>1, CodeIsByte
      <4>10. /\ Response(tables, code, m) \in Seq(Byte)
            /\ Len(Response(tables, code, m)) = 5 /\ Response(tables, code, m)[1] = code
        BY <1>2, <4>8, <4>9, FiveBytes
      <4> QED
        BY <4>4, <4>10
    <3> QED
      BY <1>1, <1>8, <3>1, <3>2
  <2>3. done = [tables |-> Stored(tables, code, m), reply |-> Response(tables, code, m)]
    BY <1>5, <1>8, Zenon DEF Executed
  <2>4. done.tables = WrittenTo(tables, op) /\ done.reply = Response(tables, code, m)
    BY <2>2, <2>3
  <2>5. AnswerTo(op, done.reply) /\ done.reply[1] = code /\ done.reply \in Seq(Byte)
    BY <2>1, <2>2, <2>4 DEF AnswerTo
  <2>6. MemoryType(WrittenTo(tables, op))
    <3> DEFINE new == [a \in Addresses |->
                         IF a \in Place(op) THEN op.values[a - op.address + 1]
                         ELSE tables[op.table][a]]
    <3>1. WrittenTo(tables, op) = [tables EXCEPT ![op.table] = new]
      BY <1>1, <1>4, <2>1 DEF WrittenTo
    <3>2. \A a \in Place(op) : a - op.address + 1 \in 1 .. Len(op.values)
      BY <1>1, <1>3, <2>1 DEF Place
    <3>3. \A i \in 1 .. Len(op.values) : op.values[i] \in Word
      BY <1>2, ElementOfSeq
    <3>4. tables[op.table] \in [Addresses -> Word]
      BY <1>1, <1>4
    <3>5. new \in [Addresses -> Word]
      BY <3>2, <3>3, <3>4
    <3>6. ASSUME op.table \in BitTables
          PROVE  new \in [Addresses -> Coil]
      <4>1. code \in BitCodes /\ tables[op.table] \in [Addresses -> Coil]
        BY <1>1, <1>4, <3>6
      <4>2. \A i \in 1 .. Len(op.values) : op.values[i] \in Coil
        <5>1. CASE code \in WriteSingleCodes
          <6>1. op.values[1] \in Coil
            BY <4>1, <5>1, SentSingle, Zenon
          <6>2. Len(op.values) = 1
            BY <1>3, <2>1, <5>1, OperationFields, Zenon DEF Sent
          <6> QED
            BY <6>1, <6>2
        <5>2. CASE code \in WriteMultipleCodes
          <6>1. \A i \in DOMAIN op.values : op.values[i] \in Coil
            BY <4>1, <5>2, SentMultiple, Zenon
          <6> QED
            BY <1>2, <6>1
        <5> QED
          BY <1>1, <1>8, <5>1, <5>2
      <4> QED
        BY <3>2, <4>1, <4>2
    <3> HIDE DEF new
    <3>7. [tables EXCEPT ![op.table] = new] \in [Tables -> [Addresses -> Word]]
      BY <1>1, <1>4, <3>5
    <3>8. \A t \in BitTables : [tables EXCEPT ![op.table] = new][t] \in [Addresses -> Coil]
      <4>1. BitTables \subseteq Tables
        BY DEF BitTables, Tables
      <4>2. \A t \in Tables : [tables EXCEPT ![op.table] = new][t] =
                               IF t = op.table THEN new ELSE tables[t]
        BY <1>4
      <4> QED
        BY <1>4, <3>6, <4>1, <4>2, Zenon
    <3> QED
      BY <3>1, <3>7, <3>8 DEF MemoryType
  <2> HIDE DEF done
  <2> QED
    BY <1>8, <2>1, <2>4, <2>5, <2>6, Zenon DEF done
<1> QED
  BY <1>6, <1>7, <1>8

LEMMA RefusalIsFailure ==
  ASSUME NEW op
  PROVE  Refusal(op) \in {"none", "kBufferTooSmall", "kInvalidRequest"}
BY DEF Refusal

\* What the slave's class reads in the request of a call.
LEMMA RequestMeans ==
  ASSUME NEW op, Sent(op)
  PROVE  LET pdu == RequestPdu(op).value
             r == Understood(pdu)
         IN  /\ Len(pdu) <= kMaxPduSize /\ pdu[1] = op.code
             /\ r = Created(op) /\ r.ok /\ r.rest = <<>>
             /\ Covered(pdu[1], r.value) = Place(op)
             /\ op.code \in WriteSingleCodes => <<r.value.value>> = op.values
             /\ op.code \in WriteMultipleCodes => r.value.values = op.values
<1> DEFINE pdu == RequestPdu(op).value
           r == Understood(pdu)
<1>1. pdu[1] = op.code /\ Len(pdu) <= kMaxPduSize /\ r = Created(op)
  BY RequestReadBack
<1>2. Covered(pdu[1], r.value) = Place(op)
  BY <1>1, CoversPlace, Zenon
<1>3. op.code \in ReadCodes \cup WriteSingleCodes \cup WriteMultipleCodes
  BY SentFields, Zenon
<1> HIDE DEF pdu, r
<1>4. CASE op.code \in ReadCodes
  <2> DEFINE m == [address |-> op.address, quantity |-> op.quantity]
  <2>1. r = Ok(m, <<>>)
    BY <1>1, <1>4, SentRead, Zenon
  <2> HIDE DEF m
  <2>2. r.ok /\ r.rest = <<>>
    BY <2>1 DEF Ok
  <2> QED
    BY <1>1, <1>2, <1>4, <2>2, CodeNumbers DEF pdu, r
<1>5. CASE op.code \in WriteSingleCodes
  <2> DEFINE m == [address |-> op.address, value |-> op.values[1]]
  <2>1. r = Ok(m, <<>>)
    BY <1>1, <1>5, SentSingle, Zenon
  <2>2. m.value = op.values[1]
    OBVIOUS
  <2> HIDE DEF m
  <2>3. r.ok /\ r.value = m /\ r.rest = <<>>
    BY <2>1 DEF Ok
  <2>4. op.quantity = 1 /\ op.values \in Seq(Word) /\ op.values[1] \in Word
    BY <1>5, OperationFields, Zenon DEF Sent
  <2>5. op.code \notin ReadCodes
    BY <1>5, CodeNumbers
  <2>6. Len(op.values) = 1
    BY <2>4, <2>5, OperationFields, Zenon DEF Sent
  <2>7. <<op.values[1]>> = op.values
    <3>1. <<op.values[1]>> \in Seq(Word) /\ Len(<<op.values[1]>>) = 1
      BY <2>4
    <3>2. \A i \in 1 .. 1 : <<op.values[1]>>[i] = op.values[i]
      OBVIOUS
    <3> QED
      BY <2>4, <2>6, <3>1, <3>2, SameElements
  <2>8. <<r.value.value>> = op.values
    BY <2>2, <2>3, <2>7
  <2> QED
    BY <1>1, <1>2, <1>5, <2>3, <2>8, CodeNumbers DEF pdu, r
<1>6. CASE op.code \in WriteMultipleCodes
  <2> DEFINE m == [address |-> op.address, values |-> op.values]
  <2>1. r = Ok(m, <<>>)
    BY <1>1, <1>6, SentMultiple, Zenon
  <2>2. m.values = op.values
    OBVIOUS
  <2> HIDE DEF m
  <2>3. r.ok /\ r.value = m /\ r.rest = <<>>
    BY <2>1 DEF Ok
  <2> QED
    BY <1>1, <1>2, <1>6, <2>2, <2>3, CodeNumbers DEF pdu, r
<1> QED
  BY <1>3, <1>4, <1>5, <1>6

\* What is found in more answers.
LEMMA FoundIn ==
  ASSUME NEW op, NEW answers
  PROVE  /\ \A fewer \in SUBSET answers : Found(op, fewer) \subseteq Found(op, answers)
         /\ \A pdu : pdu[1] # op.code => Found(op, answers \cup {pdu}) = Found(op, answers)
         /\ \A pdu : pdu[1] = op.code =>
              Found(op, answers \cup {pdu}) =
                Found(op, answers) \cup
                  {IF op.write THEN <<>> ELSE Unpack(op.code, From(pdu, 2), op.quantity)}
BY Zenon DEF Found

LEMMA NothingFound ==
  ASSUME NEW op
  PROVE  Found(op, {}) = {}
BY Zenon DEF Found

\* A write that took effect is in the memory.
LEMMA WrittenIsHeld ==
  ASSUME NEW op, Sent(op), op.write, NEW tables, MemoryType(tables),
         Place(op) \subseteq Addresses, NEW i \in DOMAIN op.values
  PROVE  /\ op.address + i - 1 \in Addresses
         /\ WrittenTo(tables, op)[op.table][op.address + i - 1] = op.values[i]
<1>1. /\ op.address \in Nat /\ op.table \in Tables /\ op.code \notin ReadCodes
  BY SentFields, Zenon
<1>2. op.values \in Seq(Word) /\ op.quantity = Len(op.values)
  BY <1>1, OperationFields, Zenon DEF Sent
<1>3. i \in 1 .. op.quantity
  BY <1>2, LenProperties
<1>4. op.address + i - 1 \in Place(op) /\ op.address + i - 1 - op.address + 1 = i
  BY <1>1, <1>2, <1>3, LenProperties DEF Place
<1>5. tables \in [Tables -> [Addresses -> Word]]
  BY Zenon DEF MemoryType
<1>6. WrittenTo(tables, op)[op.table] =
        [a \in Addresses |-> IF a \in Place(op) THEN op.values[a - op.address + 1]
                             ELSE tables[op.table][a]]
  BY <1>1, <1>5 DEF WrittenTo
<1>7. op.address + i - 1 \in Addresses
  BY <1>4
<1>8. \A a \in Addresses : a \in Place(op) =>
        WrittenTo(tables, op)[op.table][a] = op.values[a - op.address + 1]
  BY <1>6
<1>9. PICK a : a = op.address + i - 1
  OBVIOUS
<1>10. WrittenTo(tables, op)[op.table][a] = op.values[a - op.address + 1]
  BY <1>4, <1>7, <1>8, <1>9, Zenon
<1>11. a - op.address + 1 = i
  BY <1>1, <1>3, <1>9
<1>12. WrittenTo(tables, op)[op.table][a] = op.values[i]
  BY <1>10, <1>11, Zenon
<1> QED
  BY <1>7, <1>9, <1>12, Zenon

\* A call that is sent asks for something, and its buffer holds what it reads.
LEMMA SentFits ==
  ASSUME NEW op, Sent(op)
  PROVE  op.quantity > 0 /\ (op.write \/ op.quantity <= op.room)
<1>1. op.code \in ReadCodes \cup WriteSingleCodes \cup WriteMultipleCodes /\ op.quantity \in Nat
  BY SentFields, Zenon
<1>2. op.quantity > 0
  <2>1. CASE op.code \in ReadCodes
    <3>1. QuantityAllowed(op.code, op.quantity)
      BY <2>1, SentRead, Zenon
    <3>2. op.quantity >= 1
      BY <3>1 DEF QuantityAllowed, kMinQuantity
    <3> QED
      BY <1>1, <3>2
  <2>2. CASE op.code \in WriteSingleCodes
    <3>1. op.quantity = 1
      BY <2>2, OperationFields, Zenon DEF Sent
    <3> QED
      BY <3>1
  <2>3. CASE op.code \in WriteMultipleCodes
    <3>1. op.code \notin ReadCodes
      BY <2>3, CodeNumbers
    <3>2. op.quantity = Len(op.values)
      BY <3>1, OperationFields, Zenon DEF Sent
    <3>3. QuantityAllowed(op.code, op.quantity)
      BY <2>3, <3>2, SentMultiple, Zenon
    <3>4. op.quantity >= 1
      BY <3>3 DEF QuantityAllowed, kMinQuantity
    <3> QED
      BY <1>1, <3>4
  <2> QED
    BY <1>1, <2>1, <2>2, <2>3
<1>3. ~ op.write => ~ op.room < op.quantity
  BY DEF Sent, Refusal
<1>4. op.room \in Nat
  BY Zenon DEF Sent, OperationType
<1>5. ~ op.write => op.quantity <= op.room
  BY <1>1, <1>3, <1>4
<1> QED
  BY <1>2, <1>5

\* What a call makes of a response it accepts: it is found, and its values are
\* copied to the front of the buffer.
Taken(op, buffer, answers, pdu) ==
  /\ pdu[1] = op.code
  /\ Copied(op, buffer, ResponseOf(op, pdu)) \in Seq(Word \cup {Untouched})
  /\ \E values \in Found(op, answers) :
       Copied(op, buffer, ResponseOf(op, pdu)) =
         values \o SubSeq(buffer, Len(values) + 1, Len(buffer))

\* Values copied to the front of a buffer, and behind it when they do not fit.
LEMMA CopyLength ==
  ASSUME NEW v \in Seq(Word), NEW buffer \in Seq(Word \cup {Untouched})
  PROVE  LET new == v \o SubSeq(buffer, Len(v) + 1, Len(buffer))
         IN  /\ new \in Seq(Word \cup {Untouched})
             /\ Len(new) = IF Len(v) <= Len(buffer) THEN Len(buffer) ELSE Len(v)
<1> DEFINE S == Word \cup {Untouched}
           rest == SubSeq(buffer, Len(v) + 1, Len(buffer))
<1>1. Len(v) \in Nat /\ Len(buffer) \in Nat /\ v \in Seq(S) /\ buffer \in Seq(S)
  BY ElementOfSeq, LenProperties
<1>2. rest \in Seq(S) /\ Len(rest) = IF Len(v) <= Len(buffer) THEN Len(buffer) - Len(v) ELSE 0
  <2>1. CASE Len(v) <= Len(buffer)
    <3>1. Len(v) \in 0 .. Len(buffer) /\ rest = From(buffer, Len(v))
      BY <1>1, <2>1 DEF From
    <3>2. rest \in Seq(S) /\ Len(rest) = Len(buffer) - Len(v)
      BY <3>1, FromElements, Zenon
    <3> QED
      BY <2>1, <3>2
  <2>2. CASE ~ (Len(v) <= Len(buffer))
    <3>1. rest = <<>>
      BY <1>1, <2>2
    <3>2. <<>> \in Seq(S) /\ Len(<<>>) = 0
      OBVIOUS
    <3> HIDE DEF rest
    <3> QED
      BY <2>2, <3>1, <3>2
  <2> QED
    BY <2>1, <2>2
<1> HIDE DEF rest, S
<1>3. v \o rest \in Seq(S) /\ Len(v \o rest) = Len(v) + Len(rest)
  BY <1>1, <1>2, ConcatProperties
<1>4. Len(v \o rest) = IF Len(v) <= Len(buffer) THEN Len(buffer) ELSE Len(v)
  BY <1>1, <1>2, <1>3
<1> QED
  BY <1>3, <1>4 DEF rest, S

LEMMA AcceptedAnswer ==
  ASSUME NEW op, Sent(op), NEW answers, NEW pdu \in answers, AnswerTo(op, pdu),
         NEW buffer \in Seq(Word \cup {Untouched}), ResponseOf(op, pdu).ok
  PROVE  Taken(op, buffer, answers, pdu)
<1> SUFFICES /\ pdu[1] = op.code
             /\ Copied(op, buffer, ResponseOf(op, pdu)) \in Seq(Word \cup {Untouched})
             /\ \E values \in Found(op, answers) :
                  Copied(op, buffer, ResponseOf(op, pdu)) =
                    values \o SubSeq(buffer, Len(values) + 1, Len(buffer))
  BY DEF Taken
<1> DEFINE S == Word \cup {Untouched}
           response == ResponseOf(op, pdu)
<1>1. Sent(op) /\ AnswerTo(op, pdu)
  OBVIOUS
<1>2. buffer \in Seq(S)
  OBVIOUS
<1>3. Len(pdu) \in Nat
  BY <1>1 DEF AnswerTo
<1>4. op.code \in ReadCodes \cup WriteSingleCodes \cup WriteMultipleCodes
  BY <1>1, SentFields, Zenon
<1>5. pdu[1] = op.code
  BY <1>3, <1>4, ResponseAccepted, Zenon
<1>6. Len(buffer) \in Nat /\ \A i \in 1 .. Len(buffer) : buffer[i] \in S
  BY <1>2, ElementOfSeq, LenProperties
<1>7. CASE op.write
  <2>1. Copied(op, buffer, response) = buffer
    BY <1>7 DEF Copied
  <2>2. SubSeq(buffer, 1, Len(buffer)) = buffer
    <3>1. From(buffer, 0) = buffer
      BY <1>2, FromNothing
    <3> QED
      BY <3>1 DEF From
  <2>3. Len(<<>>) + 1 = 1 /\ <<>> \o buffer = buffer
    BY <1>2, ConcatEmptySeq
  <2>4. buffer = <<>> \o SubSeq(buffer, Len(<<>>) + 1, Len(buffer))
    BY <2>2, <2>3
  <2>5. <<>> \in Found(op, answers)
    BY <1>5, <1>7, Zenon DEF Found
  <2> QED
    BY <1>2, <1>5, <2>1, <2>4, <2>5, Zenon
<1>8. CASE ~ op.write
  <2>1. PICK v : IsContent(op, v) /\ pdu = ValuesBytes(op.code, [values |-> v])
    BY <1>1, <1>5, <1>8 DEF AnswerTo
  <2>2. /\ response = Ok([values |-> v], <<>>)
        /\ Unpack(op.code, From(pdu, 2), op.quantity) = v
    BY <1>1, <1>8, <2>1, AnswerCarries, ZenonT(30)
  <2>3. response.value.values = v
    BY <2>2 DEF Ok
  <2>4. Copied(op, buffer, response) = v \o SubSeq(buffer, Len(v) + 1, Len(buffer))
    BY <1>8, <2>3 DEF Copied
  <2>5. v \in Found(op, answers)
    BY <1>5, <1>8, <2>2, Zenon DEF Found
  <2>6. v \in Seq(Word) /\ Len(v) \in Nat
    BY <2>1, LenProperties DEF IsContent
  <2>7. v \in Seq(S)
    BY <2>6, ElementOfSeq, LenProperties
  <2> DEFINE rest == SubSeq(buffer, Len(v) + 1, Len(buffer))
  <2>8. rest \in Seq(S)
    <3>1. Len(v) + 1 \in Int /\ Len(buffer) \in Int /\ \A i \in Len(v) + 1 .. Len(buffer) : buffer[i] \in S
      BY <1>6, <2>6
    <3> QED
      BY <3>1, SubSeqProperties
  <2> HIDE DEF rest
  <2>9. v \o rest \in Seq(S)
    BY <2>7, <2>8, ConcatProperties
  <2> QED
    BY <1>5, <2>4, <2>5, <2>9 DEF rest
<1> QED
  BY <1>7, <1>8
=============================================================================
