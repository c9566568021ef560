--------------------------- MODULE ReadersProofs ---------------------------
(***************************************************************************)
(* Proofs about what readers make of buffers: of those nobody serialized   *)
(* (Datagrams), for every set of bytes and quantities, and of those that   *)
(* hold messages one behind the other (Codec), for every messages a Create *)
(* makes, any number of them and any loss.                                 *)
(***************************************************************************)
EXTENDS Datagrams, Codec, MessagesProofs, WellFoundedInduction

----------------------------------------------------------------------------
(***************************************************************************)
(* What each class makes of a buffer it accepts.                           *)
(***************************************************************************)

LEMMA RangeReading ==
  ASSUME NEW code, NEW b \in Seq(Byte), DeserializeRange(code, b).ok
  PROVE  /\ Len(b) >= 5 /\ b[1] = code
         /\ QuantityAllowed(code, FieldOf(b, 4))
         /\ ~ WouldAddressOverflow(FieldOf(b, 2), FieldOf(b, 4))
         /\ DeserializeRange(code, b) =
              Ok([address |-> FieldOf(b, 2), quantity |-> FieldOf(b, 4)], From(b, 5))
<1>1. Len(b) >= 5 /\ b[1] = code
  BY RangeTaken
<1>2. DeserializeRange(code, b) = CreateRange(code, FieldOf(b, 2), FieldOf(b, 4), From(b, 5))
  BY <1>1, RangeRead
<1> QED
  BY <1>1, <1>2, CreatedRange

\* The value of a WriteSingle message, from its bytes.
ValueOf(code, b) == SingleValue(code, FieldOf(b, 4), From(b, 5)).value

\* Only two raw values are a coil.
LEMMA RawCoil ==
  ASSUME NEW raw, NEW rest, CoilFromRaw(raw, rest).ok
  PROVE  LET v == CoilFromRaw(raw, rest)
         IN  v.value \in Coil /\ v.rest = rest /\ CoilToRaw(v.value) = raw
<1>1. CASE raw = kCoilOnRawValue
  <2>1. CoilFromRaw(raw, rest) = Ok(1, rest)
    BY <1>1 DEF CoilFromRaw, kCoilOnRawValue, kCoilOffRawValue
  <2>2. CoilFromRaw(raw, rest).value = 1 /\ CoilFromRaw(raw, rest).rest = rest
    BY <2>1, OkIsOk
  <2>3. 1 \in Coil /\ CoilToRaw(1) = raw
    BY <1>1 DEF Coil, CoilToRaw
  <2> QED
    BY <2>2, <2>3
<1>2. CASE raw # kCoilOnRawValue /\ raw = kCoilOffRawValue
  <2>1. CoilFromRaw(raw, rest) = Ok(0, rest)
    BY <1>2 DEF CoilFromRaw, kCoilOnRawValue, kCoilOffRawValue
  <2>2. CoilFromRaw(raw, rest).value = 0 /\ CoilFromRaw(raw, rest).rest = rest
    BY <2>1, OkIsOk
  <2>3. 0 \in Coil /\ CoilToRaw(0) = raw
    BY <1>2 DEF Coil, CoilToRaw
  <2> QED
    BY <2>2, <2>3
<1>3. CASE raw # kCoilOnRawValue /\ raw # kCoilOffRawValue
  <2>1. CoilFromRaw(raw, rest) = Err("kInvalidValue", rest)
    BY <1>3 DEF CoilFromRaw, kCoilOnRawValue, kCoilOffRawValue
  <2> QED
    BY <2>1, ErrIsNot
<1> QED
  BY <1>1, <1>2, <1>3

LEMMA SingleReading ==
  ASSUME NEW code, NEW b \in Seq(Byte), DeserializeSingle(code, b).ok
  PROVE  /\ Len(b) >= 5 /\ b[1] = code
         /\ SingleValue(code, FieldOf(b, 4), From(b, 5)).ok
         /\ IF code \in BitCodes
              THEN ValueOf(code, b) \in Coil /\ CoilToRaw(ValueOf(code, b)) = FieldOf(b, 4)
            ELSE ValueOf(code, b) = FieldOf(b, 4)
         /\ DeserializeSingle(code, b) =
              Ok([address |-> FieldOf(b, 2), value |-> ValueOf(code, b)], From(b, 5))
<1> DEFINE v == SingleValue(code, FieldOf(b, 4), From(b, 5))
<1>1. Len(b) >= 5 /\ b[1] = code /\ v.ok
  BY SingleTaken
<1>2. /\ v.rest = From(b, 5)
      /\ IF code \in BitCodes THEN v.value \in Coil /\ CoilToRaw(v.value) = FieldOf(b, 4)
         ELSE v.value = FieldOf(b, 4)
  <2>1. CASE code \in BitCodes
    BY <1>1, <2>1, RawCoil DEF SingleValue
  <2>2. CASE code \notin BitCodes
    BY <2>2, OkIsOk DEF SingleValue
  <2> QED
    BY <2>1, <2>2
<1> HIDE DEF v
<1>3. DeserializeSingle(code, b) = CreateSingle(code, FieldOf(b, 2), v.value, v.rest)
  BY <1>1, SingleRead DEF v
<1>4. CreateSingle(code, FieldOf(b, 2), v.value, v.rest) =
        Ok([address |-> FieldOf(b, 2), value |-> v.value], v.rest)
  BY <1>2, SingleMade
<1>5. v.value = ValueOf(code, b)
  BY DEF v, ValueOf
<1> QED
  BY <1>1, <1>2, <1>3, <1>4, <1>5 DEF v

\* The values of a write request of n values.
WriteReadingOf(code, b, n, size, v) ==
  /\ WriteBegin(code, b, n, size)
  /\ size = ContentBytes(code, n)
  /\ v = Unpack(code, From(b, 6), n) /\ v \in Seq(Word) /\ Len(v) = n
  /\ code \in BitCodes => \A i \in DOMAIN v : v[i] \in Coil
  /\ DeserializeWrite(code, b) = Ok([address |-> FieldOf(b, 2), values |-> v], From(b, 6 + size))

LEMMA WriteReading ==
  ASSUME NEW code \in WriteMultipleCodes, NEW b \in Seq(Byte),
         NEW n \in Nat, NEW size \in Nat, WriteBegin(code, b, n, size)
  PROVE  WriteReadingOf(code, b, n, size, Unpack(code, From(b, 6), n))
<1> DEFINE v == Unpack(code, From(b, 6), n)
<1>1. /\ Len(b) >= 6 + size /\ b[1] = code /\ QuantityAllowed(code, n)
      /\ ~ WouldAddressOverflow(FieldOf(b, 2), n) /\ size = ByteCount(code, n)
  BY DEF WriteBegin
<1>2. size = ContentBytes(code, n)
  BY <1>1, ContentSize DEF ContentBytes
<1>3. /\ Len(From(b, 6)) = Len(b) - 6
      /\ \A i \in 1 .. Len(b) - 6 : From(b, 6)[i] = b[6 + i]
  <2>1. 6 \in 0 .. Len(b)
    BY <1>1, LenProperties
  <2> QED
    BY <2>1, FromElements
<1>4. \A i \in 1 .. Len(b) : b[i] \in Byte
  BY BytesOf
<1>5. \A i \in 1 .. ContentBytes(code, n) : From(b, 6)[i] \in Byte
  <2> SUFFICES ASSUME NEW i \in 1 .. size
               PROVE  From(b, 6)[i] \in Byte
    BY <1>2
  <2>1. i \in 1 .. Len(b) - 6 /\ 6 + i \in 1 .. Len(b)
    BY <1>1, LenProperties
  <2>2. From(b, 6)[i] = b[6 + i]
    BY <1>3, <2>1
  <2> QED
    BY <1>4, <2>1, <2>2, Zenon
<1>6. /\ v \in Seq(Word) /\ Len(v) = n
      /\ code \in BitCodes => \A i \in DOMAIN v : v[i] \in Coil
  BY <1>5, UnpackType, Zenon
<1>7. DeserializeWrite(code, b) = CreateWrite(code, FieldOf(b, 2), v, From(b, 6 + size))
  BY WriteRead, Zenon
<1>8. v = Unpack(code, From(b, 6), n)
  OBVIOUS
<1> HIDE DEF v
<1>9. CreateWrite(code, FieldOf(b, 2), v, From(b, 6 + size)) =
        Ok([address |-> FieldOf(b, 2), values |-> v], From(b, 6 + size))
  <2>1. QuantityAllowed(code, Len(v)) /\ ~ WouldAddressOverflow(FieldOf(b, 2), Len(v))
    BY <1>1, <1>6, Zenon
  <2> QED
    BY <1>6, <2>1, WriteMade
<1>10. WriteReadingOf(code, b, n, size, v)
  BY <1>2, <1>6, <1>7, <1>8, <1>9, Zenon DEF WriteReadingOf
<1> QED
  BY <1>8, <1>10, Zenon

\* An exception, from its first two bytes.
LEMMA ErrorReading ==
  ASSUME NEW b \in Seq(Byte)
  PROVE  /\ DeserializeError(b).ok <=>
              Len(b) >= 2 /\ IsErrorFunctionCode(b[1]) /\ IsValidExceptionCode(b[2])
         /\ DeserializeError(b).ok =>
              DeserializeError(b) =
                Ok([code |-> ToNormalFunctionCode(b[1]), exception |-> b[2]], From(b, 2))
<1> DEFINE f == Require(IsErrorFunctionCode(b[1]), "kInvalidFunctionCode", b)
           e == Require(IsValidExceptionCode(b[2]), "kInvalidExceptionCode", b)
           steps == <<f, e>>
           final == Ok([code |-> ToNormalFunctionCode(b[1]), exception |-> b[2]], From(b, 2))
<1>1. Len(b) \in Nat
  BY LenProperties
<1>2. DeserializeError(b) = IF Len(b) < 2 THEN Err("kBufferTooShort", b) ELSE Decoded(steps, final)
  BY Zenon DEF DeserializeError
<1>3. f.ok <=> IsErrorFunctionCode(b[1])
  BY OkIsOk, ErrIsNot DEF Require
<1>4. e.ok <=> IsValidExceptionCode(b[2])
  BY OkIsOk, ErrIsNot DEF Require
<1>5. final.ok
  BY OkIsOk
<1> HIDE DEF f, e, final
<1>6. DOMAIN steps = 1 .. 2 /\ steps[1] = f /\ steps[2] = e
  OBVIOUS
<1> HIDE DEF steps
<1>7. Decoded(steps, final).ok => Decoded(steps, final) = final /\ f.ok /\ e.ok
  BY <1>6, DecodedOk
<1>8. f.ok /\ e.ok => Decoded(steps, final) = final
  BY <1>6, DecodedAll
<1>9. CASE Len(b) < 2
  BY <1>1, <1>2, <1>9, ErrIsNot
<1>10. CASE ~ Len(b) < 2
  <2>1. DeserializeError(b) = Decoded(steps, final) /\ Len(b) >= 2
    BY <1>1, <1>2, <1>10
  <2> QED
    BY <1>3, <1>4, <1>5, <1>7, <1>8, <2>1 DEF final
<1> QED
  BY <1>9, <1>10

\* The quantity a reader of values expects makes no difference for registers.
LEMMA RegistersExpected ==
  ASSUME NEW code, code \notin BitCodes, NEW b, NEW m, NEW n
  PROVE  DeserializeValues(code, b, m) = DeserializeValues(code, b, n)
BY Zenon DEF DeserializeValues, DeserializeRegisters

----------------------------------------------------------------------------
(***************************************************************************)
(* Nothing out of range is accepted.                                       *)
(***************************************************************************)

\* A reader of the classes the repository has.
LEMMA ReaderFields ==
  ASSUME NEW r \in Readers
  PROVE  /\ r.kind \in Kinds /\ r.code \in CodesOf(r.kind)
         /\ r.expected \in Nat
         /\ r.kind \in {"range", "single", "write", "values"} =>
              r.code \in ReadCodes \cup WriteSingleCodes \cup WriteMultipleCodes
<1>1. PICK kind \in Kinds :
        r \in [kind : {kind}, code : CodesOf(kind),
              expected : IF kind = "values" THEN Quantities ELSE {0}]
  BY DEF Readers
<1>2. r.kind = kind /\ r.code \in CodesOf(kind)
  BY <1>1
<1>3. r.expected \in IF kind = "values" THEN Quantities ELSE {0}
  BY <1>1
<1>4. r.expected \in Nat
  <2>1. Quantities \subseteq Nat
    BY AlphabetAssumption
  <2>2. \A q \in Quantities : q \in Nat
    BY <2>1
  <2>3. CASE kind = "values"
    BY <1>3, <2>2, <2>3, Zenon
  <2>4. CASE kind # "values"
    BY <1>3, <2>4
  <2> QED
    BY <2>3, <2>4
<1>5. kind \in {"range", "single", "write", "values"} =>
        CodesOf(kind) \subseteq ReadCodes \cup WriteSingleCodes \cup WriteMultipleCodes
  BY DEF CodesOf
<1> QED
  BY <1>1, <1>2, <1>4, <1>5

\* The kinds of readers, one by one.
LEMMA ReaderKinds ==
  ASSUME NEW r \in Readers, NEW b
  PROVE  \/ r.kind = "range" /\ Reading(r, b) = DeserializeRange(r.code, b)
         \/ r.kind = "single" /\ Reading(r, b) = DeserializeSingle(r.code, b)
         \/ /\ r.kind = "write" /\ r.code \in WriteMultipleCodes
            /\ Reading(r, b) = DeserializeWrite(r.code, b)
         \/ /\ r.kind = "values" /\ r.code \in ReadCodes
            /\ Reading(r, b) = DeserializeValues(r.code, b, r.expected)
         \/ r.kind = "error" /\ Reading(r, b) = DeserializeError(b)
<1>1. r.kind \in Kinds /\ r.code \in CodesOf(r.kind)
  BY ReaderFields
<1>2. CASE r.kind = "range"
  BY <1>2 DEF Reading, Deserialize
<1>3. CASE r.kind = "single"
  BY <1>3 DEF Reading, Deserialize
<1>4. CASE r.kind = "write"
  BY <1>1, <1>4 DEF Reading, Deserialize, CodesOf
<1>5. CASE r.kind = "values"
  BY <1>1, <1>5 DEF Reading, Deserialize, CodesOf
<1>6. CASE r.kind = "error"
  BY <1>6 DEF Reading, Deserialize
<1> QED
  BY <1>1, <1>2, <1>3, <1>4, <1>5, <1>6 DEF Kinds

\* An address and a quantity that do not overflow stay in the address space.
LEMMA StaysInSpace ==
  ASSUME NEW a \in Word, NEW n \in Nat, ~ WouldAddressOverflow(a, n)
  PROVE  a + n <= kMaxAddressSpace
<1>1. a \in Nat
  BY WordIsNat, Zenon
<1> QED
  BY <1>1 DEF WouldAddressOverflow, kMaxAddressSpace

LEMMA RangeInRange ==
  ASSUME NEW code, NEW b \in Seq(Byte), DeserializeRange(code, b).ok
  PROVE  LET m == DeserializeRange(code, b).value
         IN  QuantityAllowed(code, m.quantity) /\ m.address + m.quantity <= kMaxAddressSpace
<1> DEFINE m == [address |-> FieldOf(b, 2), quantity |-> FieldOf(b, 4)]
<1>1. /\ Len(b) >= 5 /\ QuantityAllowed(code, FieldOf(b, 4))
      /\ ~ WouldAddressOverflow(FieldOf(b, 2), FieldOf(b, 4))
      /\ DeserializeRange(code, b) = Ok(m, From(b, 5))
  BY RangeReading
<1>2. FieldOf(b, 2) \in Word /\ FieldOf(b, 4) \in Word
  BY <1>1, FieldIsWord
<1>3. FieldOf(b, 4) \in Nat
  BY <1>2, WordIsNat, Zenon
<1>4. FieldOf(b, 2) + FieldOf(b, 4) <= kMaxAddressSpace
  BY <1>1, <1>2, <1>3, StaysInSpace
<1>5. m.address = FieldOf(b, 2) /\ m.quantity = FieldOf(b, 4)
  OBVIOUS
<1> HIDE DEF m
<1>6. DeserializeRange(code, b).value = m
  BY <1>1, OkIsOk
<1> QED
  BY <1>1, <1>4, <1>5, <1>6

LEMMA WriteInRange ==
  ASSUME NEW code \in WriteMultipleCodes, NEW b \in Seq(Byte), DeserializeWrite(code, b).ok
  PROVE  LET m == DeserializeWrite(code, b).value
         IN  QuantityAllowed(code, Len(m.values)) /\ m.address + Len(m.values) <= kMaxAddressSpace
<1>1. PICK n \in Word, size \in Nat : WriteBegin(code, b, n, size)
  BY WriteTaken
<1>2. n \in Nat
  BY WordIsNat, Zenon
<1>3. PICK v : WriteReadingOf(code, b, n, size, v)
  BY <1>1, <1>2, WriteReading, Zenon
<1> DEFINE m == [address |-> FieldOf(b, 2), values |-> v]
<1>4. DeserializeWrite(code, b) = Ok(m, From(b, 6 + size)) /\ Len(v) = n
  BY <1>3 DEF WriteReadingOf
<1>5. /\ Len(b) >= 6 + size /\ QuantityAllowed(code, n)
      /\ ~ WouldAddressOverflow(FieldOf(b, 2), n)
  BY <1>1 DEF WriteBegin
<1>6. FieldOf(b, 2) \in Word
  BY <1>5, FieldIsWord, LenProperties
<1>7. FieldOf(b, 2) + n <= kMaxAddressSpace
  BY <1>2, <1>5, <1>6, StaysInSpace
<1>8. m.address = FieldOf(b, 2) /\ m.values = v
  OBVIOUS
<1> HIDE DEF m
<1>9. DeserializeWrite(code, b).value = m
  BY <1>4, OkIsOk
<1> QED
  BY <1>4, <1>5, <1>7, <1>8, <1>9

LEMMA ValuesInRange ==
  ASSUME NEW code, NEW b \in Seq(Byte), NEW expected \in Nat,
         DeserializeValues(code, b, expected).ok
  PROVE  QuantityAllowed(code, Len(DeserializeValues(code, b, expected).value.values))
<1>1. PICK n \in Nat, size \in Nat : ValuesBegin(code, b, expected, n, size)
  BY ValuesTaken
<1>2. PICK v : ValuesOut(code, b, expected, n, size, v)
  BY <1>1, ValuesAccepted, Zenon
<1>3. DeserializeValues(code, b, expected).value.values = v /\ Len(v) = n
  BY <1>2 DEF ValuesOut, Ok
<1>4. QuantityAllowed(code, n)
  BY <1>1 DEF ValuesBegin
<1> QED
  BY <1>3, <1>4, Zenon

\* Whatever was received, it is a byte string.
Bytes == buf \in Seq(Byte) /\ Len(buf) >= 1

LEMMA BytesInvariant == Spec => []Bytes
<1>1. Init => Bytes
  <2> SUFFICES ASSUME Init
               PROVE  Bytes
    OBVIOUS
  <2>1. PICK first \in FirstBytes : buf = <<first>>
    BY DEF Init
  <2>2. first \in Byte
    <3>1. \A kind \in Kinds : CodesOf(kind) \subseteq Byte
      BY CodeIsByte DEF CodesOf, Kinds, Byte
    <3>2. kErrorFlag + kReadCoils \in Byte
      BY DEF kErrorFlag, kReadCoils, Byte
    <3> QED
      BY <3>1, <3>2 DEF FirstBytes
  <2> QED
    BY <2>1, <2>2 DEF Bytes
<1>2. Bytes /\ [Next]_buf => Bytes'
  <2> SUFFICES ASSUME Bytes, [Next]_buf
               PROVE  Bytes'
    OBVIOUS
  <2>1. CASE \E x \in Alphabet : buf' = Append(buf, x)
    <3>1. PICK x \in Alphabet : buf' = Append(buf, x)
      BY <2>1
    <3>2. x \in Byte
      BY AlphabetAssumption
    <3> QED
      BY <3>1, <3>2, AppendProperties, LenProperties DEF Bytes
  <2>2. CASE buf' = buf
    BY <2>2 DEF Bytes
  <2> QED
    BY <2>1, <2>2 DEF Next, AddByte
<1> QED
  BY <1>1, <1>2, PTL DEF Spec

(***************************************************************************)
(* Whatever bytes arrive, however many, nothing a class accepts addresses  *)
(* beyond the address space or carries a quantity outside its limits.      *)
(***************************************************************************)
THEOREM NothingOutOfRange == Spec => []AcceptedIsInRange
<1>1. Bytes => AcceptedIsInRange
  <2> SUFFICES ASSUME Bytes, NEW r \in Accepting(buf)
               PROVE  LET m == Reading(r, buf).value
                          n == IF r.kind = "range" THEN m.quantity ELSE Len(m.values)
                      IN  /\ r.kind \in {"range", "write", "values"} => QuantityAllowed(r.code, n)
                          /\ r.kind \in {"range", "write"} => m.address + n <= kMaxAddressSpace
    BY DEF AcceptedIsInRange
  <2>1. r \in Readers /\ Reading(r, buf).ok /\ buf \in Seq(Byte) /\ r.expected \in Nat
    BY ReaderFields DEF Accepting, Bytes
  <2>2. CASE r.kind = "range"
    <3>1. Reading(r, buf) = DeserializeRange(r.code, buf)
      BY <2>1, <2>2, ReaderKinds
    <3> QED
      BY <2>1, <2>2, <3>1, RangeInRange
  <2>3. CASE r.kind = "write"
    <3>1. Reading(r, buf) = DeserializeWrite(r.code, buf) /\ r.code \in WriteMultipleCodes
      BY <2>1, <2>3, ReaderKinds
    <3> QED
      BY <2>1, <2>3, <3>1, WriteInRange
  <2>4. CASE r.kind = "values"
    <3>1. Reading(r, buf) = DeserializeValues(r.code, buf, r.expected)
      BY <2>1, <2>4, ReaderKinds
    <3> QED
      BY <2>1, <2>4, <3>1, ValuesInRange
  <2> QED
    BY <2>2, <2>3, <2>4
<1> QED
  BY <1>1, BytesInvariant, PTL

----------------------------------------------------------------------------
(***************************************************************************)
(* What follows a message makes no difference to it.                       *)
(***************************************************************************)

\* A buffer with one byte more.
Longer(b, x, d) ==
  /\ d \in Seq(Byte) /\ Len(d) = Len(b) + 1
  /\ \A i \in 1 .. Len(b) : d[i] = b[i]
  /\ \A k \in 0 .. Len(b) : From(d, k) = Append(From(b, k), x)

LEMMA AppendedIsLonger ==
  ASSUME NEW b \in Seq(Byte), NEW x \in Byte
  PROVE  Longer(b, x, Append(b, x)) /\ Append(b, x)[Len(Append(b, x))] = x
<1> DEFINE d == Append(b, x)
<1>1. /\ Len(b) \in Nat /\ d \in Seq(Byte) /\ Len(d) = Len(b) + 1
      /\ \A i \in 1 .. Len(b) : d[i] = b[i]
      /\ d[Len(b) + 1] = x
  BY AppendProperties, LenProperties
<1> HIDE DEF d
<1>2. ASSUME NEW k \in 0 .. Len(b)
      PROVE  From(d, k) = Append(From(b, k), x)
  <2> DEFINE s == From(d, k)
             u == From(b, k)
             t == Append(u, x)
  <2>1. k \in 0 .. Len(d) /\ k \in Nat
    BY <1>1
  <2>2. /\ s \in Seq(Byte) /\ Len(s) = Len(b) + 1 - k
        /\ \A i \in 1 .. Len(b) + 1 - k : s[i] = d[k + i]
    <3>1. d \in Seq(Byte) /\ Len(d) = Len(b) + 1
      BY <1>1
    <3>2. /\ s \in Seq(Byte) /\ Len(s) = Len(d) - k
          /\ \A i \in 1 .. Len(d) - k : s[i] = d[k + i]
      BY <2>1, <3>1, FromElements, Zenon
    <3> QED
      BY <3>1, <3>2
  <2>3. /\ u \in Seq(Byte) /\ Len(u) = Len(b) - k
        /\ \A i \in 1 .. Len(b) - k : u[i] = b[k + i]
    BY <1>1, FromElements
  <2> HIDE DEF s, u
  <2>4. /\ t \in Seq(Byte) /\ Len(t) = Len(b) - k + 1
        /\ \A i \in 1 .. Len(b) - k : t[i] = u[i]
        /\ t[Len(b) - k + 1] = x
    BY <2>3, AppendProperties
  <2> HIDE DEF t
  <2>5. ASSUME NEW i \in 1 .. Len(b) + 1 - k
        PROVE  s[i] = t[i]
    <3>1. CASE i \in 1 .. Len(b) - k
      <4>1. k + i \in 1 .. Len(b)
        BY <1>1, <2>1, <3>1
      <4> QED
        BY <1>1, <2>2, <2>3, <2>4, <3>1, <4>1
    <3>2. CASE i = Len(b) + 1 - k
      <4>1. k + i = Len(b) + 1 /\ i = Len(b) - k + 1
        BY <1>1, <2>1, <3>2
      <4> QED
        BY <1>1, <2>2, <2>4, <4>1
    <3>3. i \in 1 .. Len(b) - k \/ i = Len(b) + 1 - k
      BY <1>1, <2>1
    <3> QED
      BY <3>1, <3>2, <3>3
  <2>6. Len(s) = Len(t)
    BY <1>1, <2>1, <2>2, <2>4
  <2>7. s = t
    BY <2>2, <2>4, <2>5, <2>6, SameElements
  <2> QED
    BY <2>7 DEF s, t, u
<1>3. Longer(b, x, d)
  BY <1>1, <1>2 DEF Longer
<1> QED
  BY <1>1, <1>3 DEF d

\* The same message, and one byte more behind it.
SameRead(read, later, x) ==
  later.ok /\ later.value = read.value /\ later.rest = Append(read.rest, x)

LEMMA SameContent ==
  ASSUME NEW m, NEW rest, NEW x, NEW read, read = Ok(m, rest),
         NEW later, later = Ok(m, Append(rest, x))
  PROVE  SameRead(read, later, x)
<1>1. read.value = m /\ read.rest = rest
  BY OkIsOk
<1>2. PICK more : more = Append(rest, x)
  OBVIOUS
<1>3. later = Ok(m, more)
  BY <1>2
<1>4. later.ok /\ later.value = m /\ later.rest = more
  BY <1>3, OkIsOk
<1>5. later.rest = Append(read.rest, x)
  BY <1>1, <1>2, <1>4
<1> QED
  BY <1>1, <1>4, <1>5, Zenon DEF SameRead

LEMMA FieldsKept ==
  ASSUME NEW b \in Seq(Byte), NEW x, NEW d, Longer(b, x, d), Len(b) >= 5
  PROVE  /\ d \in Seq(Byte) /\ Len(d) >= 5 /\ d[1] = b[1]
         /\ FieldOf(d, 2) = FieldOf(b, 2) /\ FieldOf(d, 4) = FieldOf(b, 4)
         /\ From(d, 5) = Append(From(b, 5), x)
<1>1. Len(b) \in Nat
  BY LenProperties
<1>2. \A i \in 1 .. 5 : d[i] = b[i]
  <2>1. \A i \in 1 .. 5 : i \in 1 .. Len(b)
    BY <1>1
  <2> QED
    BY <2>1, Zenon DEF Longer
<1>3. d[1] = b[1] /\ d[2] = b[2] /\ d[3] = b[3] /\ d[4] = b[4] /\ d[5] = b[5]
  BY <1>2
<1>4. d \in Seq(Byte) /\ Len(d) >= 5 /\ From(d, 5) = Append(From(b, 5), x)
  BY <1>1 DEF Longer
<1> QED
  BY <1>3, <1>4 DEF FieldOf

LEMMA RangeKept ==
  ASSUME NEW code, NEW b \in Seq(Byte), DeserializeRange(code, b).ok,
         NEW x, NEW d, Longer(b, x, d)
  PROVE  SameRead(DeserializeRange(code, b), DeserializeRange(code, d), x)
<1> DEFINE m == [address |-> FieldOf(b, 2), quantity |-> FieldOf(b, 4)]
<1>1. /\ Len(b) >= 5 /\ b[1] = code
      /\ QuantityAllowed(code, FieldOf(b, 4))
      /\ ~ WouldAddressOverflow(FieldOf(b, 2), FieldOf(b, 4))
      /\ DeserializeRange(code, b) = Ok(m, From(b, 5))
  BY RangeReading
<1>2. /\ d \in Seq(Byte) /\ Len(d) >= 5 /\ d[1] = code
      /\ FieldOf(d, 2) = FieldOf(b, 2) /\ FieldOf(d, 4) = FieldOf(b, 4)
      /\ From(d, 5) = Append(From(b, 5), x)
  BY <1>1, FieldsKept
<1>3. DeserializeRange(code, d) = CreateRange(code, FieldOf(d, 2), FieldOf(d, 4), From(d, 5))
  BY <1>2, RangeRead
<1>4. CreateRange(code, FieldOf(b, 2), FieldOf(b, 4), From(d, 5)) = Ok(m, From(d, 5))
  BY <1>1, RangeMade
<1>5. DeserializeRange(code, d) = Ok(m, Append(From(b, 5), x))
  BY <1>2, <1>3, <1>4
<1> QED
  BY <1>1, <1>5, SameContent, Zenon

\* Whether a raw value is a coil, and which, does not depend on what follows.
LEMMA RawValueKept ==
  ASSUME NEW code, NEW raw, NEW rest, NEW other, SingleValue(code, raw, rest).ok
  PROVE  LET v == SingleValue(code, raw, other)
         IN  v.ok /\ v.value = SingleValue(code, raw, rest).value /\ v.rest = other
<1>1. CASE code \in BitCodes
  <2>1. SingleValue(code, raw, rest) = CoilFromRaw(raw, rest)
        /\ SingleValue(code, raw, other) = CoilFromRaw(raw, other)
    BY <1>1 DEF SingleValue
  <2>2. CoilFromRaw(raw, rest).ok
    BY <2>1
  <2>3. CASE raw = kCoilOnRawValue
    <3>1. CoilFromRaw(raw, rest) = Ok(1, rest) /\ CoilFromRaw(raw, other) = Ok(1, other)
      BY <2>3 DEF CoilFromRaw, kCoilOnRawValue, kCoilOffRawValue
    <3> QED
      BY <2>1, <3>1, OkIsOk
  <2>4. CASE raw # kCoilOnRawValue /\ raw = kCoilOffRawValue
    <3>1. CoilFromRaw(raw, rest) = Ok(0, rest) /\ CoilFromRaw(raw, other) = Ok(0, other)
      BY <2>4 DEF CoilFromRaw, kCoilOnRawValue, kCoilOffRawValue
    <3> QED
      BY <2>1, <3>1, OkIsOk
  <2>5. CASE raw # kCoilOnRawValue /\ raw # kCoilOffRawValue
    <3>1. CoilFromRaw(raw, rest) = Err("kInvalidValue", rest)
      BY <2>5 DEF CoilFromRaw, kCoilOnRawValue, kCoilOffRawValue
    <3> QED
      BY <2>2, <3>1, ErrIsNot
  <2> QED
    BY <2>3, <2>4, <2>5
<1>2. CASE code \notin BitCodes
  BY <1>2, OkIsOk DEF SingleValue
<1> QED
  BY <1>1, <1>2

LEMMA SingleKept ==
  ASSUME NEW code, NEW b \in Seq(Byte), DeserializeSingle(code, b).ok,
         NEW x, NEW d, Longer(b, x, d)
  PROVE  SameRead(DeserializeSingle(code, b), DeserializeSingle(code, d), x)
<1> DEFINE m == [address |-> FieldOf(b, 2), value |-> ValueOf(code, b)]
           v == SingleValue(code, FieldOf(b, 4), From(b, 5))
           w == SingleValue(code, FieldOf(d, 4), From(d, 5))
<1>1. /\ Len(b) >= 5 /\ b[1] = code /\ v.ok
      /\ code \in BitCodes => v.value \in Coil
      /\ v.value = ValueOf(code, b)
      /\ DeserializeSingle(code, b) = Ok(m, From(b, 5))
  BY SingleReading DEF ValueOf
<1>2. /\ d \in Seq(Byte) /\ Len(d) >= 5 /\ d[1] = code
      /\ FieldOf(d, 2) = FieldOf(b, 2) /\ FieldOf(d, 4) = FieldOf(b, 4)
      /\ From(d, 5) = Append(From(b, 5), x)
  BY <1>1, FieldsKept
<1>3. w.ok /\ w.value = v.value /\ w.rest = From(d, 5)
  BY <1>1, <1>2, RawValueKept
<1> HIDE DEF v, w
<1>4. DeserializeSingle(code, d) = CreateSingle(code, FieldOf(d, 2), w.value, w.rest)
  BY <1>2, <1>3, SingleRead DEF w
<1>5. CreateSingle(code, FieldOf(b, 2), v.value, From(d, 5)) =
        Ok([address |-> FieldOf(b, 2), value |-> v.value], From(d, 5))
  BY <1>1, SingleMade
<1>6. DeserializeSingle(code, d) = Ok(m, Append(From(b, 5), x))
  BY <1>1, <1>2, <1>3, <1>4, <1>5
<1> QED
  BY <1>1, <1>6, SameContent, Zenon

\* The bytes of n values are in the buffer, behind the first k.
ContentWithin(code, n, b, k, size) ==
  /\ n \in Nat /\ k \in Nat /\ size \in Nat
  /\ size = ContentBytes(code, n) /\ k + size <= Len(b)

\* They are the same values in a longer buffer, and all else is left.
ContentStays(code, n, b, k, size, x, d) ==
  /\ Unpack(code, From(d, k), n) = Unpack(code, From(b, k), n)
  /\ From(d, k + size) = Append(From(b, k + size), x)

\* The values come from the same bytes.
LEMMA ContentKept ==
  ASSUME NEW code, NEW n, NEW b \in Seq(Byte), NEW k, NEW size,
         ContentWithin(code, n, b, k, size), NEW x, NEW d, Longer(b, x, d)
  PROVE  ContentStays(code, n, b, k, size, x, d)
<1> n \in Nat /\ k \in Nat /\ size \in Nat /\ size = ContentBytes(code, n) /\ k + size <= Len(b)
  BY DEF ContentWithin
<1>1. /\ Len(b) \in Nat /\ d \in Seq(Byte) /\ Len(d) = Len(b) + 1
      /\ \A i \in 1 .. Len(b) : d[i] = b[i]
  BY LenProperties DEF Longer
<1>2. k \in 0 .. Len(b) /\ k \in 0 .. Len(d) /\ k + size \in 0 .. Len(b)
  BY <1>1
<1>3. \A i \in 1 .. Len(b) - k : From(b, k)[i] = b[k + i]
  BY <1>2, FromElements
<1>4. \A i \in 1 .. Len(d) - k : From(d, k)[i] = d[k + i]
  <2>1. d \in Seq(Byte)
    BY <1>1
  <2> QED
    BY <1>2, <2>1, FromElements, Zenon
<1>5. ASSUME NEW i \in 1 .. size
      PROVE  From(b, k)[i] = From(d, k)[i]
  <2>1. i \in 1 .. Len(b) - k /\ i \in 1 .. Len(d) - k /\ k + i \in 1 .. Len(b)
    <3>1. Len(b) \in Nat /\ Len(d) = Len(b) + 1
      BY <1>1
    <3> QED
      BY <3>1
  <2>2. From(b, k)[i] = b[k + i] /\ From(d, k)[i] = d[k + i]
    BY <1>3, <1>4, <2>1, Zenon
  <2> QED
    BY <1>1, <2>1, <2>2, Zenon
<1>6. Unpack(code, From(b, k), n) = Unpack(code, From(d, k), n)
  <2>1. \A i \in 1 .. ContentBytes(code, n) : From(b, k)[i] = From(d, k)[i]
    BY <1>5
  <2> QED
    BY <2>1, UnpackSame, Zenon
<1>7. From(d, k + size) = Append(From(b, k + size), x)
  BY <1>2, Zenon DEF Longer
<1> QED
  BY <1>6, <1>7, Zenon DEF ContentStays

LEMMA WriteKept ==
  ASSUME NEW code \in WriteMultipleCodes, NEW b \in Seq(Byte), DeserializeWrite(code, b).ok,
         NEW x, NEW d, Longer(b, x, d)
  PROVE  SameRead(DeserializeWrite(code, b), DeserializeWrite(code, d), x)
<1>1. PICK n \in Word, size \in Nat : WriteBegin(code, b, n, size)
  BY WriteTaken
<1>2. n \in Nat
  BY WordIsNat, Zenon
<1>3. PICK v : WriteReadingOf(code, b, n, size, v)
  BY <1>1, <1>2, WriteReading, Zenon
<1>4. /\ size = ContentBytes(code, n) /\ v = Unpack(code, From(b, 6), n)
      /\ DeserializeWrite(code, b) = Ok([address |-> FieldOf(b, 2), values |-> v], From(b, 6 + size))
  BY <1>3, Zenon DEF WriteReadingOf
<1>5. /\ Len(b) \in Nat /\ Len(b) >= 6 + size /\ b[1] = code
      /\ n = FieldOf(b, 4) /\ size = ByteCount(code, n) /\ b[6] = size
      /\ QuantityAllowed(code, n) /\ ~ WouldAddressOverflow(FieldOf(b, 2), n)
  BY <1>1, LenProperties DEF WriteBegin
<1>6. /\ d \in Seq(Byte) /\ Len(d) >= 6 + size /\ d[6] = b[6]
  <2>1. 6 \in 1 .. Len(b)
    BY <1>5
  <2>2. d \in Seq(Byte) /\ Len(d) = Len(b) + 1 /\ \A i \in 1 .. Len(b) : d[i] = b[i]
    BY DEF Longer
  <2>3. Len(d) >= 6 + size
    BY <1>5, <2>2
  <2> QED
    BY <2>1, <2>2, <2>3, Zenon
<1>7. d[1] = b[1] /\ FieldOf(d, 2) = FieldOf(b, 2) /\ FieldOf(d, 4) = FieldOf(b, 4)
  <2>1. Len(b) >= 5
    BY <1>5
  <2> QED
    BY <2>1, FieldsKept
<1>8. WriteBegin(code, d, n, size)
  BY <1>5, <1>6, <1>7, Zenon DEF WriteBegin
<1>9. PICK w : WriteReadingOf(code, d, n, size, w)
  BY <1>2, <1>6, <1>8, WriteReading, Zenon
<1>10. /\ w = Unpack(code, From(d, 6), n)
       /\ DeserializeWrite(code, d) = Ok([address |-> FieldOf(d, 2), values |-> w], From(d, 6 + size))
  BY <1>9, Zenon DEF WriteReadingOf
<1>11. w = v /\ From(d, 6 + size) = Append(From(b, 6 + size), x)
  <2>1. PICK k \in Nat : k = 6
    OBVIOUS
  <2>2. ContentWithin(code, n, b, k, size)
    BY <1>2, <1>4, <1>5, <2>1 DEF ContentWithin
  <2>3. ContentStays(code, n, b, k, size, x, d)
    BY <2>2, ContentKept, Zenon
  <2> QED
    BY <1>4, <1>10, <2>1, <2>3 DEF ContentStays
<1>12. DeserializeWrite(code, d) =
         Ok([address |-> FieldOf(b, 2), values |-> v], Append(From(b, 6 + size), x))
  BY <1>7, <1>10, <1>11, Zenon
<1> QED
  BY <1>4, <1>12, SameContent, Zenon

LEMMA ValuesKept ==
  ASSUME NEW code, NEW b \in Seq(Byte), NEW expected \in Nat,
         DeserializeValues(code, b, expected).ok, NEW x, NEW d, Longer(b, x, d)
  PROVE  SameRead(DeserializeValues(code, b, expected), DeserializeValues(code, d, expected), x)
<1>1. PICK n \in Nat, size \in Nat : ValuesBegin(code, b, expected, n, size)
  BY ValuesTaken
<1> DEFINE v == Unpack(code, From(b, 2), n)
           w == Unpack(code, From(d, 2), n)
<1>2. ValuesOut(code, b, expected, n, size, v)
  BY <1>1, ValuesAccepted, Zenon
<1>3. /\ Len(b) \in Nat /\ Len(b) >= 2 + size /\ b[1] = code
      /\ size = ContentBytes(code, n) /\ b[2] = size
      /\ QuantityAllowed(code, n) /\ (code \in BitCodes => expected = n)
  BY <1>1, LenProperties DEF ValuesBegin
<1>4. d \in Seq(Byte) /\ Len(d) = Len(b) + 1 /\ \A i \in 1 .. Len(b) : d[i] = b[i]
  BY DEF Longer
<1>5. Len(d) >= 2 + size /\ d[1] = b[1] /\ d[2] = b[2]
  <2>1. 1 \in 1 .. Len(b) /\ 2 \in 1 .. Len(b)
    BY <1>3
  <2>2. Len(d) >= 2 + size
    BY <1>3, <1>4
  <2> QED
    BY <1>4, <2>1, <2>2, Zenon
<1>6. ValuesBegin(code, d, expected, n, size)
  BY <1>3, <1>5, Zenon DEF ValuesBegin
<1>7. ValuesOut(code, d, expected, n, size, w)
  BY <1>4, <1>6, ValuesAccepted, Zenon
<1>8. w = v /\ From(d, 2 + size) = Append(From(b, 2 + size), x)
  <2>1. PICK k \in Nat : k = 2
    OBVIOUS
  <2>2. ContentWithin(code, n, b, k, size)
    BY <1>3, <2>1 DEF ContentWithin
  <2>3. ContentStays(code, n, b, k, size, x, d)
    BY <2>2, ContentKept, Zenon
  <2> QED
    BY <2>1, <2>3 DEF ContentStays
<1> HIDE DEF v, w
<1>9. DeserializeValues(code, b, expected) = Ok([values |-> v], From(b, 2 + size))
  BY <1>2, Zenon DEF ValuesOut
<1>10. DeserializeValues(code, d, expected) = Ok([values |-> w], From(d, 2 + size))
  BY <1>7, Zenon DEF ValuesOut
<1>11. DeserializeValues(code, d, expected) = Ok([values |-> v], Append(From(b, 2 + size), x))
  BY <1>8, <1>10, Zenon
<1> QED
  BY <1>9, <1>11, SameContent, Zenon

LEMMA ErrorKept ==
  ASSUME NEW b \in Seq(Byte), DeserializeError(b).ok, NEW x, NEW d, Longer(b, x, d)
  PROVE  SameRead(DeserializeError(b), DeserializeError(d), x)
<1> DEFINE m == [code |-> ToNormalFunctionCode(b[1]), exception |-> b[2]]
<1>1. /\ Len(b) >= 2 /\ IsErrorFunctionCode(b[1]) /\ IsValidExceptionCode(b[2])
      /\ DeserializeError(b) = Ok(m, From(b, 2))
  BY ErrorReading
<1>2. Len(b) \in Nat
  BY LenProperties
<1>3. d \in Seq(Byte) /\ Len(d) = Len(b) + 1 /\ \A i \in 1 .. Len(b) : d[i] = b[i]
  BY DEF Longer
<1>4. d[1] = b[1] /\ d[2] = b[2] /\ Len(d) >= 2 /\ 2 \in 0 .. Len(b)
  BY <1>1, <1>2, <1>3
<1>5. From(d, 2) = Append(From(b, 2), x)
  BY <1>4, Zenon DEF Longer
<1>6. DeserializeError(d) =
        Ok([code |-> ToNormalFunctionCode(d[1]), exception |-> d[2]], From(d, 2))
  <2>1. IsErrorFunctionCode(d[1]) /\ IsValidExceptionCode(d[2])
    BY <1>1, <1>4, Zenon
  <2> QED
    BY <1>3, <1>4, <2>1, ErrorReading, Zenon
<1>7. DeserializeError(d) = Ok(m, Append(From(b, 2), x))
  BY <1>4, <1>5, <1>6, Zenon
<1> QED
  BY <1>1, <1>7, SameContent, Zenon

LEMMA ReadingKept ==
  ASSUME NEW b \in Seq(Byte), NEW r \in Accepting(b), NEW x, NEW d, Longer(b, x, d)
  PROVE  SameRead(Reading(r, b), Reading(r, d), x)
<1>1. r \in Readers /\ Reading(r, b).ok /\ r.expected \in Nat
  BY ReaderFields DEF Accepting
<1>2. CASE r.kind = "range"
  <2>1. Reading(r, b) = DeserializeRange(r.code, b) /\ Reading(r, d) = DeserializeRange(r.code, d)
    BY <1>1, <1>2, ReaderKinds
  <2> QED
    BY <1>1, <2>1, RangeKept
<1>3. CASE r.kind = "single"
  <2>1. Reading(r, b) = DeserializeSingle(r.code, b) /\ Reading(r, d) = DeserializeSingle(r.code, d)
    BY <1>1, <1>3, ReaderKinds
  <2> QED
    BY <1>1, <2>1, SingleKept
<1>4. CASE r.kind = "write"
  <2>1. /\ Reading(r, b) = DeserializeWrite(r.code, b) /\ r.code \in WriteMultipleCodes
        /\ Reading(r, d) = DeserializeWrite(r.code, d)
    BY <1>1, <1>4, ReaderKinds
  <2> QED
    BY <1>1, <2>1, WriteKept
<1>5. CASE r.kind = "values"
  <2>1. /\ Reading(r, b) = DeserializeValues(r.code, b, r.expected)
        /\ Reading(r, d) = DeserializeValues(r.code, d, r.expected)
    BY <1>1, <1>5, ReaderKinds
  <2> QED
    BY <1>1, <2>1, ValuesKept
<1>6. CASE r.kind = "error"
  <2>1. Reading(r, b) = DeserializeError(b) /\ Reading(r, d) = DeserializeError(d)
    BY <1>1, <1>6, ReaderKinds
  <2> QED
    BY <1>1, <2>1, ErrorKept
<1> QED
  BY <1>1, <1>2, <1>3, <1>4, <1>5, <1>6, ReaderFields DEF Kinds

(***************************************************************************)
(* Whatever is behind a message that was accepted, the message is the same *)
(* and all of it is left.                                                  *)
(***************************************************************************)
THEOREM LaterBytesChangeNothing == Spec => LaterBytesIgnored
<1> DEFINE Ignored == \A r \in Accepting(buf) :
             LET read == Reading(r, buf)
                 later == Reading(r, buf')
             IN  later.ok /\ later.value = read.value
                   /\ later.rest = Append(read.rest, buf'[Len(buf')])
<1>1. Bytes /\ Next => Ignored
  <2> SUFFICES ASSUME Bytes, Next, NEW r \in Accepting(buf)
               PROVE  SameRead(Reading(r, buf), Reading(r, buf'), buf'[Len(buf')])
    BY DEF SameRead
  <2>1. PICK x \in Alphabet : buf' = Append(buf, x)
    BY DEF Next, AddByte
  <2>2. x \in Byte /\ buf \in Seq(Byte)
    BY AlphabetAssumption DEF Bytes
  <2>3. Longer(buf, x, buf') /\ buf'[Len(buf')] = x
    BY <2>1, <2>2, AppendedIsLonger
  <2> QED
    BY <2>2, <2>3, ReadingKept
<1>2. Bytes /\ [Next]_buf => [Ignored]_buf
  BY <1>1
<1> QED
  BY <1>2, BytesInvariant, PTL DEF Spec, LaterBytesIgnored

----------------------------------------------------------------------------
(***************************************************************************)
(* What was accepted can be said again.                                    *)
(***************************************************************************)

\* Two bytes and their word.
LEMMA SameWord ==
  ASSUME NEW h \in Byte, NEW l \in Byte
  PROVE  (256 * h + l) \div 256 = h /\ (256 * h + l) % 256 = l
<1>1. h \in Nat /\ l \in Nat /\ l < 256
  BY DEF Byte
<1> QED
  BY <1>1

LEMMA SameBytes ==
  ASSUME NEW h \in Byte, NEW l \in Byte, NEW u \in Byte, NEW v \in Byte,
         256 * h + l = 256 * u + v
  PROVE  h = u /\ l = v
<1>1. (256 * h + l) \div 256 = h /\ (256 * h + l) % 256 = l
  BY SameWord
<1>2. (256 * u + v) \div 256 = u /\ (256 * u + v) % 256 = v
  BY SameWord
<1> QED
  BY <1>1, <1>2

\* A byte is the sum of its bits.
LEMMA SumOfBits ==
  ASSUME NEW b \in Byte
  PROVE  b = (b % 2) + 2 * ((b \div 2) % 2) + 4 * ((b \div 4) % 2) + 8 * ((b \div 8) % 2)
               + 16 * ((b \div 16) % 2) + 32 * ((b \div 32) % 2)
               + 64 * ((b \div 64) % 2) + 128 * ((b \div 128) % 2)
<1>1. b \in Nat /\ b < 256
  BY DEF Byte
<1>2. b = (b % 2) + 2 * (b \div 2)
  BY <1>1
<1>3. b \div 2 = ((b \div 2) % 2) + 2 * (b \div 4)
  BY <1>1
<1>4. b \div 4 = ((b \div 4) % 2) + 2 * (b \div 8)
  BY <1>1
<1>5. b \div 8 = ((b \div 8) % 2) + 2 * (b \div 16)
  BY <1>1
<1>6. b \div 16 = ((b \div 16) % 2) + 2 * (b \div 32)
  BY <1>1
<1>7. b \div 32 = ((b \div 32) % 2) + 2 * (b \div 64)
  BY <1>1
<1>8. b \div 64 = ((b \div 64) % 2) + 2 * (b \div 128)
  BY <1>1
<1>9. b \div 128 = ((b \div 128) % 2)
  BY <1>1
<1> QED
  BY <1>1, <1>2, <1>3, <1>4, <1>5, <1>6, <1>7, <1>8, <1>9

\* Registers go back into the bytes they came from.
LEMMA WordsPutBack ==
  ASSUME NEW n \in Nat, NEW c, \A i \in 1 .. 2 * n : c[i] \in Byte
  PROVE  LET p == PackWords(WordsOf(c, n))
         IN  p \in Seq(Byte) /\ Len(p) = 2 * n /\ \A i \in 1 .. 2 * n : p[i] = c[i]
<1> DEFINE w == WordsOf(c, n)
           p == PackWords(w)
<1>1. w = [i \in 1 .. n |-> 256 * c[2 * i - 1] + c[2 * i]]
  BY Zenon DEF WordsOf
<1>2. ASSUME NEW i \in 1 .. n
      PROVE  /\ w[i] = 256 * c[2 * i - 1] + c[2 * i] /\ w[i] \in Word
             /\ w[i] \div 256 = c[2 * i - 1] /\ w[i] % 256 = c[2 * i]
  <2>1. 2 * i - 1 \in 1 .. 2 * n /\ 2 * i \in 1 .. 2 * n
    OBVIOUS
  <2>2. c[2 * i - 1] \in Byte /\ c[2 * i] \in Byte
    BY <2>1
  <2>3. w[i] = 256 * c[2 * i - 1] + c[2 * i]
    BY <1>1
  <2>4. w[i] \div 256 = c[2 * i - 1] /\ w[i] % 256 = c[2 * i]
    BY <2>2, <2>3, SameWord
  <2>5. w[i] \in Word
    BY <2>2, <2>3, WordOfBytes
  <2> QED
    BY <2>3, <2>4, <2>5
<1> HIDE DEF w
<1>3. w \in [1 .. n -> Word]
  BY <1>1, <1>2
<1>4. w \in Seq(Word) /\ Len(w) = n
  BY <1>3, ListIsSequence
<1>5. p \in Seq(Byte) /\ Len(p) = 2 * n
  BY <1>4, WordsReadBack
<1>6. p = [k \in 1 .. 2 * n |->
             IF k % 2 = 1 THEN w[(k + 1) \div 2] \div 256 ELSE w[k \div 2] % 256]
  BY <1>4, Zenon DEF PackWords
<1> HIDE DEF p
<1>7. ASSUME NEW k \in 1 .. 2 * n
      PROVE  p[k] = c[k]
  <2>1. CASE k % 2 = 1
    <3>1. PICK i \in 1 .. n : i = (k + 1) \div 2 /\ 2 * i - 1 = k
      <4>1. (k + 1) \div 2 \in 1 .. n /\ 2 * ((k + 1) \div 2) - 1 = k
        BY <2>1
      <4> QED
        BY <4>1
    <3>2. p[k] = w[i] \div 256
      BY <1>6, <2>1, <3>1
    <3>3. w[i] \div 256 = c[2 * i - 1]
      BY <1>2
    <3> QED
      BY <3>1, <3>2, <3>3
  <2>2. CASE k % 2 # 1
    <3>1. PICK i \in 1 .. n : i = k \div 2 /\ 2 * i = k
      <4>1. k \div 2 \in 1 .. n /\ 2 * (k \div 2) = k
        BY <2>2
      <4> QED
        BY <4>1
    <3>2. p[k] = w[i] % 256
      BY <1>6, <2>2, <3>1
    <3>3. w[i] % 256 = c[2 * i]
      BY <1>2
    <3> QED
      BY <3>1, <3>2, <3>3
  <2> QED
    BY <2>1, <2>2
<1> QED
  BY <1>5, <1>7 DEF p, w

\* Bits go back into the bytes they came from, but for the padding of the last.
LEMMA BitsPutBack ==
  ASSUME NEW n \in Nat, NEW c, \A i \in 1 .. BitsToBytes(n) : c[i] \in Byte
  PROVE  LET p == PackBits(BitsOf(c, n))
         IN  /\ p \in Seq(Byte) /\ Len(p) = BitsToBytes(n)
             /\ \A i \in 1 .. BitsToBytes(n) : i = BitsToBytes(n) \/ p[i] = c[i]
<1> DEFINE w == BitsOf(c, n)
           p == PackBits(w)
           size == BitsToBytes(n)
<1>1. w = [i \in 1 .. n |-> (c[(i - 1) \div 8 + 1] \div 2 ^ ((i - 1) % 8)) % 2]
  BY Zenon DEF BitsOf
<1>2. \A k \in 1 .. size, j \in 0 .. 7 :
        8 * (k - 1) + j + 1 <= n => w[8 * (k - 1) + j + 1] = (c[k] \div 2 ^ j) % 2
  <2> SUFFICES ASSUME NEW k \in 1 .. size, NEW j \in 0 .. 7, 8 * (k - 1) + j + 1 <= n
               PROVE  w[8 * (k - 1) + j + 1] = (c[k] \div 2 ^ j) % 2
    OBVIOUS
  <2>1. k \in Nat /\ k >= 1
    BY DEF BitsToBytes
  <2>2. PICK i \in 1 .. n : i = 8 * (k - 1) + j + 1
    <3>1. 8 * (k - 1) + j + 1 \in 1 .. n
      BY <2>1
    <3> QED
      BY <3>1
  <2>3. (i - 1) \div 8 + 1 = k /\ (i - 1) % 8 = j
    BY <2>1, <2>2
  <2> HIDE DEF w
  <2>4. w[i] = (c[k] \div 2 ^ j) % 2
    BY <1>1, <2>3
  <2> QED
    BY <2>2, <2>4
<1>3. w \in Seq(Word) /\ Len(w) = n /\ \A i \in DOMAIN w : w[i] \in Coil
  <2>1. PICK code : code \in BitCodes
    BY CodeNumbers
  <2>2. w = Unpack(code, c, n) /\ ContentBytes(code, n) = BitsToBytes(n)
    BY <2>1, Zenon DEF Unpack, ContentBytes
  <2>3. \A i \in 1 .. ContentBytes(code, n) : c[i] \in Byte
    BY <2>2
  <2> QED
    BY <2>1, <2>2, <2>3, UnpackType, Zenon
<1> HIDE DEF w
<1>4. w \in [1 .. n -> Coil]
  BY <1>1, <1>3
<1>5. w \in Seq(Coil) /\ Len(w) = n
  BY <1>4, ListIsSequence
<1>6. p \in Seq(Byte) /\ Len(p) = size
  BY <1>5, BitsReadBack
<1>7. ASSUME NEW k \in 1 .. size, k # size
      PROVE  p[k] = c[k]
  <2>1. k \in Nat /\ k >= 1 /\ 8 * k + 1 <= n
    BY <1>7 DEF BitsToBytes
  <2>2. p[k] \in Byte /\ c[k] \in Byte
    BY <1>5, PackedByte
  <2>3. \A j \in 0 .. 7 : 8 * (k - 1) + j + 1 <= n
    BY <2>1
  <2>4. \A j \in 0 .. 7 : (p[k] \div 2 ^ j) % 2 = (c[k] \div 2 ^ j) % 2
    <3>1. \A j \in 0 .. 7 : 8 * (k - 1) + j + 1 <= Len(w) =>
            (p[k] \div 2 ^ j) % 2 = w[8 * (k - 1) + j + 1]
      BY <1>5, PackedByte
    <3> QED
      BY <1>2, <1>5, <2>3, <3>1
  <2>5. PICK x \in Byte : x = p[k]
    BY <2>2
  <2>6. PICK y \in Byte : y = c[k]
    BY <2>2
  <2>7. \A j \in 0 .. 7 : (x \div 2 ^ j) % 2 = (y \div 2 ^ j) % 2
    BY <2>4, <2>5, <2>6
  <2>8. /\ 2 ^ 0 = 1 /\ 2 ^ 1 = 2 /\ 2 ^ 2 = 4 /\ 2 ^ 3 = 8
        /\ 2 ^ 4 = 16 /\ 2 ^ 5 = 32 /\ 2 ^ 6 = 64 /\ 2 ^ 7 = 128
    OBVIOUS
  <2>9. /\ (x \div 1) % 2 = (y \div 1) % 2 /\ (x \div 2) % 2 = (y \div 2) % 2
        /\ (x \div 4) % 2 = (y \div 4) % 2 /\ (x \div 8) % 2 = (y \div 8) % 2
        /\ (x \div 16) % 2 = (y \div 16) % 2 /\ (x \div 32) % 2 = (y \div 32) % 2
        /\ (x \div 64) % 2 = (y \div 64) % 2 /\ (x \div 128) % 2 = (y \div 128) % 2
    BY <2>7, <2>8
  <2>10. x \div 1 = x /\ y \div 1 = y
    BY DEF Byte
  <2>11. x = y
    BY <2>9, <2>10, SumOfBits
  <2> QED
    BY <2>5, <2>6, <2>11
<1> QED
  BY <1>6, <1>7 DEF p, w

\* Values go back into the bytes they came from.
PutBack(code, n, c, p) ==
  /\ p \in Seq(Byte) /\ Len(p) = ContentBytes(code, n)
  /\ \A i \in 1 .. Len(p) : (i = Len(p) /\ code \in BitCodes) \/ p[i] = c[i]

LEMMA ContentPutBack ==
  ASSUME NEW code, NEW n \in Nat, NEW c, \A i \in 1 .. ContentBytes(code, n) : c[i] \in Byte
  PROVE  PutBack(code, n, c, Pack(code, Unpack(code, c, n)))
<1>1. CASE code \in BitCodes
  <2>1. ContentBytes(code, n) = BitsToBytes(n)
    BY <1>1 DEF ContentBytes
  <2>2. PICK p : p = PackBits(BitsOf(c, n))
    OBVIOUS
  <2>3. /\ p \in Seq(Byte) /\ Len(p) = BitsToBytes(n)
        /\ \A i \in 1 .. BitsToBytes(n) : i = BitsToBytes(n) \/ p[i] = c[i]
    BY <2>1, <2>2, BitsPutBack
  <2>4. Pack(code, Unpack(code, c, n)) = p
    BY <1>1, <2>2, Zenon DEF Pack, Unpack
  <2> QED
    BY <1>1, <2>1, <2>3, <2>4, Zenon DEF PutBack
<1>2. CASE code \notin BitCodes
  <2>1. ContentBytes(code, n) = 2 * n
    BY <1>2 DEF ContentBytes
  <2>2. PICK p : p = PackWords(WordsOf(c, n))
    OBVIOUS
  <2>3. p \in Seq(Byte) /\ Len(p) = 2 * n /\ \A i \in 1 .. 2 * n : p[i] = c[i]
    BY <2>1, <2>2, WordsPutBack
  <2>4. Pack(code, Unpack(code, c, n)) = p
    BY <1>2, <2>2, Zenon DEF Pack, Unpack
  <2> QED
    BY <1>2, <2>1, <2>3, <2>4, Zenon DEF PutBack
<1> QED
  BY <1>1, <1>2

\* The bytes in front of a buffer, but for the padding of the last.
SameBut(b, s, padded) == \A i \in DOMAIN s : s[i] = b[i] \/ (i = Len(s) /\ padded)

\* The bytes of a message that was read, and what is read from them.
SaidAgain(b, padded, read, bytes, again) ==
  /\ bytes \in Seq(Byte)
  /\ Len(bytes) + Len(read.rest) = Len(b)
  /\ SameBut(b, bytes, padded)
  /\ again.value = read.value

\* The five bytes of a message of fixed size.
FirstFive(b, s) == s \in Seq(Byte) /\ Len(s) = 5 /\ \A i \in 1 .. 5 : s[i] = b[i]

LEMMA FiveAgain ==
  ASSUME NEW code \in Byte, NEW b \in Seq(Byte), Len(b) >= 5, b[1] = code
  PROVE  FirstFive(b, Five(code, FieldOf(b, 2), FieldOf(b, 4)))
<1> DEFINE a == FieldOf(b, 2)
           q == FieldOf(b, 4)
           s == Five(code, a, q)
<1>1. a \in Word /\ q \in Word
  BY FieldIsWord
<1>2. /\ s \in Seq(Byte) /\ Len(s) = 5 /\ s[1] = code
      /\ 256 * s[2] + s[3] = a /\ 256 * s[4] + s[5] = q
  BY <1>1, FiveBytes DEF Five
<1> HIDE DEF s, a, q
<1>3. \A i \in 1 .. 5 : s[i] \in Byte /\ b[i] \in Byte
  <2>1. \A i \in 1 .. Len(s) : s[i] \in Byte
    BY <1>2, BytesOf
  <2>2. Len(b) \in Nat /\ \A i \in 1 .. Len(b) : b[i] \in Byte
    BY BytesOf
  <2>3. \A i \in 1 .. 5 : i \in 1 .. Len(b)
    BY <2>2
  <2> QED
    BY <1>2, <2>1, <2>2, <2>3
<1>4. /\ s[2] \in Byte /\ s[3] \in Byte /\ s[4] \in Byte /\ s[5] \in Byte
      /\ b[2] \in Byte /\ b[3] \in Byte /\ b[4] \in Byte /\ b[5] \in Byte
  BY <1>3
<1>5. 256 * s[2] + s[3] = 256 * b[2] + b[3] /\ 256 * s[4] + s[5] = 256 * b[4] + b[5]
  BY <1>2 DEF a, q, FieldOf
<1>6. s[2] = b[2] /\ s[3] = b[3]
  BY <1>4, <1>5, SameBytes
<1>7. s[4] = b[4] /\ s[5] = b[5]
  BY <1>4, <1>5, SameBytes
<1>8. \A i \in 1 .. 5 : s[i] = b[i]
  BY <1>2, <1>6, <1>7
<1> QED
  BY <1>2, <1>8, Zenon DEF s, a, q, FirstFive

LEMMA RangeAgain ==
  ASSUME NEW code \in Byte, NEW b \in Seq(Byte), DeserializeRange(code, b).ok, NEW padded,
         NEW m, m = DeserializeRange(code, b).value
  PROVE  SaidAgain(b, padded, DeserializeRange(code, b), RangeBytes(code, m),
                   DeserializeRange(code, RangeBytes(code, m)))
<1>1. /\ Len(b) >= 5 /\ b[1] = code
      /\ QuantityAllowed(code, FieldOf(b, 4))
      /\ ~ WouldAddressOverflow(FieldOf(b, 2), FieldOf(b, 4))
      /\ DeserializeRange(code, b) =
           Ok([address |-> FieldOf(b, 2), quantity |-> FieldOf(b, 4)], From(b, 5))
  BY RangeReading
<1>2. PICK a, q : a = FieldOf(b, 2) /\ q = FieldOf(b, 4)
  OBVIOUS
<1>3. a \in Word /\ q \in Word
  BY <1>1, <1>2, FieldIsWord
<1>4. m = [address |-> a, quantity |-> q] /\ DeserializeRange(code, b).rest = From(b, 5)
  BY <1>1, <1>2, OkIsOk
<1>5. m.address = a /\ m.quantity = q
  BY <1>4
<1>6. PICK s : s = RangeBytes(code, m)
  OBVIOUS
<1>7. s = Five(code, a, q)
  BY <1>5, <1>6, Zenon DEF RangeBytes, Five
<1>8. s \in Seq(Byte) /\ Len(s) = 5 /\ \A i \in 1 .. 5 : s[i] = b[i]
  <2>1. FirstFive(b, Five(code, FieldOf(b, 2), FieldOf(b, 4)))
    BY <1>1, <1>2, FiveAgain
  <2>2. s = Five(code, FieldOf(b, 2), FieldOf(b, 4))
    BY <1>1, <1>2, <1>7, Zenon
  <2> QED
    BY <2>1, <2>2, Zenon DEF FirstFive
<1>9. Len(From(b, 5)) = Len(b) - 5 /\ Len(b) \in Nat
  BY <1>1, FromElements, LenProperties
<1>10. DeserializeRange(code, s).value = m
  <2>1. DeserializeRange(code, s \o <<>>) = CreateRange(code, m.address, m.quantity, <<>>)
    BY <1>3, <1>5, <1>6, NothingBehind, RangeReadBack
  <2>2. s \o <<>> = s
    BY <1>8, NothingBehind
  <2>3. CreateRange(code, a, q, <<>>) = Ok([address |-> a, quantity |-> q], <<>>)
    BY <1>1, <1>2, RangeMade
  <2>4. DeserializeRange(code, s) = Ok(m, <<>>)
    BY <1>4, <1>5, <2>1, <2>2, <2>3
  <2> QED
    BY <2>4, OkIsOk
<1>11. DOMAIN s = 1 .. 5 /\ Len(s) + Len(From(b, 5)) = Len(b)
  BY <1>8, <1>9
<1>12. SaidAgain(b, padded, DeserializeRange(code, b), s, DeserializeRange(code, s))
  <2>1. SameBut(b, s, padded)
    BY <1>8, <1>11, Zenon DEF SameBut
  <2>2. Len(s) + Len(DeserializeRange(code, b).rest) = Len(b)
    BY <1>4, <1>11
  <2>3. DeserializeRange(code, s).value = DeserializeRange(code, b).value
    BY <1>10
  <2> QED
    BY <1>8, <2>1, <2>2, <2>3, Zenon DEF SaidAgain
<1> QED
  BY <1>6, <1>12, Zenon

LEMMA SingleAgain ==
  ASSUME NEW code \in Byte, NEW b \in Seq(Byte), DeserializeSingle(code, b).ok, NEW padded,
         NEW m, m = DeserializeSingle(code, b).value
  PROVE  SaidAgain(b, padded, DeserializeSingle(code, b), SingleBytes(code, m),
                   DeserializeSingle(code, SingleBytes(code, m)))
<1>1. PICK a, q, v : a = FieldOf(b, 2) /\ q = FieldOf(b, 4) /\ v = ValueOf(code, b)
  OBVIOUS
<1>2. /\ Len(b) >= 5 /\ b[1] = code
      /\ IF code \in BitCodes THEN v \in Coil /\ CoilToRaw(v) = q ELSE v = q
      /\ DeserializeSingle(code, b) = Ok([address |-> a, value |-> v], From(b, 5))
  BY <1>1, SingleReading
<1>3. a \in Word /\ q \in Word
  BY <1>1, <1>2, FieldIsWord
<1>4. v \in Word /\ (code \in BitCodes => v \in Coil)
  BY <1>2, <1>3, CoilIsWords, Zenon
<1>5. m = [address |-> a, value |-> v] /\ DeserializeSingle(code, b).rest = From(b, 5)
  BY <1>2, OkIsOk
<1>6. m.address = a /\ m.value = v
  BY <1>5
<1>7. PICK s : s = SingleBytes(code, m)
  OBVIOUS
<1>8. s = Five(code, a, q)
  <2>1. (IF code \in BitCodes THEN CoilToRaw(m.value) ELSE m.value) = q
    BY <1>2, <1>6
  <2> QED
    BY <1>6, <1>7, <2>1, Zenon DEF SingleBytes, Five
<1>9. s \in Seq(Byte) /\ Len(s) = 5 /\ \A i \in 1 .. 5 : s[i] = b[i]
  <2>1. FirstFive(b, Five(code, FieldOf(b, 2), FieldOf(b, 4)))
    BY <1>1, <1>2, FiveAgain
  <2>2. s = Five(code, FieldOf(b, 2), FieldOf(b, 4))
    BY <1>1, <1>2, <1>8, Zenon
  <2> QED
    BY <2>1, <2>2, Zenon DEF FirstFive
<1>10. Len(From(b, 5)) = Len(b) - 5 /\ Len(b) \in Nat
  BY <1>2, FromElements, LenProperties
<1>11. DeserializeSingle(code, s).value = m
  <2>1. DeserializeSingle(code, s \o <<>>) = CreateSingle(code, m.address, m.value, <<>>)
    BY <1>3, <1>4, <1>6, <1>7, NothingBehind, SingleReadBack
  <2>2. s \o <<>> = s
    BY <1>9, NothingBehind
  <2>3. CreateSingle(code, a, v, <<>>) = Ok([address |-> a, value |-> v], <<>>)
    BY <1>4, SingleMade
  <2>4. DeserializeSingle(code, s) = Ok(m, <<>>)
    BY <1>5, <1>6, <2>1, <2>2, <2>3
  <2> QED
    BY <2>4, OkIsOk
<1>12. DOMAIN s = 1 .. 5 /\ Len(s) + Len(From(b, 5)) = Len(b)
  BY <1>9, <1>10
<1>13. SaidAgain(b, padded, DeserializeSingle(code, b), s, DeserializeSingle(code, s))
  <2>1. SameBut(b, s, padded)
    BY <1>9, <1>12, Zenon DEF SameBut
  <2>2. Len(s) + Len(DeserializeSingle(code, b).rest) = Len(b)
    BY <1>5, <1>12
  <2>3. DeserializeSingle(code, s).value = DeserializeSingle(code, b).value
    BY <1>11
  <2> QED
    BY <1>9, <2>1, <2>2, <2>3, Zenon DEF SaidAgain
<1> QED
  BY <1>7, <1>13, Zenon

\* The first k bytes of a buffer, with packed values behind them.
FieldsThen(b, k, s, p) ==
  /\ k \in Nat /\ s \in Seq(Byte) /\ p \in Seq(Byte)
  /\ Len(s) = k + Len(p) /\ From(s, k) = p /\ Len(b) >= Len(s)
  /\ \A i \in 1 .. k : s[i] = b[i]

LEMMA BehindFields ==
  ASSUME NEW b \in Seq(Byte), NEW k, NEW s, NEW p, FieldsThen(b, k, s, p),
         NEW code, NEW padded, code \in BitCodes => padded,
         NEW n, PutBack(code, n, From(b, k), p)
  PROVE  SameBut(b, s, padded)
<1>1. /\ k \in Nat /\ s \in Seq(Byte) /\ p \in Seq(Byte)
      /\ Len(s) = k + Len(p) /\ From(s, k) = p /\ Len(b) >= Len(s)
      /\ \A i \in 1 .. k : s[i] = b[i]
  BY DEF FieldsThen
<1>2. PICK l \in Nat, r \in Nat : l = Len(b) /\ r = Len(p)
  BY <1>1, LenProperties
<1>3. Len(s) = k + r /\ l >= k + r /\ DOMAIN s = 1 .. k + r
  BY <1>1, <1>2, LenProperties
<1>4. \A i \in 1 .. r : p[i] = s[k + i]
  <2>1. k \in 0 .. Len(s) /\ Len(s) - k = r
    BY <1>1, <1>3
  <2> QED
    BY <1>1, <2>1, FromElements
<1>5. \A i \in 1 .. l - k : From(b, k)[i] = b[k + i]
  <2>1. k \in 0 .. Len(b)
    BY <1>1, <1>2, <1>3
  <2> QED
    BY <1>2, <2>1, FromElements
<1>6. \A i \in 1 .. r : (i = r /\ code \in BitCodes) \/ p[i] = From(b, k)[i]
  BY <1>2, Zenon DEF PutBack
<1>7. ASSUME NEW i \in 1 .. k + r
      PROVE  s[i] = b[i] \/ (i = k + r /\ padded)
  <2>1. CASE i \in 1 .. k
    BY <1>1, <2>1
  <2>2. CASE i \notin 1 .. k
    <3>1. PICK j \in 1 .. r : k + j = i
      <4>1. k \in Nat
        BY <1>1
      <4>2. i - k \in 1 .. r /\ k + (i - k) = i
        BY <2>2, <4>1
      <4> QED
        BY <4>2
    <3>2. j \in 1 .. l - k
      <4>1. k \in Nat /\ l >= k + r
        BY <1>1, <1>3
      <4> QED
        BY <4>1
    <3>3. j = r => i = k + r
      BY <3>1
    <3>4. p[j] = s[i] /\ From(b, k)[j] = b[i]
      BY <1>4, <1>5, <3>1, <3>2
    <3> QED
      BY <1>6, <3>3, <3>4, Zenon
  <2> QED
    BY <2>1, <2>2
<1> QED
  BY <1>3, <1>7, Zenon DEF SameBut

LEMMA WriteAgain ==
  ASSUME NEW code \in WriteMultipleCodes, NEW b \in Seq(Byte), DeserializeWrite(code, b).ok,
         NEW padded, code \in BitCodes => padded,
         NEW m, m = DeserializeWrite(code, b).value
  PROVE  SaidAgain(b, padded, DeserializeWrite(code, b), WriteBytes(code, m),
                   DeserializeWrite(code, WriteBytes(code, m)))
<1>1. PICK n \in Word, size \in Nat : WriteBegin(code, b, n, size)
  BY WriteTaken
<1>2. n \in Nat
  BY WordIsNat, Zenon
<1>3. PICK v : WriteReadingOf(code, b, n, size, v)
  BY <1>1, <1>2, WriteReading, Zenon
<1>4. /\ size = ContentBytes(code, n) /\ v = Unpack(code, From(b, 6), n)
      /\ v \in Seq(Word) /\ Len(v) = n
      /\ code \in BitCodes => \A i \in DOMAIN v : v[i] \in Coil
      /\ DeserializeWrite(code, b) = Ok([address |-> FieldOf(b, 2), values |-> v], From(b, 6 + size))
  BY <1>3, Zenon DEF WriteReadingOf
<1>5. /\ Len(b) \in Nat /\ Len(b) >= 6 + size /\ b[1] = code
      /\ n = FieldOf(b, 4) /\ size = ByteCount(code, n) /\ b[6] = size
      /\ QuantityAllowed(code, n) /\ ~ WouldAddressOverflow(FieldOf(b, 2), n)
  BY <1>1, LenProperties DEF WriteBegin
<1>6. PICK a \in Word : a = FieldOf(b, 2)
  <2>1. Len(b) >= 5
    BY <1>5
  <2> QED
    BY <2>1, FieldIsWord
<1>7. m = [address |-> a, values |-> v] /\ DeserializeWrite(code, b).rest = From(b, 6 + size)
  BY <1>4, <1>6, OkIsOk
<1>8. m.address = a /\ m.values = v
  BY <1>7
<1>9. PICK p : p = Pack(code, v)
  OBVIOUS
<1>10. PutBack(code, n, From(b, 6), p)
  <2>1. 6 \in 0 .. Len(b)
    BY <1>5
  <2>2. \A i \in 1 .. Len(b) - 6 : From(b, 6)[i] = b[6 + i]
    BY <2>1, FromElements
  <2>3. \A i \in 1 .. size : From(b, 6)[i] \in Byte
    <3> SUFFICES ASSUME NEW i \in 1 .. size
                 PROVE  From(b, 6)[i] \in Byte
      OBVIOUS
    <3>1. i \in 1 .. Len(b) - 6 /\ 6 + i \in 1 .. Len(b)
      BY <1>5
    <3>2. From(b, 6)[i] = b[6 + i] /\ b[6 + i] \in Byte
      BY <2>2, <3>1, BytesOf
    <3> QED
      BY <3>2
  <2>4. \A i \in 1 .. ContentBytes(code, n) : From(b, 6)[i] \in Byte
    BY <1>4, <2>3
  <2> QED
    BY <1>2, <1>4, <1>9, <2>4, ContentPutBack, Zenon
<1>11. p \in Seq(Byte) /\ Len(p) = size
  BY <1>4, <1>10, Zenon DEF PutBack
<1>12. code \in Byte /\ size \in Byte
  <2>1. code \in Byte
    BY CodeIsByte
  <2>2. b[6] \in Byte
    <3>1. 6 \in 1 .. Len(b)
      BY <1>5
    <3> QED
      BY <3>1, BytesOf
  <2> QED
    BY <1>5, <2>1, <2>2
<1>13. PICK s : s = WriteBytes(code, m)
  OBVIOUS
<1>14. WriteFields(s, code, a, n, size, p)
  <2>1. s = <<code>> \o Be16(a) \o Be16(n) \o <<size>> \o p
    <3>1. size = ByteCount(code, Len(v)) /\ Len(v) = n
      BY <1>4, <1>5
    <3> QED
      BY <1>8, <1>9, <1>13, <3>1, Zenon DEF WriteBytes
  <2> QED
    BY <1>11, <1>12, <2>1, WriteLayout, Zenon
<1>15. /\ s \in Seq(Byte) /\ Len(s) = 6 + Len(p) /\ s[1] = code
       /\ 256 * s[2] + s[3] = a /\ 256 * s[4] + s[5] = n
       /\ s[6] = size /\ From(s, 6) = p
  BY <1>14, Zenon DEF WriteFields
<1>16. Len(s) = 6 + size /\ Len(b) >= Len(s)
  BY <1>5, <1>11, <1>15
<1>17. \A i \in 1 .. 6 : s[i] = b[i]
  <2>1. \A i \in 1 .. 6 : s[i] \in Byte /\ b[i] \in Byte
    <3>1. \A i \in 1 .. 6 : i \in 1 .. Len(s) /\ i \in 1 .. Len(b)
      BY <1>5, <1>16
    <3> QED
      BY <1>15, <3>1, BytesOf
  <2>2. /\ s[2] \in Byte /\ s[3] \in Byte /\ s[4] \in Byte /\ s[5] \in Byte
        /\ b[2] \in Byte /\ b[3] \in Byte /\ b[4] \in Byte /\ b[5] \in Byte
    BY <2>1
  <2>3. 256 * s[2] + s[3] = 256 * b[2] + b[3] /\ 256 * s[4] + s[5] = 256 * b[4] + b[5]
    BY <1>5, <1>6, <1>15 DEF FieldOf
  <2>4. s[2] = b[2] /\ s[3] = b[3]
    BY <2>2, <2>3, SameBytes
  <2>5. s[4] = b[4] /\ s[5] = b[5]
    BY <2>2, <2>3, SameBytes
  <2>6. s[1] = b[1] /\ s[6] = b[6]
    BY <1>5, <1>15, Zenon
  <2> QED
    BY <2>4, <2>5, <2>6
<1>18. SameBut(b, s, padded)
  <2>1. PICK k \in Nat : k = 6
    OBVIOUS
  <2>2. FieldsThen(b, k, s, p)
    <3>1. Len(s) = k + Len(p) /\ From(s, k) = p /\ \A i \in 1 .. k : s[i] = b[i]
      BY <1>15, <1>17, <2>1
    <3> QED
      BY <1>11, <1>15, <1>16, <2>1, <3>1, Zenon DEF FieldsThen
  <2>3. PutBack(code, n, From(b, k), p)
    BY <1>10, <2>1
  <2> QED
    BY <2>2, <2>3, BehindFields, Zenon
<1>19. DeserializeWrite(code, s).value = m
  <2>1. QuantityAllowed(code, n) /\ ~ WouldAddressOverflow(a, n)
    BY <1>5, <1>6
  <2>2. PICK none \in Seq(Byte) : s \o none = s
    BY <1>15, NothingBehind
  <2>3. DeserializeWrite(code, WriteBytes(code, m) \o none) = CreateWrite(code, a, v, none)
    BY <1>4, <1>8, <2>1, WriteReadBack
  <2>4. CreateWrite(code, a, v, none) = Ok([address |-> a, values |-> v], none)
    BY <1>4, <2>1, WriteMade
  <2>5. DeserializeWrite(code, s) = Ok(m, none)
    BY <1>7, <1>13, <2>2, <2>3, <2>4, Zenon
  <2> QED
    BY <2>5, OkIsOk
<1>20. Len(s) + Len(From(b, 6 + size)) = Len(b)
  <2>1. 6 + size \in 0 .. Len(b)
    BY <1>5
  <2>2. Len(From(b, 6 + size)) = Len(b) - (6 + size)
    BY <2>1, FromElements
  <2>3. Len(b) \in Nat /\ Len(b) >= 6 + size
    BY <1>5
  <2> QED
    BY <1>16, <2>2, <2>3
<1>21. SaidAgain(b, padded, DeserializeWrite(code, b), s, DeserializeWrite(code, s))
  <2>1. Len(s) + Len(DeserializeWrite(code, b).rest) = Len(b)
    BY <1>7, <1>20
  <2> QED
    BY <1>15, <1>18, <1>19, <2>1, Zenon DEF SaidAgain
<1> QED
  BY <1>13, <1>21, Zenon

\* Values that are said are read, and nothing is left.
LEMMA ValuesSaid ==
  ASSUME NEW code \in ReadCodes, NEW v \in Seq(Word), NEW n \in Nat, n = Len(v),
         code \in BitCodes => \A i \in DOMAIN v : v[i] \in Coil,
         QuantityAllowed(code, n), NEW m, m.values = v, NEW none \in Seq(Byte)
  PROVE  DeserializeValues(code, ValuesBytes(code, m) \o none, n) = Ok([values |-> v], none)
<1>1. DeserializeValues(code, ValuesBytes(code, m) \o none, n) = CreateValues(code, v, none)
  BY ValuesReadBack
<1> QED
  BY <1>1, ValuesMade

LEMMA ValuesAgain ==
  ASSUME NEW code \in ReadCodes, NEW b \in Seq(Byte), NEW expected \in Nat,
         DeserializeValues(code, b, expected).ok,
         NEW padded, code \in BitCodes => padded,
         NEW m, m = DeserializeValues(code, b, expected).value
  PROVE  SaidAgain(b, padded, DeserializeValues(code, b, expected), ValuesBytes(code, m),
                   DeserializeValues(code, ValuesBytes(code, m), expected))
<1>1. PICK n \in Nat, size \in Nat : ValuesBegin(code, b, expected, n, size)
  BY ValuesTaken
<1>2. PICK v : v = Unpack(code, From(b, 2), n)
  OBVIOUS
<1>3. ValuesOut(code, b, expected, n, size, v)
  BY <1>1, <1>2, ValuesAccepted, Zenon
<1>4. /\ v \in Seq(Word) /\ Len(v) = n
      /\ code \in BitCodes => \A i \in DOMAIN v : v[i] \in Coil
      /\ DeserializeValues(code, b, expected) = Ok([values |-> v], From(b, 2 + size))
  BY <1>3, Zenon DEF ValuesOut
<1>5. /\ Len(b) \in Nat /\ Len(b) >= 2 + size /\ b[1] = code
      /\ size = ContentBytes(code, n) /\ b[2] = size
      /\ QuantityAllowed(code, n) /\ (code \in BitCodes => expected = n)
  BY <1>1, LenProperties DEF ValuesBegin
<1>6. m = [values |-> v] /\ DeserializeValues(code, b, expected).rest = From(b, 2 + size)
  BY <1>4, OkIsOk
<1>7. m.values = v
  BY <1>6
<1>8. PICK p : p = Pack(code, v)
  OBVIOUS
<1>9. PutBack(code, n, From(b, 2), p)
  <2>1. 2 \in 0 .. Len(b)
    BY <1>5
  <2>2. \A i \in 1 .. Len(b) - 2 : From(b, 2)[i] = b[2 + i]
    BY <2>1, FromElements
  <2>3. \A i \in 1 .. size : From(b, 2)[i] \in Byte
    <3> SUFFICES ASSUME NEW i \in 1 .. size
                 PROVE  From(b, 2)[i] \in Byte
      OBVIOUS
    <3>1. i \in 1 .. Len(b) - 2 /\ 2 + i \in 1 .. Len(b)
      BY <1>5
    <3>2. From(b, 2)[i] = b[2 + i] /\ b[2 + i] \in Byte
      BY <2>2, <3>1, BytesOf
    <3> QED
      BY <3>2
  <2>4. \A i \in 1 .. ContentBytes(code, n) : From(b, 2)[i] \in Byte
    BY <1>5, <2>3
  <2> QED
    BY <1>2, <1>8, <2>4, ContentPutBack, Zenon
<1>10. p \in Seq(Byte) /\ Len(p) = size
  BY <1>5, <1>9, Zenon DEF PutBack
<1>11. code \in Byte /\ size \in Byte
  <2>1. code \in Byte
    BY CodeIsByte
  <2>2. b[2] \in Byte
    <3>1. 2 \in 1 .. Len(b)
      BY <1>5
    <3> QED
      BY <3>1, BytesOf
  <2> QED
    BY <1>5, <2>1, <2>2
<1>12. PICK s : s = ValuesBytes(code, m)
  OBVIOUS
<1>13. ValuesFields(s, code, size, p)
  <2>1. s = <<code, size>> \o p
    <3>1. code \in ReadCodes \cup WriteMultipleCodes
      OBVIOUS
    <3>2. size = ByteCount(code, n)
      BY <1>5, <3>1, ContentSize DEF ContentBytes
    <3>3. size = ByteCount(code, Len(v))
      BY <1>4, <3>2, Zenon
    <3> QED
      BY <1>7, <1>8, <1>12, <3>3, Zenon DEF ValuesBytes
  <2> QED
    BY <1>10, <1>11, <2>1, ValuesLayout, Zenon
<1>14. /\ s \in Seq(Byte) /\ Len(s) = 2 + Len(p)
       /\ s[1] = code /\ s[2] = size /\ From(s, 2) = p
  BY <1>13, Zenon DEF ValuesFields
<1>15. Len(s) = 2 + size /\ Len(b) >= Len(s)
  BY <1>5, <1>10, <1>14
<1>16. SameBut(b, s, padded)
  <2>1. PICK k \in Nat : k = 2
    OBVIOUS
  <2>2. FieldsThen(b, k, s, p)
    <3>1. s[1] = b[1] /\ s[2] = b[2]
      BY <1>5, <1>14, Zenon
    <3>2. \A i \in 1 .. k : s[i] = b[i]
      BY <2>1, <3>1
    <3>3. Len(s) = k + Len(p) /\ From(s, k) = p
      BY <1>14, <2>1
    <3> QED
      BY <1>10, <1>14, <1>15, <2>1, <3>2, <3>3, Zenon DEF FieldsThen
  <2>3. PutBack(code, n, From(b, k), p)
    BY <1>9, <2>1
  <2> QED
    BY <2>2, <2>3, BehindFields, Zenon
<1>17. DeserializeValues(code, s, expected).value = m
  <2>1. PICK none \in Seq(Byte) : s \o none = s
    BY <1>14, NothingBehind
  <2>2. /\ v \in Seq(Word) /\ n = Len(v) /\ QuantityAllowed(code, n)
        /\ code \in BitCodes => \A i \in DOMAIN v : v[i] \in Coil
    BY <1>4, <1>5
  <2>3. DeserializeValues(code, ValuesBytes(code, m) \o none, n) = Ok([values |-> v], none)
    BY <1>7, <2>2, ValuesSaid, SMTT(30)
  <2>4. DeserializeValues(code, s, n) = Ok(m, none)
    BY <1>6, <1>12, <2>1, <2>3, Zenon
  <2>5. DeserializeValues(code, s, expected) = DeserializeValues(code, s, n)
    <3>1. CASE code \in BitCodes
      BY <1>5, <3>1
    <3>2. CASE code \notin BitCodes
      BY <3>2, RegistersExpected, Zenon
    <3> QED
      BY <3>1, <3>2
  <2> QED
    BY <2>4, <2>5, OkIsOk
<1>18. Len(s) + Len(From(b, 2 + size)) = Len(b)
  <2>1. 2 + size \in 0 .. Len(b)
    BY <1>5
  <2>2. Len(From(b, 2 + size)) = Len(b) - (2 + size)
    BY <2>1, FromElements
  <2>3. Len(b) \in Nat /\ Len(b) >= 2 + size
    BY <1>5
  <2> QED
    BY <1>15, <2>2, <2>3
<1>19. SaidAgain(b, padded, DeserializeValues(code, b, expected), s,
                 DeserializeValues(code, s, expected))
  <2>1. Len(s) + Len(DeserializeValues(code, b, expected).rest) = Len(b)
    BY <1>6, <1>18
  <2>2. DeserializeValues(code, s, expected).value = DeserializeValues(code, b, expected).value
    BY <1>17
  <2> QED
    BY <1>14, <1>16, <2>1, <2>2, Zenon DEF SaidAgain
<1> QED
  BY <1>12, <1>19, Zenon

\* The error flag comes off a function code and goes back on.
LEMMA FlagPutBack ==
  ASSUME NEW x \in Byte, IsErrorFunctionCode(x)
  PROVE  ToErrorFunctionCode(ToNormalFunctionCode(x)) = x
<1>1. x \in Nat /\ x >= 128 /\ x <= 255
  BY DEF Byte, IsErrorFunctionCode, kErrorFlag
<1>2. x % 128 = x - 128 /\ ~ x - 128 >= 128 /\ x - 128 + 128 = x
  BY <1>1
<1> QED
  BY <1>2 DEF ToErrorFunctionCode, ToNormalFunctionCode, IsErrorFunctionCode, kErrorFlag

LEMMA ErrorAgain ==
  ASSUME NEW b \in Seq(Byte), DeserializeError(b).ok, NEW padded,
         NEW m, m = DeserializeError(b).value
  PROVE  SaidAgain(b, padded, DeserializeError(b), ErrorBytes(m), DeserializeError(ErrorBytes(m)))
<1>1. /\ Len(b) >= 2 /\ IsErrorFunctionCode(b[1]) /\ IsValidExceptionCode(b[2])
      /\ DeserializeError(b) =
           Ok([code |-> ToNormalFunctionCode(b[1]), exception |-> b[2]], From(b, 2))
  BY ErrorReading
<1>2. Len(b) \in Nat /\ b[1] \in Byte /\ b[2] \in Byte
  <2>1. Len(b) \in Nat /\ \A i \in 1 .. Len(b) : b[i] \in Byte
    BY BytesOf
  <2>2. 1 \in 1 .. Len(b) /\ 2 \in 1 .. Len(b)
    BY <1>1, <2>1
  <2> QED
    BY <2>1, <2>2
<1>3. m = [code |-> ToNormalFunctionCode(b[1]), exception |-> b[2]]
      /\ DeserializeError(b).rest = From(b, 2)
  BY <1>1, OkIsOk
<1>4. PICK s : s = ErrorBytes(m)
  OBVIOUS
<1>5. s = <<b[1], b[2]>>
  <2>1. m.code = ToNormalFunctionCode(b[1]) /\ m.exception = b[2]
    BY <1>3
  <2>2. ToErrorFunctionCode(m.code) = b[1]
    BY <1>1, <1>2, <2>1, FlagPutBack
  <2> QED
    BY <1>4, <2>1, <2>2, Zenon DEF ErrorBytes
<1>6. s \in Seq(Byte) /\ Len(s) = 2 /\ s[1] = b[1] /\ s[2] = b[2]
  BY <1>2, <1>5
<1>7. DeserializeError(s).value = m
  <2>1. IsErrorFunctionCode(s[1]) /\ IsValidExceptionCode(s[2])
    BY <1>1, <1>6, Zenon
  <2>2. DeserializeError(s).ok
    <3>1. Len(s) >= 2
      BY <1>6
    <3> QED
      BY <1>6, <2>1, <3>1, ErrorReading, Zenon
  <2>3. DeserializeError(s) =
          Ok([code |-> ToNormalFunctionCode(s[1]), exception |-> s[2]], From(s, 2))
    BY <1>6, <2>2, ErrorReading, Zenon
  <2>4. DeserializeError(s).value = [code |-> ToNormalFunctionCode(s[1]), exception |-> s[2]]
    BY <2>3, OkIsOk
  <2> QED
    BY <1>3, <1>6, <2>4
<1>8. Len(s) + Len(From(b, 2)) = Len(b)
  <2>1. 2 \in 0 .. Len(b)
    BY <1>1, <1>2
  <2>2. Len(From(b, 2)) = Len(b) - 2
    BY <2>1, FromElements
  <2> QED
    BY <1>2, <1>6, <2>2
<1>9. SaidAgain(b, padded, DeserializeError(b), s, DeserializeError(s))
  <2>1. \A i \in DOMAIN s : s[i] = b[i]
    BY <1>6
  <2>2. Len(s) + Len(DeserializeError(b).rest) = Len(b)
    BY <1>3, <1>8
  <2>3. DeserializeError(s).value = DeserializeError(b).value
    BY <1>7
  <2> QED
    BY <1>6, <2>1, <2>2, <2>3, Zenon DEF SaidAgain, SameBut
<1> QED
  BY <1>4, <1>9, Zenon

LEMMA ReadingAgain ==
  ASSUME NEW b \in Seq(Byte), NEW r \in Accepting(b),
         NEW bytes, bytes = EncodingOf(r.kind, r.code, Reading(r, b).value)
  PROVE  SaidAgain(b, Padded(r), Reading(r, b), bytes, Reading(r, bytes))
<1>1. r \in Readers /\ Reading(r, b).ok /\ r.expected \in Nat
  BY ReaderFields DEF Accepting
<1>2. r.kind \in {"range", "single", "write", "values"} => r.code \in Byte
  BY <1>1, ReaderFields, CodeIsByte
<1>3. CASE r.kind = "range"
  <2>1. \A c : Reading(r, c) = DeserializeRange(r.code, c)
    BY <1>1, <1>3, ReaderKinds
  <2>2. bytes = RangeBytes(r.code, Reading(r, b).value)
    BY <1>3 DEF EncodingOf
  <2> QED
    BY <1>1, <1>2, <1>3, <2>1, <2>2, RangeAgain, Zenon
<1>4. CASE r.kind = "single"
  <2>1. \A c : Reading(r, c) = DeserializeSingle(r.code, c)
    BY <1>1, <1>4, ReaderKinds
  <2>2. bytes = SingleBytes(r.code, Reading(r, b).value)
    BY <1>4 DEF EncodingOf
  <2> QED
    BY <1>1, <1>2, <1>4, <2>1, <2>2, SingleAgain, Zenon
<1>5. CASE r.kind = "write"
  <2>1. r.code \in WriteMultipleCodes /\ \A c : Reading(r, c) = DeserializeWrite(r.code, c)
    BY <1>1, <1>5, ReaderKinds
  <2>2. bytes = WriteBytes(r.code, Reading(r, b).value)
    BY <1>5 DEF EncodingOf
  <2>3. r.code \in BitCodes => Padded(r)
    BY <1>5 DEF Padded
  <2> QED
    BY <1>1, <2>1, <2>2, <2>3, WriteAgain, Zenon
<1>6. CASE r.kind = "values"
  <2>1. r.code \in ReadCodes /\ \A c : Reading(r, c) = DeserializeValues(r.code, c, r.expected)
    BY <1>1, <1>6, ReaderKinds
  <2>2. bytes = ValuesBytes(r.code, Reading(r, b).value)
    BY <1>6 DEF EncodingOf
  <2>3. r.code \in BitCodes => Padded(r)
    BY <1>6 DEF Padded
  <2> QED
    BY <1>1, <2>1, <2>2, <2>3, ValuesAgain, Zenon
<1>7. CASE r.kind = "error"
  <2>1. \A c : Reading(r, c) = DeserializeError(c)
    BY <1>1, <1>7, ReaderKinds
  <2>2. bytes = ErrorBytes(Reading(r, b).value)
    BY <1>7 DEF EncodingOf
  <2> QED
    BY <1>1, <2>1, <2>2, ErrorAgain, Zenon
<1> QED
  BY <1>1, <1>3, <1>4, <1>5, <1>6, <1>7, ReaderFields DEF Kinds

(***************************************************************************)
(* Whatever a class accepts, however long, it can also say: the bytes it   *)
(* serializes are those it read, but for the padding of bits, and the same *)
(* is read from them.                                                      *)
(***************************************************************************)
THEOREM AcceptedCanBeSaid == Spec => []AcceptedIsSayable
<1>1. Bytes => AcceptedIsSayable
  <2> SUFFICES ASSUME Bytes, NEW r \in Accepting(buf),
                      NEW read, read = Reading(r, buf),
                      NEW bytes, bytes = EncodingOf(r.kind, r.code, read.value)
               PROVE  /\ Len(bytes) + Len(read.rest) = Len(buf)
                      /\ \A i \in DOMAIN bytes :
                           bytes[i] = buf[i] \/ (i = Len(bytes) /\ Padded(r))
                      /\ Reading(r, bytes).value = read.value
    BY Zenon DEF AcceptedIsSayable
  <2>1. SaidAgain(buf, Padded(r), read, bytes, Reading(r, bytes))
    BY ReadingAgain, Zenon DEF Bytes
  <2> QED
    BY <2>1, Zenon DEF SaidAgain, SameBut
<1> QED
  BY <1>1, BytesInvariant, PTL

----------------------------------------------------------------------------
(***************************************************************************)
(* Sequences joined one after the other, as FlattenSeq joins them.         *)
(***************************************************************************)

\* A set of numbers has a least one.
LEMMA LeastNumber ==
  ASSUME NEW S, S \subseteq Nat, S # {}
  PROVE  \E x \in S : \A y \in S : x <= y
<1> DEFINE R == {ss \in Nat \X Nat : ss[1] < ss[2]}
<1>1. IsWellFoundedOn(R, Nat)
  BY NatLessThanWellFounded DEF OpToRel
<1>2. ASSUME NEW x \in Nat, NEW y \in Nat, y < x
      PROVE  <<y, x>> \in R
  BY <1>2
<1> HIDE DEF R
<1>3. PICK x \in S : \A y \in S : ~ (<<y, x>> \in R)
  BY <1>1, WFMin
<1>4. x \in Nat /\ \A y \in S : y \in Nat /\ ~ (y < x)
  BY <1>2, <1>3
<1> QED
  BY <1>4

\* A set that holds 0 and with each number the next holds them all.
LEMMA Induct ==
  ASSUME NEW S, 0 \in S, \A n \in Nat : n \in S => n + 1 \in S
  PROVE  Nat \subseteq S
<1> SUFFICES ASSUME ~ (Nat \subseteq S) PROVE FALSE
  OBVIOUS
<1>1. PICK n \in Nat \ S : \A m \in Nat \ S : n <= m
  BY LeastNumber
<1> QED
  BY <1>1

\* The first i of the sequences s, joined one after the other.
JoinedNext(s, f, i) == IF i = 1 THEN s[i] ELSE f[i - 1] \o s[i]
JoinedUpTo(s, n, f) == f = [i \in 1 .. n |-> JoinedNext(s, f, i)]

\* Step by step.
LEMMA JoinedSteps ==
  ASSUME NEW s, NEW n \in Nat, NEW f, JoinedUpTo(s, n, f)
  PROVE  \A i \in 1 .. n : f[i] = JoinedNext(s, f, i)
BY DEF JoinedUpTo

\* There is such a function.
LEMMA JoinedExists ==
  ASSUME NEW s, NEW n \in Nat
  PROVE  \E f : JoinedUpTo(s, n, f)
<1> DEFINE S == {m \in Nat : \E f : JoinedUpTo(s, m, f)}
<1>1. 0 \in S
  <2> DEFINE f == [i \in 1 .. 0 |-> s[i]]
  <2>1. f = [i \in 1 .. 0 |-> JoinedNext(s, f, i)]
    OBVIOUS
  <2>2. JoinedUpTo(s, 0, f)
    BY <2>1, Zenon DEF JoinedUpTo
  <2> QED
    BY <2>2
<1>2. ASSUME NEW m \in Nat, m \in S
      PROVE  m + 1 \in S
  <2>1. PICK f : JoinedUpTo(s, m, f)
    BY <1>2
  <2>2. \A i \in 1 .. m : f[i] = JoinedNext(s, f, i)
    BY <2>1, JoinedSteps
  <2> DEFINE g == [i \in 1 .. m + 1 |-> JoinedNext(s, f, i)]
  <2>3. \A i \in 1 .. m + 1 : g[i] = JoinedNext(s, f, i)
    OBVIOUS
  <2>4. ASSUME NEW i \in 1 .. m + 1
        PROVE  JoinedNext(s, f, i) = JoinedNext(s, g, i)
    <3> HIDE DEF g
    <3>1. i = 1 \/ i - 1 \in 1 .. m
      OBVIOUS
    <3>2. i = 1 \/ f[i - 1] = g[i - 1]
      BY <2>2, <2>3, <3>1
    <3> QED
      BY <3>2, Zenon DEF JoinedNext
  <2>5. g = [i \in 1 .. m + 1 |-> JoinedNext(s, g, i)]
    BY <2>4, Zenon
  <2>6. JoinedUpTo(s, m + 1, g)
    BY <2>5, Zenon DEF JoinedUpTo
  <2> HIDE DEF g
  <2> QED
    BY <2>6
<1> HIDE DEF S
<1>3. n \in S
  BY <1>1, <1>2, Induct
<1> QED
  BY <1>3 DEF S

\* It depends on the first n sequences only.
SameUpTo(s, t, n) == \A i \in 1 .. n : s[i] = t[i]

LEMMA JoinedAgree ==
  ASSUME NEW s, NEW t, NEW n \in Nat, NEW m \in Nat, n <= m, NEW f, NEW g,
         JoinedUpTo(s, n, f), JoinedUpTo(t, m, g), SameUpTo(s, t, n)
  PROVE  SameUpTo(f, g, n)
<1> DEFINE S == {k \in Nat : k \in 1 .. n => f[k] = g[k]}
<1>1. \A i \in 1 .. n : f[i] = JoinedNext(s, f, i)
  BY JoinedSteps
<1>2. \A i \in 1 .. m : g[i] = JoinedNext(t, g, i)
  BY JoinedSteps
<1>3. 0 \in S
  OBVIOUS
<1>4. ASSUME NEW k \in Nat, k \in S
      PROVE  k + 1 \in S
  <2> SUFFICES ASSUME k + 1 \in 1 .. n
               PROVE  f[k + 1] = g[k + 1]
    OBVIOUS
  <2>1. k + 1 = 1 \/ f[k + 1 - 1] = g[k + 1 - 1]
    BY <1>4
  <2>2. JoinedNext(s, f, k + 1) = JoinedNext(t, g, k + 1)
    <3>1. PICK i : i = k + 1
      OBVIOUS
    <3>2. s[i] = t[i] /\ (i = 1 \/ f[i - 1] = g[i - 1])
      BY <2>1, <3>1 DEF SameUpTo
    <3>3. JoinedNext(s, f, i) = JoinedNext(t, g, i)
      BY <3>2, Zenon DEF JoinedNext
    <3> QED
      BY <3>1, <3>3, Zenon
  <2>3. k + 1 \in 1 .. m
    OBVIOUS
  <2> HIDE DEF S
  <2> QED
    BY <1>1, <1>2, <2>2, <2>3, Zenon
<1> HIDE DEF S
<1>5. Nat \subseteq S
  BY <1>3, <1>4, Induct
<1> QED
  BY <1>5 DEF S, SameUpTo

\* All of them joined.
LEMMA FlattenLast ==
  ASSUME NEW s, NEW n \in Nat, n # 0, Len(s) = n
  PROVE  \E f : JoinedUpTo(s, n, f) /\ FlattenSeq(s) = f[n]
<1> DEFINE f == CHOOSE f : JoinedUpTo(s, n, f)
<1>1. JoinedUpTo(s, n, f)
  BY JoinedExists, Zenon
<1>2. FlattenSeq(s) = f[n]
  BY Zenon DEF FlattenSeq, JoinedUpTo, JoinedNext
<1> QED
  BY <1>1, <1>2, Zenon

\* What holds of the empty sequence and stays with one more element holds of all.
LEMMA SeqInduct ==
  ASSUME NEW Q, NEW T, <<>> \in T, \A s \in Seq(Q), e \in Q : s \in T => Append(s, e) \in T
  PROVE  Seq(Q) \subseteq T
<1> DEFINE S == {n \in Nat : \A s \in Seq(Q) : Len(s) = n => s \in T}
<1>1. 0 \in S
  BY EmptySeq
<1>2. ASSUME NEW n \in Nat, n \in S
      PROVE  n + 1 \in S
  <2> SUFFICES ASSUME NEW s \in Seq(Q), Len(s) = n + 1
               PROVE  s \in T
    OBVIOUS
  <2>1. s # <<>>
    BY EmptySeq
  <2>2. PICK p \in Seq(Q), e \in Q : s = Append(p, e)
    BY <2>1, SequenceEmptyOrAppend
  <2>3. Len(p) = n
    BY <2>2, AppendProperties, LenProperties
  <2> QED
    BY <1>2, <2>2, <2>3
<1> HIDE DEF S
<1>3. Nat \subseteq S
  BY <1>1, <1>2, Induct
<1> QED
  BY <1>3, LenProperties DEF S

\* Three byte strings joined.
LEMMA OfThree == \A a, b, c \in Seq(Byte) : (a \o b) \o c = a \o (b \o c)
BY ConcatAssociative

\* The bytes of messages behind each other.
LEMMA AllOfNone == BytesOfAll(<<>>) = <<>>
<1>1. [i \in 1 .. Len(<<>>) |-> Encoded(<<>>[i])] = <<>>
  OBVIOUS
<1> QED
  BY <1>1, Zenon DEF BytesOfAll, FlattenSeq

\* One message more.
LEMMA AllOfMore ==
  ASSUME NEW Q, \A x \in Q : Encoded(x) \in Seq(Byte), NEW q \in Seq(Q), NEW x \in Q
  PROVE  BytesOfAll(Append(q, x)) = BytesOfAll(q) \o Encoded(x)
<1> DEFINE n == Len(q)
           s == [i \in 1 .. n |-> Encoded(q[i])]
           t == [i \in 1 .. n + 1 |-> Encoded(Append(q, x)[i])]
<1>1. n \in Nat
  BY LenProperties
<1>2. /\ Append(q, x) \in Seq(Q) /\ Len(Append(q, x)) = n + 1
      /\ \A i \in 1 .. n : Append(q, x)[i] = q[i]
      /\ Append(q, x)[n + 1] = x
  BY AppendProperties
<1>3. BytesOfAll(q) = FlattenSeq(s) /\ BytesOfAll(Append(q, x)) = FlattenSeq(t)
  BY <1>2, Zenon DEF BytesOfAll
<1>4. /\ \A i \in 1 .. n : s[i] = t[i]
      /\ t[n + 1] = Encoded(x)
  BY <1>1, <1>2
<1>5. Len(s) = n /\ Len(t) = n + 1
  BY <1>1
<1> HIDE DEF n, s, t
<1>6. PICK g : JoinedUpTo(t, n + 1, g) /\ FlattenSeq(t) = g[n + 1]
  BY <1>1, <1>5, FlattenLast
<1>7. g[n + 1] = JoinedNext(t, g, n + 1)
  BY <1>1, <1>6, JoinedSteps
<1>8. CASE n = 0
  <2>1. q = <<>>
    BY <1>8, EmptySeq DEF n
  <2>2. g[n + 1] = Encoded(x)
    BY <1>4, <1>7, <1>8 DEF JoinedNext
  <2>3. <<>> \o Encoded(x) = Encoded(x)
    BY ConcatEmptySeq
  <2> QED
    BY <1>3, <1>6, <2>1, <2>2, <2>3, AllOfNone, Zenon
<1>9. CASE n # 0
  <2>1. PICK f : JoinedUpTo(s, n, f) /\ FlattenSeq(s) = f[n]
    BY <1>1, <1>5, <1>9, FlattenLast
  <2>2. PICK k : k = n + 1
    OBVIOUS
  <2>3. k \in Nat /\ n <= k /\ k # 1 /\ k - 1 = n /\ n \in 1 .. n
    BY <1>1, <1>9, <2>2
  <2>4. JoinedUpTo(t, k, g) /\ g[k] = JoinedNext(t, g, k) /\ FlattenSeq(t) = g[k]
    BY <1>6, <1>7, <2>2, Zenon
  <2>5. f[n] = g[n]
    <3>1. SameUpTo(s, t, n)
      BY <1>4 DEF SameUpTo
    <3>2. SameUpTo(f, g, n)
      BY <1>1, <2>1, <2>3, <2>4, <3>1, JoinedAgree
    <3> QED
      BY <2>3, <3>2 DEF SameUpTo
  <2>6. JoinedNext(t, g, k) = g[n] \o t[k]
    BY <2>3, Zenon DEF JoinedNext
  <2> QED
    BY <1>3, <1>4, <2>1, <2>2, <2>4, <2>5, <2>6, Zenon
<1> QED
  BY <1>8, <1>9

\* They are bytes.
LEMMA AllAreBytes ==
  ASSUME NEW Q, \A x \in Q : Encoded(x) \in Seq(Byte), NEW q \in Seq(Q)
  PROVE  BytesOfAll(q) \in Seq(Byte)
<1> DEFINE T == {p \in Seq(Q) : BytesOfAll(p) \in Seq(Byte)}
<1>1. <<>> \in T
  BY AllOfNone, EmptySeq
<1>2. ASSUME NEW p \in Seq(Q), NEW e \in Q, p \in T
      PROVE  Append(p, e) \in T
  BY <1>2, AllOfMore, AppendProperties, ConcatProperties
<1> HIDE DEF T
<1>3. q \in T
  BY <1>1, <1>2, SeqInduct
<1> QED
  BY <1>3 DEF T

\* The first message and the others.
LEMMA AllByHead ==
  ASSUME NEW Q, \A x \in Q : Encoded(x) \in Seq(Byte), NEW q \in Seq(Q), q # <<>>
  PROVE  BytesOfAll(q) = Encoded(Head(q)) \o BytesOfAll(Tail(q))
<1> DEFINE T == {p \in Seq(Q) : p # <<>> =>
                   BytesOfAll(p) = Encoded(Head(p)) \o BytesOfAll(Tail(p))}
<1>1. <<>> \in T
  BY EmptySeq
<1>2. ASSUME NEW p \in Seq(Q), NEW e \in Q, p \in T
      PROVE  Append(p, e) \in T
  <2>1. Append(p, e) \in Seq(Q)
    BY AppendProperties
  <2>2. BytesOfAll(Append(p, e)) = BytesOfAll(p) \o Encoded(e) /\ Encoded(e) \in Seq(Byte)
    BY AllOfMore
  <2>3. CASE p = <<>>
    <3>1. Head(Append(p, e)) = e /\ Tail(Append(p, e)) = <<>>
      BY <2>3, HeadTailAppend
    <3>2. <<>> \o Encoded(e) = Encoded(e) \o <<>>
      BY <2>2, ConcatEmptySeq
    <3> QED
      BY <2>1, <2>2, <2>3, <3>1, <3>2, AllOfNone
  <2>4. CASE p # <<>>
    <3>1. Head(Append(p, e)) = Head(p) /\ Tail(Append(p, e)) = Append(Tail(p), e)
      BY <2>4, HeadTailAppend
    <3>2. Head(p) \in Q /\ Tail(p) \in Seq(Q)
      BY <2>4, HeadTailProperties
    <3>3. BytesOfAll(Append(Tail(p), e)) = BytesOfAll(Tail(p)) \o Encoded(e)
      BY <3>2, AllOfMore
    <3>4. BytesOfAll(Tail(p)) \in Seq(Byte) /\ Encoded(Head(p)) \in Seq(Byte)
      BY <3>2, AllAreBytes
    <3>5. (Encoded(Head(p)) \o BytesOfAll(Tail(p))) \o Encoded(e) =
            Encoded(Head(p)) \o (BytesOfAll(Tail(p)) \o Encoded(e))
      BY <2>2, <3>4, OfThree, Zenon
    <3>6. BytesOfAll(p) = Encoded(Head(p)) \o BytesOfAll(Tail(p))
      BY <1>2, <2>4
    <3>7. BytesOfAll(Append(p, e)) = Encoded(Head(Append(p, e))) \o BytesOfAll(Tail(Append(p, e)))
      BY <2>2, <3>1, <3>3, <3>5, <3>6, Zenon
    <3> QED
      BY <2>1, <3>7, Zenon
  <2> QED
    BY <2>3, <2>4
<1> HIDE DEF T
<1>3. q \in T
  BY <1>1, <1>2, SeqInduct
<1> QED
  BY <1>3 DEF T

----------------------------------------------------------------------------
(***************************************************************************)
(* The bytes of a message and the reading of them.                         *)
(***************************************************************************)

\* A bit is a word.
LEMMA BitsAreWords == Seq(Coil) \subseteq Seq(Word)
BY CoilIsWords, SeqDef

\* What the values of a sample are.
LEMMA BitValues ==
  ASSUME NEW values \in Seq(Coil)
  PROVE  values \in Seq(Word) /\ \A i \in DOMAIN values : values[i] \in Coil
<1>1. values \in Seq(Word)
  BY BitsAreWords
<1>2. \A i \in DOMAIN values : values[i] \in Coil
  BY LenProperties
<1> QED
  BY <1>1, <1>2

\* The bytes of an exception.
LEMMA ErrorLayout ==
  ASSUME NEW m, m.code \in ReadCodes \cup WriteSingleCodes \cup WriteMultipleCodes,
         m.exception \in ExceptionCodes
  PROVE  /\ ErrorBytes(m) \in Seq(Byte) /\ Len(ErrorBytes(m)) = 2
         /\ IsErrorFunctionCode(ErrorBytes(m)[1])
         /\ ToNormalFunctionCode(ErrorBytes(m)[1]) = m.code
         /\ ErrorBytes(m)[2] = m.exception
<1>1. m.code \in 1 .. 16
  BY CodeNumbers
<1>2. ToErrorFunctionCode(m.code) = m.code + 128
  BY <1>1 DEF ToErrorFunctionCode, IsErrorFunctionCode, kErrorFlag
<1>3. m.code + 128 \in Byte /\ m.exception \in Byte
  BY <1>1 DEF ExceptionCodes, Byte
<1>4. ErrorBytes(m) = <<m.code + 128, m.exception>>
  BY <1>2, Zenon DEF ErrorBytes
<1>5. m.code + 128 >= kErrorFlag /\ (m.code + 128) % kErrorFlag = m.code
  BY <1>1 DEF kErrorFlag
<1> QED
  BY <1>3, <1>4, <1>5 DEF IsErrorFunctionCode, ToNormalFunctionCode

\* A message is read as it was written, and what follows it is left.
ReadWhole(x) ==
  /\ Encoded(x) \in Seq(Byte) /\ Len(Encoded(x)) >= 1
  /\ \A tail \in Seq(Byte) :
       Deserialize(x.kind, x.code, Expected(x), Encoded(x) \o tail) = Ok(x.content, tail)

\* An address and a quantity.
LEMMA RangeWhole ==
  ASSUME NEW x, x.kind = "range", x.code \in CodesOf("range"),
         x.content \in [address : Word, quantity : Word],
         CreateRange(x.code, x.content.address, x.content.quantity, <<>>).ok
  PROVE  ReadWhole(x)
<1> DEFINE m == x.content
           code == x.code
<1>1. code \in Byte
  BY CodeIsByte DEF CodesOf
<1>2. /\ m.address \in Word /\ m.quantity \in Word
      /\ m = [address |-> m.address, quantity |-> m.quantity]
  OBVIOUS
<1>3. Encoded(x) = RangeBytes(code, m)
  BY DEF Encoded, EncodingOf
<1>4. RangeBytes(code, m) \in Seq(Byte) /\ Len(RangeBytes(code, m)) = 5
  BY <1>1, <1>2, FiveBytes DEF RangeBytes
<1>5. QuantityAllowed(code, m.quantity) /\ ~ WouldAddressOverflow(m.address, m.quantity)
  BY CreatedRange, Zenon
<1> HIDE DEF m, code
<1>6. ASSUME NEW tail \in Seq(Byte)
      PROVE  Deserialize(x.kind, x.code, Expected(x), Encoded(x) \o tail) = Ok(x.content, tail)
  <2>1. CreateRange(code, m.address, m.quantity, tail) =
          Ok([address |-> m.address, quantity |-> m.quantity], tail)
    BY <1>5, RangeMade
  <2>2. DeserializeRange(code, RangeBytes(code, m) \o tail) =
          CreateRange(code, m.address, m.quantity, tail)
    BY <1>1, <1>2, RangeReadBack, Zenon
  <2>3. DeserializeRange(code, Encoded(x) \o tail) = Ok(m, tail)
    BY <1>2, <1>3, <2>1, <2>2, Zenon
  <2>4. \A e, b : Deserialize("range", code, e, b) = DeserializeRange(code, b)
    BY DEF Deserialize
  <2> QED
    BY <2>3, <2>4, Zenon DEF m, code
<1> QED
  BY <1>3, <1>4, <1>6 DEF ReadWhole

\* An address and a value.
LEMMA SingleWhole ==
  ASSUME NEW x, x.kind = "single", x.code \in CodesOf("single"),
         x.content \in [address : Word, value : Word],
         CreateSingle(x.code, x.content.address, x.content.value, <<>>).ok
  PROVE  ReadWhole(x)
<1> DEFINE m == x.content
           code == x.code
           raw == IF code \in BitCodes THEN CoilToRaw(m.value) ELSE m.value
<1>1. code \in Byte
  BY CodeIsByte DEF CodesOf
<1>2. /\ m.address \in Word /\ m.value \in Word
      /\ m = [address |-> m.address, value |-> m.value]
  OBVIOUS
<1>3. Encoded(x) = SingleBytes(code, m)
  BY DEF Encoded, EncodingOf
<1>4. code \in BitCodes => m.value \in Coil
  BY CreatedSingle, Zenon
<1>5. raw \in Word
  BY <1>2, <1>4, CoilIsWord
<1>6. SingleBytes(code, m) = Five(code, m.address, raw)
  BY Zenon DEF SingleBytes, Five
<1> HIDE DEF raw
<1>7. SingleBytes(code, m) \in Seq(Byte) /\ Len(SingleBytes(code, m)) = 5
  BY <1>1, <1>2, <1>5, <1>6, FiveBytes DEF Five
<1> HIDE DEF m, code
<1>8. ASSUME NEW tail \in Seq(Byte)
      PROVE  Deserialize(x.kind, x.code, Expected(x), Encoded(x) \o tail) = Ok(x.content, tail)
  <2>1. CreateSingle(code, m.address, m.value, tail) =
          Ok([address |-> m.address, value |-> m.value], tail)
    BY <1>4, SingleMade
  <2>2. DeserializeSingle(code, SingleBytes(code, m) \o tail) =
          CreateSingle(code, m.address, m.value, tail)
    BY <1>1, <1>2, <1>4, SingleReadBack, Zenon
  <2>3. DeserializeSingle(code, Encoded(x) \o tail) = Ok(m, tail)
    BY <1>2, <1>3, <2>1, <2>2, Zenon
  <2>4. \A e, b : Deserialize("single", code, e, b) = DeserializeSingle(code, b)
    BY DEF Deserialize
  <2> QED
    BY <2>3, <2>4, Zenon DEF m, code
<1> QED
  BY <1>3, <1>7, <1>8 DEF ReadWhole

\* A quantity that is allowed is a word.
LEMMA AllowedIsWord ==
  ASSUME NEW code \in ReadCodes \cup WriteMultipleCodes, NEW n \in Nat, QuantityAllowed(code, n)
  PROVE  n \in Word
<1>1. n <= 2000
  BY CodeNumbers DEF QuantityAllowed, kMinQuantity, kMaxQuantity, kReadCoils,
     kReadDiscreteInputs, kReadHoldingRegisters, kReadInputRegisters, kWriteMultipleCoils
<1>2. n <= WordLimit
  BY <1>1 DEF WordLimit
<1> QED
  BY <1>2, IsWord

\* An address and values.
LEMMA WriteWhole ==
  ASSUME NEW x, x.kind = "write", x.code \in CodesOf("write"),
         x.content \in [address : Word, values : Seq(Word)],
         CreateWrite(x.code, x.content.address, x.content.values, <<>>).ok
  PROVE  ReadWhole(x)
<1> DEFINE m == x.content
           code == x.code
           n == Len(m.values)
<1>1. code \in WriteMultipleCodes
  BY DEF CodesOf
<1>2. /\ m.address \in Word /\ m.values \in Seq(Word)
      /\ m = [address |-> m.address, values |-> m.values]
  OBVIOUS
<1>3. Encoded(x) = WriteBytes(code, m)
  BY DEF Encoded, EncodingOf
<1>4. /\ QuantityAllowed(code, Len(m.values)) /\ ~ WouldAddressOverflow(m.address, Len(m.values))
      /\ code \in BitCodes => \A i \in DOMAIN m.values : m.values[i] \in Coil
  BY CreatedWrite, Zenon
<1>5. n \in Nat
  BY <1>2, LenProperties
<1> HIDE DEF m, code, n
<1>6. n \in Word /\ ByteCount(code, n) \in Nat
  <2>1. QuantityAllowed(code, n) /\ code \in ReadCodes \cup WriteMultipleCodes
    BY <1>1, <1>4 DEF n
  <2>2. n \in Word
    BY <1>5, <2>1, AllowedIsWord
  <2>3. ByteCount(code, n) \in 1 .. 250
    BY <1>5, <2>1, ContentSize
  <2>4. 1 .. 250 \subseteq Nat
    OBVIOUS
  <2> QED
    BY <2>2, <2>3, <2>4, Zenon
<1>7. ASSUME NEW tail \in Seq(Byte)
      PROVE  /\ DeserializeWrite(code, WriteBytes(code, m) \o tail) =
                  CreateWrite(code, m.address, m.values, tail)
             /\ Len(WriteBytes(code, m)) = 6 + ByteCount(code, n)
             /\ WriteBytes(code, m) \in Seq(Byte)
  <2>1. ASSUME NEW a \in Word, NEW v \in Seq(Word), NEW q \in Word, q = Len(v),
               code \in BitCodes => \A i \in DOMAIN v : v[i] \in Coil,
               QuantityAllowed(code, q), ~ WouldAddressOverflow(a, q),
               m.address = a, m.values = v
        PROVE  /\ DeserializeWrite(code, WriteBytes(code, m) \o tail) =
                    CreateWrite(code, a, v, tail)
               /\ Len(WriteBytes(code, m)) = 6 + ByteCount(code, q)
               /\ WriteBytes(code, m) \in Seq(Byte)
    BY <1>1, <2>1, WriteReadBack
  <2> QED
    BY <1>2, <1>4, <1>6, <2>1, Zenon DEF n
<1>8. WriteBytes(code, m) \in Seq(Byte) /\ Len(WriteBytes(code, m)) >= 1
  <2>1. <<>> \in Seq(Byte)
    BY EmptySeq
  <2>2. Len(WriteBytes(code, m)) = 6 + ByteCount(code, n) /\ WriteBytes(code, m) \in Seq(Byte)
    BY <1>7, <2>1
  <2> QED
    BY <1>6, <2>2
<1>9. ASSUME NEW tail \in Seq(Byte)
      PROVE  Deserialize(x.kind, x.code, Expected(x), Encoded(x) \o tail) = Ok(x.content, tail)
  <2>1. CreateWrite(code, m.address, m.values, tail) =
          Ok([address |-> m.address, values |-> m.values], tail)
    BY <1>4, WriteMade
  <2>2. DeserializeWrite(code, WriteBytes(code, m) \o tail) =
          CreateWrite(code, m.address, m.values, tail)
    BY <1>7
  <2>3. DeserializeWrite(code, Encoded(x) \o tail) = Ok(m, tail)
    BY <1>2, <1>3, <2>1, <2>2, Zenon
  <2>4. \A e, b : Deserialize("write", code, e, b) = DeserializeWrite(code, b)
    BY DEF Deserialize
  <2> QED
    BY <2>3, <2>4, Zenon DEF m, code
<1> QED
  BY <1>3, <1>8, <1>9 DEF ReadWhole

\* Values, for a reader that expects as many.
LEMMA ValuesWhole ==
  ASSUME NEW x, x.kind = "values", x.code \in CodesOf("values"),
         x.content \in [values : Seq(IF x.code \in BitCodes THEN Coil ELSE Word)],
         CreateValues(x.code, x.content.values, <<>>).ok
  PROVE  ReadWhole(x)
<1> DEFINE m == x.content
           code == x.code
           n == Len(m.values)
<1>1. code \in ReadCodes
  BY DEF CodesOf
<1>2. m = [values |-> m.values]
  OBVIOUS
<1>3. Encoded(x) = ValuesBytes(code, m) /\ Expected(x) = n
  BY DEF Encoded, EncodingOf, Expected
<1>4. m.values \in Seq(IF code \in BitCodes THEN Coil ELSE Word)
  OBVIOUS
<1>5. /\ m.values \in Seq(Word)
      /\ code \in BitCodes => \A i \in DOMAIN m.values : m.values[i] \in Coil
  BY <1>4, BitValues
<1>6. QuantityAllowed(code, n)
  <2> DEFINE r == Require(QuantityAllowed(code, n), "kInvalidQuantity", <<>>)
             steps == <<r>>
             final == Ok([values |-> m.values], <<>>)
  <2>1. CreateValues(code, m.values, <<>>) = Decoded(steps, final)
    BY Zenon DEF CreateValues
  <2> HIDE DEF r, final
  <2>2. DOMAIN steps = 1 .. 1 /\ steps[1] = r
    OBVIOUS
  <2> HIDE DEF steps
  <2>3. \A i \in 1 .. 1 : steps[i].ok
    BY <2>1, <2>2, DecodedOk
  <2>4. r.ok
    BY <2>2, <2>3
  <2> QED
    BY <2>4, ErrIsNot DEF r, Require
<1>7. n \in Nat
  BY <1>5, LenProperties
<1> HIDE DEF m, code, n
<1>8. ByteCount(code, n) \in Nat
  <2>1. code \in ReadCodes \cup WriteMultipleCodes
    BY <1>1
  <2>2. ByteCount(code, n) \in 1 .. 250
    BY <1>6, <1>7, <2>1, ContentSize
  <2>3. 1 .. 250 \subseteq Nat
    OBVIOUS
  <2> QED
    BY <2>2, <2>3, Zenon
<1>9. ASSUME NEW tail \in Seq(Byte)
      PROVE  /\ DeserializeValues(code, ValuesBytes(code, m) \o tail, n) =
                  CreateValues(code, m.values, tail)
             /\ Len(ValuesBytes(code, m)) = 2 + ByteCount(code, n)
             /\ ValuesBytes(code, m) \in Seq(Byte)
  <2>1. ASSUME NEW v \in Seq(Word), n = Len(v), m.values = v,
               code \in BitCodes => \A i \in DOMAIN v : v[i] \in Coil
        PROVE  /\ DeserializeValues(code, ValuesBytes(code, m) \o tail, n) =
                    CreateValues(code, v, tail)
               /\ Len(ValuesBytes(code, m)) = 2 + ByteCount(code, n)
               /\ ValuesBytes(code, m) \in Seq(Byte)
    BY <1>1, <1>6, <1>7, <2>1, ValuesReadBack
  <2> QED
    BY <1>5, <2>1, Zenon DEF n
<1>10. ValuesBytes(code, m) \in Seq(Byte) /\ Len(ValuesBytes(code, m)) >= 1
  <2>1. <<>> \in Seq(Byte)
    BY EmptySeq
  <2>2. Len(ValuesBytes(code, m)) = 2 + ByteCount(code, n) /\ ValuesBytes(code, m) \in Seq(Byte)
    BY <1>9, <2>1
  <2> QED
    BY <1>8, <2>2
<1>11. ASSUME NEW tail \in Seq(Byte)
       PROVE  Deserialize(x.kind, x.code, Expected(x), Encoded(x) \o tail) = Ok(x.content, tail)
  <2>1. CreateValues(code, m.values, tail) = Ok([values |-> m.values], tail)
    BY <1>6, ValuesMade DEF n
  <2>2. DeserializeValues(code, ValuesBytes(code, m) \o tail, n) =
          CreateValues(code, m.values, tail)
    BY <1>9
  <2>3. DeserializeValues(code, Encoded(x) \o tail, n) = Ok(m, tail)
    BY <1>2, <1>3, <2>1, <2>2, Zenon
  <2>4. \A e, b : Deserialize("values", code, e, b) = DeserializeValues(code, b, e)
    BY DEF Deserialize
  <2> QED
    BY <1>3, <2>3, <2>4, Zenon DEF m, code
<1> QED
  BY <1>3, <1>10, <1>11 DEF ReadWhole

\* An exception.
LEMMA ErrorWhole ==
  ASSUME NEW x, x.kind = "error",
         x.content \in [code : ReadCodes \cup WriteSingleCodes \cup WriteMultipleCodes,
                        exception : ExceptionCodes]
  PROVE  ReadWhole(x)
<1> DEFINE m == x.content
           bytes == ErrorBytes(m)
<1>1. /\ m.code \in ReadCodes \cup WriteSingleCodes \cup WriteMultipleCodes
      /\ m.exception \in ExceptionCodes
      /\ m = [code |-> m.code, exception |-> m.exception]
  OBVIOUS
<1>2. Encoded(x) = bytes
  BY DEF Encoded, EncodingOf
<1>3. /\ bytes \in Seq(Byte) /\ Len(bytes) = 2
      /\ IsErrorFunctionCode(bytes[1]) /\ ToNormalFunctionCode(bytes[1]) = m.code
      /\ bytes[2] = m.exception
  BY <1>1, ErrorLayout
<1> HIDE DEF bytes, m
<1>4. ASSUME NEW tail \in Seq(Byte)
      PROVE  Deserialize(x.kind, x.code, Expected(x), Encoded(x) \o tail) = Ok(x.content, tail)
  <2>1. PICK whole : whole = bytes \o tail
    OBVIOUS
  <2>2. /\ whole \in Seq(Byte) /\ Len(whole) \in Nat /\ Len(whole) >= Len(bytes)
        /\ \A i \in 1 .. Len(bytes) : whole[i] = bytes[i]
        /\ From(whole, Len(bytes)) = tail
    BY <1>3, <2>1, HeadKept, ZenonT(30)
  <2>3. Len(whole) >= 2 /\ whole[1] = bytes[1] /\ whole[2] = bytes[2] /\ From(whole, 2) = tail
    BY <1>3, <2>2
  <2>4. IsValidExceptionCode(whole[2])
    BY <1>1, <1>3, <2>3 DEF IsValidExceptionCode
  <2>5. DeserializeError(whole) =
          Ok([code |-> ToNormalFunctionCode(whole[1]), exception |-> whole[2]], From(whole, 2))
    BY <1>3, <2>2, <2>3, <2>4, ErrorReading
  <2>6. DeserializeError(whole) = Ok(m, tail)
    BY <1>1, <1>3, <2>3, <2>5, Zenon
  <2>7. \A c, e, b : Deserialize("error", c, e, b) = DeserializeError(b)
    BY DEF Deserialize
  <2> QED
    BY <1>2, <2>1, <2>6, <2>7, Zenon DEF m
<1> QED
  BY <1>2, <1>3, <1>4 DEF ReadWhole

\* Every message there is to write.
LEMMA SampleWhole ==
  ASSUME NEW x \in Samples
  PROVE  ReadWhole(x)
<1>1. Creatable(x)
  BY SamplesAssumption
<1> QED
  BY <1>1, RangeWhole, SingleWhole, WriteWhole, ValuesWhole, ErrorWhole, Zenon DEF Creatable

----------------------------------------------------------------------------
(***************************************************************************)
(* A message that lost its end.                                            *)
(***************************************************************************)

\* The verdict on a buffer that ends too early.
TooShort(r) == \E rest : r = Err("kBufferTooShort", rest)

\* It is an error.
LEMMA TooShortIsError ==
  ASSUME NEW r, TooShort(r)
  PROVE  ~ r.ok /\ r.error = "kBufferTooShort"
BY DEF TooShort, Err

\* Step k of n is the first that fails.
FailsFirst(steps, n, k) ==
  /\ DOMAIN steps = 1 .. n /\ n \in Nat /\ k \in 1 .. n
  /\ ~ steps[k].ok /\ \A j \in 1 .. k - 1 : steps[j].ok

\* A decoder stops at the first step that fails.
LEMMA DecodedFails ==
  ASSUME NEW steps, NEW final, NEW n, NEW k, FailsFirst(steps, n, k)
  PROVE  Decoded(steps, final) = steps[k]
<1> DEFINE First(i) == ~ steps[i].ok /\ \A j \in 1 .. i - 1 : steps[j].ok
           first == CHOOSE i \in DOMAIN steps : First(i)
<1>1. /\ DOMAIN steps = 1 .. n /\ n \in Nat /\ k \in 1 .. n
      /\ First(k)
  BY DEF FailsFirst
<1>2. ASSUME NEW i \in 1 .. n, First(i)
      PROVE  i = k
  <2>1. ~ i < k
    <3> SUFFICES ASSUME i < k
                 PROVE  FALSE
      OBVIOUS
    <3>1. i \in 1 .. k - 1
      BY <1>1
    <3> QED
      BY <1>1, <1>2, <3>1
  <2>2. ~ k < i
    <3> SUFFICES ASSUME k < i
                 PROVE  FALSE
      OBVIOUS
    <3>1. k \in 1 .. i - 1
      BY <1>1
    <3> QED
      BY <1>1, <1>2, <3>1
  <2> QED
    BY <1>1, <2>1, <2>2
<1>3. Decoded(steps, final) = steps[first]
  <2>1. ~ \A i \in DOMAIN steps : steps[i].ok
    BY <1>1
  <2> QED
    BY <2>1, Zenon DEF Decoded
<1> HIDE DEF First
<1>4. first \in 1 .. n /\ First(first)
  BY <1>1, Zenon
<1>5. first = k
  BY <1>2, <1>4, Zenon
<1> QED
  BY <1>3, <1>5, Zenon

\* A field that is not all there.
LEMMA FieldShort ==
  ASSUME NEW S, NEW b \in Seq(S), NEW k \in 0 .. Len(b), NEW size \in Nat, Len(b) < k + size
  PROVE  TooShort(ReadBe(size, From(b, k)))
<1>1. Len(From(b, k)) = Len(b) - k
  BY FromElements
<1>2. Len(From(b, k)) < size
  BY <1>1, LenProperties
<1>3. ReadBe(size, From(b, k)) = Err("kBufferTooShort", From(b, k))
  BY <1>2 DEF ReadBe
<1> QED
  BY <1>3, Zenon DEF TooShort

\* The function code and two words, when they are not all there.
LEMMA FieldsShort ==
  ASSUME NEW code, NEW b \in Seq(Byte), Len(b) >= 1, Len(b) < 5, b[1] = code,
         NEW c, c = ReadCode(b, code), NEW a, a = ReadBe(2, c.rest),
         NEW q, q = ReadBe(2, a.rest)
  PROVE  c.ok /\ (TooShort(a) \/ (a.ok /\ TooShort(q)))
<1>1. Len(b) \in Nat /\ 1 \in 0 .. Len(b)
  BY LenProperties
<1>2. c = Ok(0, From(b, 1))
  BY CodeReadBack
<1>3. c.ok /\ c.rest = From(b, 1)
  BY <1>2, OkIsOk
<1>4. CASE Len(b) < 3
  <2>1. TooShort(ReadBe(2, From(b, 1)))
    BY <1>1, <1>4, FieldShort
  <2> QED
    BY <1>3, <2>1
<1>5. CASE ~ Len(b) < 3
  <2>1. 1 \in 0 .. Len(b) - 2 /\ 3 \in 0 .. Len(b)
    BY <1>1, <1>5
  <2>2. ReadBe(2, From(b, 1)) = Ok(256 * b[1 + 1] + b[1 + 2], From(b, 1 + 2))
    BY <2>1, ReadWord
  <2>3. a.ok /\ a.rest = From(b, 3)
    BY <1>3, <2>2, OkIsOk
  <2>4. TooShort(ReadBe(2, From(b, 3)))
    BY <1>1, <2>1, FieldShort
  <2> QED
    BY <1>3, <2>3, <2>4
<1> QED
  BY <1>4, <1>5

\* An address and a quantity that are not all there.
LEMMA RangeShort ==
  ASSUME NEW code, NEW b \in Seq(Byte), Len(b) >= 1, Len(b) < 5, b[1] = code
  PROVE  TooShort(DeserializeRange(code, b))
<1> DEFINE c == ReadCode(b, code)
           a == ReadBe(2, c.rest)
           q == ReadBe(2, a.rest)
           final == CreateRange(code, a.value, q.value, q.rest)
           steps == <<c, a, q>>
<1>1. DeserializeRange(code, b) = Decoded(steps, final)
  BY Zenon DEF DeserializeRange
<1>2. c.ok /\ (TooShort(a) \/ (a.ok /\ TooShort(q)))
  BY FieldsShort
<1> HIDE DEF c, a, q, final
<1>3. DOMAIN steps = 1 .. 3 /\ steps[1] = c /\ steps[2] = a /\ steps[3] = q
  OBVIOUS
<1> HIDE DEF steps
<1>4. CASE TooShort(a)
  <2>1. FailsFirst(steps, 3, 2)
    BY <1>2, <1>3, <1>4, TooShortIsError DEF FailsFirst
  <2>2. Decoded(steps, final) = steps[2]
    BY <2>1, DecodedFails
  <2> QED
    BY <1>1, <1>3, <1>4, <2>2, Zenon
<1>5. CASE a.ok /\ TooShort(q)
  <2>1. FailsFirst(steps, 3, 3)
    BY <1>2, <1>3, <1>5, TooShortIsError DEF FailsFirst
  <2>2. Decoded(steps, final) = steps[3]
    BY <2>1, DecodedFails
  <2> QED
    BY <1>1, <1>3, <1>5, <2>2, Zenon
<1> QED
  BY <1>2, <1>4, <1>5

\* An address and a value that are not all there.
LEMMA SingleShort ==
  ASSUME NEW code, NEW b \in Seq(Byte), Len(b) >= 1, Len(b) < 5, b[1] = code
  PROVE  TooShort(DeserializeSingle(code, b))
<1> DEFINE c == ReadCode(b, code)
           a == ReadBe(2, c.rest)
           w == ReadBe(2, a.rest)
           v == IF code \in BitCodes THEN CoilFromRaw(w.value, w.rest) ELSE w
           final == CreateSingle(code, a.value, v.value, v.rest)
           steps == <<c, a, w, v>>
<1>1. DeserializeSingle(code, b) = Decoded(steps, final)
  BY Zenon DEF DeserializeSingle
<1>2. c.ok /\ (TooShort(a) \/ (a.ok /\ TooShort(w)))
  BY FieldsShort
<1> HIDE DEF c, a, w, v, final
<1>3. DOMAIN steps = 1 .. 4 /\ steps[1] = c /\ steps[2] = a /\ steps[3] = w
  OBVIOUS
<1> HIDE DEF steps
<1>4. CASE TooShort(a)
  <2>1. FailsFirst(steps, 4, 2)
    BY <1>2, <1>3, <1>4, TooShortIsError DEF FailsFirst
  <2>2. Decoded(steps, final) = steps[2]
    BY <2>1, DecodedFails
  <2> QED
    BY <1>1, <1>3, <1>4, <2>2, Zenon
<1>5. CASE a.ok /\ TooShort(w)
  <2>1. FailsFirst(steps, 4, 3)
    BY <1>2, <1>3, <1>5, TooShortIsError DEF FailsFirst
  <2>2. Decoded(steps, final) = steps[3]
    BY <2>1, DecodedFails
  <2> QED
    BY <1>1, <1>3, <1>5, <2>2, Zenon
<1> QED
  BY <1>2, <1>4, <1>5

\* A write request that lost some of its values, or what announces them.
WriteCut(code, b, n, size) ==
  /\ Len(b) >= 1 /\ Len(b) < 6 + size /\ b[1] = code /\ size = ByteCount(code, n)
  /\ Len(b) >= 5 => /\ n = FieldOf(b, 4) /\ QuantityAllowed(code, n)
                    /\ ~ WouldAddressOverflow(FieldOf(b, 2), n)
  /\ Len(b) >= 6 => b[6] = size

LEMMA WriteShort ==
  ASSUME NEW code, NEW b \in Seq(Byte), NEW n, NEW size \in Nat, WriteCut(code, b, n, size)
  PROVE  TooShort(DeserializeWrite(code, b))
<1> DEFINE c == ReadCode(b, code)
           a == ReadBe(2, c.rest)
           q == ReadBe(2, a.rest)
           k == ReadBe(1, q.rest)
           count == ByteCount(code, q.value)
           r1 == Require(QuantityAllowed(code, q.value), "kInvalidQuantity", q.rest)
           r2 == Require(~ WouldAddressOverflow(a.value, q.value), "kAddressOverflow", q.rest)
           r3 == Require(k.value = count, "kInvalidQuantity", k.rest)
           r4 == Require(Len(k.rest) >= count, "kBufferTooShort", Unread(code, k.rest))
           steps == <<c, a, q, r1, r2, k, r3, r4>>
           final == CreateWrite(code, a.value, Unpack(code, k.rest, q.value), From(k.rest, count))
<1>1. DeserializeWrite(code, b) = Decoded(steps, final)
  BY Zenon DEF DeserializeWrite
<1>2. Len(b) >= 1 /\ b[1] = code /\ Len(b) < 6 + size
  BY DEF WriteCut
<1>3. Len(b) < 5 => c.ok /\ (TooShort(a) \/ (a.ok /\ TooShort(q)))
  BY <1>2, FieldsShort
<1>4. Len(b) >= 5 => FieldsRead(code, b, c, a, q)
  BY <1>2, Fields, Zenon
<1>5. ASSUME Len(b) >= 5
      PROVE  /\ c.ok /\ a.ok /\ q.ok /\ r1.ok /\ r2.ok /\ q.rest = From(b, 5) /\ count = size
             /\ 5 \in 0 .. Len(b)
  <2> HIDE DEF c, a, q
  <2>1. c.ok /\ a = Ok(FieldOf(b, 2), From(b, 3)) /\ q = Ok(FieldOf(b, 4), From(b, 5))
    BY <1>4, <1>5, Zenon DEF FieldsRead
  <2>2. a.ok /\ a.value = FieldOf(b, 2) /\ q.ok /\ q.value = n /\ q.rest = From(b, 5)
    BY <1>5, <2>1, OkIsOk DEF WriteCut
  <2>3. r1 = Ok(0, q.rest)
    BY <1>5, <2>2 DEF WriteCut, Require
  <2>4. r2 = Ok(0, q.rest)
    BY <1>5, <2>2 DEF WriteCut, Require
  <2>5. count = size
    BY <2>2, Zenon DEF WriteCut
  <2>6. 5 \in 0 .. Len(b)
    BY <1>5, LenProperties
  <2> QED
    BY <2>1, <2>2, <2>3, <2>4, <2>5, <2>6, OkIsOk
<1>6. ASSUME Len(b) >= 6
      PROVE  k.ok /\ r3.ok /\ TooShort(r4)
  <2> HIDE DEF c, a, q, count
  <2>1. q.rest = From(b, 5) /\ count = size /\ 5 \in 0 .. Len(b) - 1 /\ 6 \in 0 .. Len(b)
    BY <1>5, <1>6, LenProperties
  <2>2. ReadBe(1, From(b, 5)) = Ok(b[5 + 1], From(b, 5 + 1))
    BY <2>1, ReadByte
  <2>3. k = Ok(size, From(b, 6))
    BY <1>6, <2>1, <2>2 DEF WriteCut
  <2> HIDE DEF k
  <2>4. k.ok /\ k.value = size /\ k.rest = From(b, 6)
    BY <2>3, OkIsOk
  <2>5. r3 = Ok(0, k.rest)
    BY <2>1, <2>4 DEF Require
  <2>6. Len(From(b, 6)) = Len(b) - 6
    BY <2>1, FromElements
  <2>7. ~ Len(k.rest) >= count
    BY <1>2, <2>1, <2>4, <2>6
  <2>8. r4 = Err("kBufferTooShort", Unread(code, k.rest))
    BY <2>7, Zenon DEF Require
  <2>9. r3.ok
    BY <2>5, OkIsOk
  <2> QED
    BY <2>4, <2>8, <2>9, Zenon DEF TooShort
<1>7. ASSUME Len(b) = 5
      PROVE  TooShort(k)
  <2> HIDE DEF c, a, q
  <2>1. q.rest = From(b, 5) /\ 5 \in 0 .. Len(b)
    BY <1>5, <1>7
  <2>2. Len(b) < 5 + 1
    BY <1>7
  <2>3. TooShort(ReadBe(1, From(b, 5)))
    BY <2>1, <2>2, FieldShort
  <2> QED
    BY <2>1, <2>3
<1> HIDE DEF c, a, q, k, count, r1, r2, r3, r4, final
<1>8. /\ DOMAIN steps = 1 .. 8 /\ steps[1] = c /\ steps[2] = a /\ steps[3] = q
      /\ steps[4] = r1 /\ steps[5] = r2 /\ steps[6] = k /\ steps[7] = r3 /\ steps[8] = r4
  OBVIOUS
<1> HIDE DEF steps
<1>9. CASE Len(b) < 5 /\ TooShort(a)
  <2>1. FailsFirst(steps, 8, 2)
    BY <1>3, <1>8, <1>9, TooShortIsError DEF FailsFirst
  <2>2. Decoded(steps, final) = steps[2]
    BY <2>1, DecodedFails
  <2> QED
    BY <1>1, <1>8, <1>9, <2>2, Zenon
<1>10. CASE Len(b) < 5 /\ a.ok /\ TooShort(q)
  <2>1. FailsFirst(steps, 8, 3)
    BY <1>3, <1>8, <1>10, TooShortIsError DEF FailsFirst
  <2>2. Decoded(steps, final) = steps[3]
    BY <2>1, DecodedFails
  <2> QED
    BY <1>1, <1>8, <1>10, <2>2, Zenon
<1>11. CASE Len(b) = 5
  <2>1. c.ok /\ a.ok /\ q.ok /\ r1.ok /\ r2.ok /\ TooShort(k) /\ ~ k.ok
    BY <1>5, <1>7, <1>11, TooShortIsError
  <2>2. FailsFirst(steps, 8, 6)
    BY <1>8, <2>1 DEF FailsFirst
  <2>3. Decoded(steps, final) = steps[6]
    BY <2>2, DecodedFails
  <2> QED
    BY <1>1, <1>8, <2>1, <2>3, Zenon
<1>12. CASE Len(b) >= 6
  <2>1. Len(b) >= 5
    BY <1>12, LenProperties
  <2>2. c.ok /\ a.ok /\ q.ok /\ r1.ok /\ r2.ok /\ k.ok /\ r3.ok /\ TooShort(r4) /\ ~ r4.ok
    BY <1>5, <1>6, <1>12, <2>1, TooShortIsError
  <2>3. FailsFirst(steps, 8, 8)
    BY <1>8, <2>2 DEF FailsFirst
  <2>4. Decoded(steps, final) = steps[8]
    BY <2>3, DecodedFails
  <2> QED
    BY <1>1, <1>8, <2>2, <2>4, Zenon
<1>13. Len(b) < 5 \/ Len(b) = 5 \/ Len(b) >= 6
  <2> DEFINE length == Len(b)
  <2>1. length \in Nat
    BY LenProperties
  <2> HIDE DEF length
  <2>2. length < 5 \/ length = 5 \/ length >= 6
    BY <2>1
  <2> QED
    BY <2>2 DEF length
<1> QED
  BY <1>3, <1>9, <1>10, <1>11, <1>12, <1>13

\* A response that lost some of its values, or what announces them.
ValuesCut(code, b, expected, n, size) ==
  /\ Len(b) >= 1 /\ Len(b) < 2 + size /\ b[1] = code
  /\ size = ContentBytes(code, n) /\ QuantityAllowed(code, n)
  /\ code \in BitCodes => expected = n
  /\ Len(b) >= 2 => b[2] = size

LEMMA ValuesShort ==
  ASSUME NEW code, NEW b \in Seq(Byte), NEW expected, NEW n \in Nat, NEW size \in Nat,
         ValuesCut(code, b, expected, n, size)
  PROVE  TooShort(DeserializeValues(code, b, expected))
<1> DEFINE c == ReadCode(b, code)
           v == ReadBe(1, c.rest)
<1>1. Len(b) >= 1 /\ b[1] = code /\ Len(b) < 2 + size /\ QuantityAllowed(code, n)
  BY DEF ValuesCut
<1>2. c = Ok(0, From(b, 1))
  BY <1>1, CodeReadBack
<1>3. c.ok /\ c.rest = From(b, 1)
  BY <1>2, OkIsOk
<1> HIDE DEF c
<1>4. ASSUME Len(b) = 1
      PROVE  TooShort(v)
  <2>1. 1 \in 0 .. Len(b) /\ Len(b) < 1 + 1
    BY <1>4
  <2>2. TooShort(ReadBe(1, From(b, 1)))
    BY <2>1, FieldShort
  <2> QED
    BY <1>3, <2>2
<1>5. ASSUME Len(b) >= 2
      PROVE  /\ v.ok /\ v.value = size /\ v.rest = From(b, 2)
             /\ ~ Len(v.rest) >= v.value
  <2>1. 1 \in 0 .. Len(b) - 1 /\ 2 \in 0 .. Len(b)
    BY <1>5, LenProperties
  <2>2. ReadBe(1, From(b, 1)) = Ok(b[1 + 1], From(b, 1 + 1))
    BY <2>1, ReadByte
  <2>3. v = Ok(size, From(b, 2))
    BY <1>3, <1>5, <2>2 DEF ValuesCut
  <2>4. v.ok /\ v.value = size /\ v.rest = From(b, 2)
    BY <2>3, OkIsOk
  <2>5. Len(From(b, 2)) = Len(b) - 2
    BY <2>1, FromElements
  <2>6. ~ Len(From(b, 2)) >= size
    BY <1>1, <2>5, LenProperties
  <2> QED
    BY <2>4, <2>6
<1>6. Len(b) = 1 \/ Len(b) >= 2
  <2> DEFINE length == Len(b)
  <2>1. length \in Nat /\ length >= 1
    BY <1>1, LenProperties
  <2> HIDE DEF length
  <2>2. length = 1 \/ length >= 2
    BY <2>1
  <2> QED
    BY <2>2 DEF length
<1>7. CASE code \in BitCodes
  <2> DEFINE r1 == Require(QuantityAllowed(code, expected), "kInvalidQuantity", v.rest)
             r2 == Require(v.value = BitsToBytes(expected), "kInvalidValue", v.rest)
             r3 == Require(Len(v.rest) >= v.value, "kBufferTooShort", Unread(code, v.rest))
             steps == <<c, v, r1, r2, r3>>
             final == CreateValues(code, BitsOf(v.rest, expected), From(v.rest, v.value))
  <2> HIDE DEF v
  <2>1. DeserializeValues(code, b, expected) = Decoded(steps, final)
    BY <1>7, Zenon DEF DeserializeValues, DeserializeBits, c, v
  <2>2. ASSUME Len(b) >= 2
        PROVE  r1.ok /\ r2.ok /\ TooShort(r3)
    <3>1. expected = n /\ QuantityAllowed(code, expected)
      BY <1>1, <1>7 DEF ValuesCut
    <3>2. v.value = BitsToBytes(expected)
      BY <1>5, <1>7, <2>2, <3>1 DEF ValuesCut, ContentBytes
    <3>3. r1 = Ok(0, v.rest) /\ r2 = Ok(0, v.rest)
      BY <3>1, <3>2 DEF Require
    <3>4. r3 = Err("kBufferTooShort", Unread(code, v.rest))
      BY <1>5, <2>2, Zenon DEF Require
    <3>5. r1.ok /\ r2.ok
      BY <3>3, OkIsOk
    <3> QED
      BY <3>4, <3>5, Zenon DEF TooShort
  <2> HIDE DEF r1, r2, r3, final
  <2>3. /\ DOMAIN steps = 1 .. 5 /\ steps[1] = c /\ steps[2] = v
        /\ steps[3] = r1 /\ steps[4] = r2 /\ steps[5] = r3
    OBVIOUS
  <2> HIDE DEF steps
  <2>4. CASE Len(b) = 1
    <3>1. c.ok /\ ~ v.ok
      BY <1>3, <1>4, <2>4, TooShortIsError
    <3>2. FailsFirst(steps, 5, 2)
      BY <2>3, <3>1 DEF FailsFirst
    <3>3. Decoded(steps, final) = steps[2]
      BY <3>2, DecodedFails
    <3> QED
      BY <1>4, <2>1, <2>3, <2>4, <3>3, Zenon
  <2>5. CASE Len(b) >= 2
    <3>1. c.ok /\ v.ok /\ r1.ok /\ r2.ok /\ TooShort(r3) /\ ~ r3.ok
      BY <1>3, <1>5, <2>2, <2>5, TooShortIsError
    <3>2. FailsFirst(steps, 5, 5)
      BY <2>3, <3>1 DEF FailsFirst
    <3>3. Decoded(steps, final) = steps[5]
      BY <3>2, DecodedFails
    <3> QED
      BY <2>1, <2>3, <3>1, <3>3, Zenon
  <2> QED
    BY <1>6, <2>4, <2>5
<1>8. CASE code \notin BitCodes
  <2> DEFINE count == v.value \div 2
             r1 == Require(v.value % 2 = 0, "kInvalidValue", v.rest)
             r2 == Require(QuantityAllowed(code, count), "kInvalidQuantity", v.rest)
             r3 == Require(Len(v.rest) >= v.value, "kBufferTooShort", Unread(code, v.rest))
             steps == <<c, v, r1, r2, r3>>
             final == CreateValues(code, WordsOf(v.rest, count), From(v.rest, v.value))
  <2> HIDE DEF v
  <2>1. DeserializeValues(code, b, expected) = Decoded(steps, final)
    BY <1>8, Zenon DEF DeserializeValues, DeserializeRegisters, c, v
  <2>2. ASSUME Len(b) >= 2
        PROVE  r1.ok /\ r2.ok /\ TooShort(r3)
    <3>1. v.value = 2 * n
      BY <1>5, <1>8, <2>2 DEF ValuesCut, ContentBytes
    <3>2. v.value % 2 = 0 /\ count = n
      BY <3>1
    <3> HIDE DEF count
    <3>3. r1 = Ok(0, v.rest) /\ r2 = Ok(0, v.rest)
      BY <1>1, <3>2 DEF Require
    <3>4. r3 = Err("kBufferTooShort", Unread(code, v.rest))
      BY <1>5, <2>2, Zenon DEF Require
    <3>5. r1.ok /\ r2.ok
      BY <3>3, OkIsOk
    <3> QED
      BY <3>4, <3>5, Zenon DEF TooShort
  <2> HIDE DEF r1, r2, r3, final
  <2>3. /\ DOMAIN steps = 1 .. 5 /\ steps[1] = c /\ steps[2] = v
        /\ steps[3] = r1 /\ steps[4] = r2 /\ steps[5] = r3
    OBVIOUS
  <2> HIDE DEF steps
  <2>4. CASE Len(b) = 1
    <3>1. c.ok /\ ~ v.ok
      BY <1>3, <1>4, <2>4, TooShortIsError
    <3>2. FailsFirst(steps, 5, 2)
      BY <2>3, <3>1 DEF FailsFirst
    <3>3. Decoded(steps, final) = steps[2]
      BY <3>2, DecodedFails
    <3> QED
      BY <1>4, <2>1, <2>3, <2>4, <3>3, Zenon
  <2>5. CASE Len(b) >= 2
    <3>1. c.ok /\ v.ok /\ r1.ok /\ r2.ok /\ TooShort(r3) /\ ~ r3.ok
      BY <1>3, <1>5, <2>2, <2>5, TooShortIsError
    <3>2. FailsFirst(steps, 5, 5)
      BY <2>3, <3>1 DEF FailsFirst
    <3>3. Decoded(steps, final) = steps[5]
      BY <3>2, DecodedFails
    <3> QED
      BY <2>1, <2>3, <3>1, <3>3, Zenon
  <2> QED
    BY <1>6, <2>4, <2>5
<1> QED
  BY <1>7, <1>8

\* The first k bytes of a buffer.
LEMMA FirstBytesOf ==
  ASSUME NEW b \in Seq(Byte), NEW k \in 1 .. Len(b)
  PROVE  /\ SubSeq(b, 1, k) \in Seq(Byte) /\ Len(SubSeq(b, 1, k)) = k
         /\ \A i \in 1 .. k : SubSeq(b, 1, k)[i] = b[i]
<1>1. \A i \in 1 .. Len(b) : b[i] \in Byte
  BY BytesOf
<1>2. k \in Int /\ 1 \in Int /\ \A i \in 1 .. k : b[i] \in Byte
  BY <1>1, LenProperties
<1>3. /\ SubSeq(b, 1, k) \in Seq(Byte)
      /\ Len(SubSeq(b, 1, k)) = IF 1 <= k THEN k - 1 + 1 ELSE 0
      /\ \A i \in 1 .. k - 1 + 1 : SubSeq(b, 1, k)[i] = b[1 + i - 1]
  BY <1>2, SubSeqProperties
<1> QED
  BY <1>3

\* A reader that left nothing took everything.
LEMMA NothingLeft ==
  ASSUME NEW b \in Seq(Byte), NEW k \in Nat, k <= Len(b), From(b, k) = <<>>
  PROVE  Len(b) = k
<1>1. Len(From(b, k)) = Len(b) - k
  BY FromElements, LenProperties
<1>2. Len(From(b, k)) = 0
  BY EmptySeq
<1> QED
  BY <1>1, <1>2, LenProperties

\* What is accepted and takes the whole of a buffer is too short in any beginning
\* of it.
Cuttable(b, k) == b \in Seq(Byte) /\ k \in 1 .. Len(b) - 1

LEMMA RangeCut ==
  ASSUME NEW code, NEW b, NEW k, Cuttable(b, k),
         DeserializeRange(code, b).ok, DeserializeRange(code, b).rest = <<>>
  PROVE  TooShort(DeserializeRange(code, SubSeq(b, 1, k)))
<1>1. b \in Seq(Byte) /\ k \in 1 .. Len(b) - 1 /\ k \in 1 .. Len(b)
  BY LenProperties DEF Cuttable
<1>2. /\ Len(b) >= 5 /\ b[1] = code
      /\ DeserializeRange(code, b) =
           Ok([address |-> FieldOf(b, 2), quantity |-> FieldOf(b, 4)], From(b, 5))
  BY <1>1, RangeReading
<1>3. From(b, 5) = <<>>
  BY <1>2, OkIsOk
<1>4. Len(b) = 5
  BY <1>1, <1>2, <1>3, NothingLeft
<1>5. PICK d : d = SubSeq(b, 1, k)
  OBVIOUS
<1>6. d \in Seq(Byte) /\ Len(d) = k /\ \A i \in 1 .. k : d[i] = b[i]
  BY <1>1, <1>5, FirstBytesOf
<1>7. Len(d) >= 1 /\ Len(d) < 5 /\ d[1] = code
  BY <1>1, <1>2, <1>4, <1>6
<1> QED
  BY <1>5, <1>6, <1>7, RangeShort

\* The same for an address and a value.
LEMMA SingleCut ==
  ASSUME NEW code, NEW b, NEW k, Cuttable(b, k),
         DeserializeSingle(code, b).ok, DeserializeSingle(code, b).rest = <<>>
  PROVE  TooShort(DeserializeSingle(code, SubSeq(b, 1, k)))
<1>1. b \in Seq(Byte) /\ k \in 1 .. Len(b) - 1 /\ k \in 1 .. Len(b)
  BY LenProperties DEF Cuttable
<1>2. /\ Len(b) >= 5 /\ b[1] = code
      /\ DeserializeSingle(code, b) =
           Ok([address |-> FieldOf(b, 2), value |-> ValueOf(code, b)], From(b, 5))
  BY <1>1, SingleReading
<1>3. From(b, 5) = <<>>
  BY <1>2, OkIsOk
<1>4. Len(b) = 5
  BY <1>1, <1>2, <1>3, NothingLeft
<1>5. PICK d : d = SubSeq(b, 1, k)
  OBVIOUS
<1>6. d \in Seq(Byte) /\ Len(d) = k /\ \A i \in 1 .. k : d[i] = b[i]
  BY <1>1, <1>5, FirstBytesOf
<1>7. Len(d) >= 1 /\ Len(d) < 5 /\ d[1] = code
  BY <1>1, <1>2, <1>4, <1>6
<1> QED
  BY <1>5, <1>6, <1>7, SingleShort

\* For a write request.
LEMMA WriteIsCut ==
  ASSUME NEW code \in WriteMultipleCodes, NEW b, NEW k, Cuttable(b, k),
         DeserializeWrite(code, b).ok, DeserializeWrite(code, b).rest = <<>>
  PROVE  TooShort(DeserializeWrite(code, SubSeq(b, 1, k)))
<1>1. b \in Seq(Byte) /\ k \in 1 .. Len(b) - 1 /\ k \in 1 .. Len(b)
  BY LenProperties DEF Cuttable
<1>2. PICK n \in Word, size \in Nat : WriteBegin(code, b, n, size)
  BY <1>1, WriteTaken
<1>3. n \in Nat
  BY WordIsNat, Zenon
<1>4. /\ Len(b) >= 6 + size /\ b[1] = code
      /\ n = FieldOf(b, 4) /\ size = ByteCount(code, n) /\ b[6] = size
      /\ QuantityAllowed(code, n) /\ ~ WouldAddressOverflow(FieldOf(b, 2), n)
  BY <1>2 DEF WriteBegin
<1>5. PICK v : DeserializeWrite(code, b) =
                 Ok([address |-> FieldOf(b, 2), values |-> v], From(b, 6 + size))
  <2>1. WriteReadingOf(code, b, n, size, Unpack(code, From(b, 6), n))
    BY <1>1, <1>2, <1>3, WriteReading
  <2> QED
    BY <2>1 DEF WriteReadingOf
<1>6. From(b, 6 + size) = <<>>
  BY <1>5, OkIsOk
<1>7. Len(b) = 6 + size
  BY <1>1, <1>4, <1>6, NothingLeft
<1>8. PICK d : d = SubSeq(b, 1, k)
  OBVIOUS
<1>9. d \in Seq(Byte) /\ Len(d) = k /\ \A i \in 1 .. k : d[i] = b[i]
  BY <1>1, <1>8, FirstBytesOf
<1>10. Len(d) >= 1 /\ Len(d) < 6 + size /\ d[1] = code
  BY <1>1, <1>4, <1>7, <1>9
<1>11. Len(d) >= 5 => FieldOf(d, 2) = FieldOf(b, 2) /\ FieldOf(d, 4) = FieldOf(b, 4)
  <2> SUFFICES ASSUME Len(d) >= 5
               PROVE  FieldOf(d, 2) = FieldOf(b, 2) /\ FieldOf(d, 4) = FieldOf(b, 4)
    OBVIOUS
  <2>1. d[2] = b[2] /\ d[3] = b[3] /\ d[4] = b[4] /\ d[5] = b[5]
    BY <1>9
  <2> QED
    BY <2>1 DEF FieldOf
<1>12. Len(d) >= 6 => d[6] = size
  BY <1>4, <1>9
<1>13. WriteCut(code, d, n, size)
  BY <1>4, <1>10, <1>11, <1>12 DEF WriteCut
<1> QED
  BY <1>8, <1>9, <1>13, WriteShort

\* For values.
LEMMA ValuesAreCut ==
  ASSUME NEW code, NEW expected \in Nat, NEW b, NEW k, Cuttable(b, k),
         DeserializeValues(code, b, expected).ok, DeserializeValues(code, b, expected).rest = <<>>
  PROVE  TooShort(DeserializeValues(code, SubSeq(b, 1, k), expected))
<1>1. b \in Seq(Byte) /\ k \in 1 .. Len(b) - 1 /\ k \in 1 .. Len(b)
  BY LenProperties DEF Cuttable
<1>2. PICK n \in Nat, size \in Nat : ValuesBegin(code, b, expected, n, size)
  BY <1>1, ValuesTaken
<1>3. /\ Len(b) >= 2 + size /\ b[1] = code
      /\ size = ContentBytes(code, n) /\ b[2] = size
      /\ QuantityAllowed(code, n)
      /\ code \in BitCodes => expected = n
  BY <1>2 DEF ValuesBegin
<1>4. PICK v : DeserializeValues(code, b, expected) = Ok([values |-> v], From(b, 2 + size))
  <2>1. ValuesOut(code, b, expected, n, size, Unpack(code, From(b, 2), n))
    BY <1>1, <1>2, ValuesAccepted
  <2> QED
    BY <2>1 DEF ValuesOut
<1>5. From(b, 2 + size) = <<>>
  BY <1>4, OkIsOk
<1>6. Len(b) = 2 + size
  BY <1>1, <1>3, <1>5, NothingLeft
<1>7. PICK d : d = SubSeq(b, 1, k)
  OBVIOUS
<1>8. d \in Seq(Byte) /\ Len(d) = k /\ \A i \in 1 .. k : d[i] = b[i]
  BY <1>1, <1>7, FirstBytesOf
<1>9. /\ Len(d) >= 1 /\ Len(d) < 2 + size /\ d[1] = code
      /\ Len(d) >= 2 => d[2] = size
  BY <1>1, <1>3, <1>6, <1>8
<1>10. ValuesCut(code, d, expected, n, size)
  BY <1>3, <1>9 DEF ValuesCut
<1> QED
  BY <1>7, <1>8, <1>10, ValuesShort

\* For an exception.
LEMMA ErrorCut ==
  ASSUME NEW b, NEW k, Cuttable(b, k),
         DeserializeError(b).ok, DeserializeError(b).rest = <<>>
  PROVE  TooShort(DeserializeError(SubSeq(b, 1, k)))
<1>1. b \in Seq(Byte) /\ k \in 1 .. Len(b) - 1 /\ k \in 1 .. Len(b)
  BY LenProperties DEF Cuttable
<1>2. /\ Len(b) >= 2
      /\ DeserializeError(b) =
           Ok([code |-> ToNormalFunctionCode(b[1]), exception |-> b[2]], From(b, 2))
  BY <1>1, ErrorReading
<1>3. From(b, 2) = <<>>
  BY <1>2, OkIsOk
<1>4. Len(b) = 2
  BY <1>1, <1>2, <1>3, NothingLeft
<1>5. PICK d : d = SubSeq(b, 1, k)
  OBVIOUS
<1>6. Len(d) = k
  BY <1>1, <1>5, FirstBytesOf
<1>7. Len(d) < 2
  BY <1>1, <1>4, <1>6
<1>8. DeserializeError(d) = Err("kBufferTooShort", d)
  BY <1>7, Zenon DEF DeserializeError
<1> QED
  BY <1>5, <1>8, Zenon DEF TooShort

\* A message there is to write that lost its end.
LEMMA SampleCut ==
  ASSUME NEW x \in Samples, NEW k \in 1 .. Len(Encoded(x)) - 1
  PROVE  TooShort(Deserialize(x.kind, x.code, Expected(x), SubSeq(Encoded(x), 1, k)))
<1>1. PICK b : b = Encoded(x)
  OBVIOUS
<1>2. Creatable(x) /\ ReadWhole(x)
  BY SamplesAssumption, SampleWhole
<1>3. Cuttable(b, k)
  BY <1>1, <1>2 DEF ReadWhole, Cuttable
<1>4. Deserialize(x.kind, x.code, Expected(x), b) = Ok(x.content, <<>>)
  <2>1. b \in Seq(Byte) /\ \A tail \in Seq(Byte) :
          Deserialize(x.kind, x.code, Expected(x), b \o tail) = Ok(x.content, tail)
    BY <1>1, <1>2 DEF ReadWhole
  <2>2. <<>> \in Seq(Byte) /\ b \o <<>> = b
    BY <2>1, NothingBehind
  <2> QED
    BY <2>1, <2>2, Zenon
<1>5. PICK whole : whole = Deserialize(x.kind, x.code, Expected(x), b)
  OBVIOUS
<1>6. whole.ok /\ whole.rest = <<>>
  BY <1>4, <1>5, OkIsOk
<1>7. CASE x.kind = "range"
  <2>1. \A d : Deserialize(x.kind, x.code, Expected(x), d) = DeserializeRange(x.code, d)
    BY <1>7 DEF Deserialize
  <2>2. TooShort(DeserializeRange(x.code, SubSeq(b, 1, k)))
    BY <1>3, <1>5, <1>6, <2>1, RangeCut
  <2> QED
    BY <1>1, <2>1, <2>2, Zenon
<1>8. CASE x.kind = "single"
  <2>1. \A d : Deserialize(x.kind, x.code, Expected(x), d) = DeserializeSingle(x.code, d)
    BY <1>8 DEF Deserialize
  <2>2. TooShort(DeserializeSingle(x.code, SubSeq(b, 1, k)))
    BY <1>3, <1>5, <1>6, <2>1, SingleCut
  <2> QED
    BY <1>1, <2>1, <2>2, Zenon
<1>9. CASE x.kind = "write"
  <2>1. \A d : Deserialize(x.kind, x.code, Expected(x), d) = DeserializeWrite(x.code, d)
    BY <1>9 DEF Deserialize
  <2>2. x.code \in WriteMultipleCodes
    BY <1>2, <1>9 DEF Creatable, CodesOf
  <2>3. TooShort(DeserializeWrite(x.code, SubSeq(b, 1, k)))
    BY <1>3, <1>5, <1>6, <2>1, <2>2, WriteIsCut
  <2> QED
    BY <1>1, <2>1, <2>3, Zenon
<1>10. CASE x.kind = "values"
  <2>1. \A d : Deserialize(x.kind, x.code, Expected(x), d) =
                 DeserializeValues(x.code, d, Expected(x))
    BY <1>10 DEF Deserialize
  <2>2. Expected(x) \in Nat
    <3>1. x.content \in [values : Seq(IF x.code \in BitCodes THEN Coil ELSE Word)]
      BY <1>2, <1>10 DEF Creatable
    <3>2. x.content.values \in Seq(IF x.code \in BitCodes THEN Coil ELSE Word)
      BY <3>1
    <3>3. Len(x.content.values) \in Nat
      BY <3>2, LenProperties
    <3> QED
      BY <1>10, <3>3 DEF Expected
  <2>3. TooShort(DeserializeValues(x.code, SubSeq(b, 1, k), Expected(x)))
    BY <1>3, <1>5, <1>6, <2>1, <2>2, ValuesAreCut
  <2> QED
    BY <1>1, <2>1, <2>3, Zenon
<1>11. CASE x.kind = "error"
  <2>1. \A d : Deserialize(x.kind, x.code, Expected(x), d) = DeserializeError(d)
    BY <1>11 DEF Deserialize
  <2>2. TooShort(DeserializeError(SubSeq(b, 1, k)))
    BY <1>3, <1>5, <1>6, <2>1, ErrorCut
  <2> QED
    BY <1>1, <2>1, <2>2, Zenon
<1> QED
  BY <1>2, <1>7, <1>8, <1>9, <1>10, <1>11 DEF Creatable

----------------------------------------------------------------------------
(***************************************************************************)
(* Messages behind each other.                                             *)
(***************************************************************************)

\* The messages q, the last of them cut down to k of its bytes.
CutTo(b, p, x, k) ==
  /\ p \in Seq(Samples) /\ x \in Samples /\ k \in 1 .. Len(Encoded(x)) - 1
  /\ b = BytesOfAll(p) \o SubSeq(Encoded(x), 1, k)

\* The buffer holds the messages not yet read, the last perhaps without its end.
Held ==
  /\ queue \in Seq(Samples)
  /\ ~ cut => stream = BytesOfAll(queue)
  /\ cut /\ queue # <<>> =>
       \E p, x, k : queue = Append(p, x) /\ CutTo(stream, p, x, k)

CodecInv == Held /\ ReadBack

\* What is written are bytes.
LEMMA SamplesAreBytes == \A x \in Samples : Encoded(x) \in Seq(Byte)
BY SampleWhole DEF ReadWhole

\* What a read of the first message makes of the buffer.
LEMMA FirstRead ==
  ASSUME NEW q \in Seq(Samples), q # <<>>, NEW tail \in Seq(Byte)
  PROVE  LET x == Head(q)
             r == Deserialize(x.kind, x.code, Expected(x), Encoded(x) \o tail)
         IN  r.ok /\ r.value = x.content /\ r.rest = tail
<1>1. Head(q) \in Samples
  BY HeadTailProperties
<1>2. PICK x : x = Head(q)
  OBVIOUS
<1>3. ReadWhole(x)
  BY <1>1, <1>2, SampleWhole
<1>4. Deserialize(x.kind, x.code, Expected(x), Encoded(x) \o tail) = Ok(x.content, tail)
  BY <1>3 DEF ReadWhole
<1> QED
  BY <1>2, <1>4, OkIsOk

\* A cut leaves the messages before the last and the beginning of it.
LEMMA CutLast ==
  ASSUME NEW s \in Seq(Byte), NEW t \in Seq(Byte), NEW n \in Nat, n # 0, n < Len(t)
  PROVE  /\ Len(t) - n \in 1 .. Len(t) - 1
         /\ SubSeq(s \o t, 1, Len(s \o t) - n) = s \o SubSeq(t, 1, Len(t) - n)
<1> DEFINE k == Len(t) - n
<1>1. Len(s) \in Nat /\ Len(t) \in Nat
  BY LenProperties
<1>2. k \in 1 .. Len(t) - 1 /\ k \in 1 .. Len(t)
  BY <1>1
<1> HIDE DEF k
<1>3. PICK part : part = SubSeq(t, 1, k)
  OBVIOUS
<1>4. part \in Seq(Byte) /\ Len(part) = k /\ \A i \in 1 .. k : part[i] = t[i]
  BY <1>2, <1>3, FirstBytesOf
<1>5. PICK both : both = s \o t
  OBVIOUS
<1>6. /\ both \in Seq(Byte) /\ Len(both) = Len(s) + Len(t)
      /\ \A i \in 1 .. Len(s) : both[i] = s[i]
      /\ \A i \in 1 .. Len(t) : both[Len(s) + i] = t[i]
  BY <1>5, Joined
<1>7. PICK joined : joined = s \o part
  OBVIOUS
<1>8. /\ joined \in Seq(Byte) /\ Len(joined) = Len(s) + k
      /\ \A i \in 1 .. Len(s) : joined[i] = s[i]
      /\ \A i \in 1 .. k : joined[Len(s) + i] = part[i]
  BY <1>4, <1>7, Joined
<1>9. PICK m : m = Len(s) + k
  OBVIOUS
<1>10. m \in 1 .. Len(both)
  BY <1>1, <1>2, <1>6, <1>9
<1>11. PICK first : first = SubSeq(both, 1, m)
  OBVIOUS
<1>12. first \in Seq(Byte) /\ Len(first) = m /\ \A i \in 1 .. m : first[i] = both[i]
  BY <1>6, <1>10, <1>11, FirstBytesOf
<1>13. ASSUME NEW i \in 1 .. m
       PROVE  first[i] = joined[i]
  <2>1. CASE i <= Len(s)
    <3>1. i \in 1 .. Len(s)
      BY <1>1, <1>2, <1>9, <2>1
    <3> QED
      BY <1>6, <1>8, <1>12, <3>1
  <2>2. CASE ~ i <= Len(s)
    <3>1. PICK j : j = i - Len(s)
      OBVIOUS
    <3>2. j \in 1 .. k /\ j \in 1 .. Len(t) /\ i = Len(s) + j
      BY <1>1, <1>2, <1>9, <2>2, <3>1
    <3>3. first[i] = t[j]
      BY <1>6, <1>12, <3>2
    <3>4. joined[i] = t[j]
      BY <1>4, <1>8, <3>2
    <3> QED
      BY <3>3, <3>4
  <2> QED
    BY <2>1, <2>2
<1>14. first = joined
  BY <1>8, <1>9, <1>12, <1>13, SameElements
<1>15. Len(both) - n = m
  BY <1>1, <1>6, <1>9 DEF k
<1> QED
  BY <1>2, <1>3, <1>5, <1>7, <1>11, <1>14, <1>15, Zenon DEF k

\* Messages that were written.
LEMMA Holds ==
  ASSUME NEW q \in Seq(Samples)
  PROVE  BytesOfAll(q) \in Seq(Byte)
BY AllAreBytes, SamplesAreBytes

\* At first nothing was written.
LEMMA InitHeld == CodecInit => CodecInv
<1> SUFFICES ASSUME CodecInit
             PROVE  CodecInv
  OBVIOUS
<1>1. stream = <<>> /\ queue = <<>> /\ last = NoRead /\ cut = FALSE
  BY DEF CodecInit
<1>2. Held
  BY <1>1, AllOfNone, EmptySeq DEF Held
<1>3. ReadBack
  BY <1>1 DEF ReadBack, NoRead
<1> QED
  BY <1>2, <1>3 DEF CodecInv

\* A write puts its message behind the others, or nothing at all.
LEMMA WriteHolds ==
  ASSUME CodecInv, NEW x \in Samples, Write(x)
  PROVE  CodecInv'
<1>1. ~ cut /\ UNCHANGED <<last, cut>>
  BY DEF Write
<1>2. queue \in Seq(Samples) /\ stream = BytesOfAll(queue)
  BY <1>1 DEF CodecInv, Held
<1>3. \/ stream' = stream \o Encoded(x) /\ queue' = Append(queue, x)
      \/ UNCHANGED <<stream, queue>>
  <2> DEFINE s == Serialize(Encoded(x), Room - Len(stream))
  <2>1. \/ s.ok /\ stream' = stream \o s.value /\ queue' = Append(queue, x)
        \/ UNCHANGED <<stream, queue>>
    BY Zenon DEF Write
  <2>2. s = Err("kBufferTooShort", Encoded(x)) \/ s = Ok(Encoded(x), <<>>)
    BY Zenon DEF Serialize
  <2> HIDE DEF s
  <2>3. s.ok => s.value = Encoded(x)
    BY <2>2, OkIsOk, ErrIsNot
  <2> QED
    BY <2>1, <2>3, Zenon
<1>4. queue' \in Seq(Samples) /\ stream' = BytesOfAll(queue')
  <2>1. CASE stream' = stream \o Encoded(x) /\ queue' = Append(queue, x)
    <3>1. BytesOfAll(Append(queue, x)) = BytesOfAll(queue) \o Encoded(x)
      BY <1>2, AllOfMore, SamplesAreBytes
    <3>2. Append(queue, x) \in Seq(Samples)
      BY <1>2, AppendProperties
    <3> QED
      BY <1>2, <2>1, <3>1, <3>2, Zenon
  <2>2. CASE UNCHANGED <<stream, queue>>
    BY <1>2, <2>2, Zenon
  <2> QED
    BY <1>3, <2>1, <2>2
<1>5. Held'
  BY <1>1, <1>4 DEF Held
<1>6. ReadBack'
  <2>1. last.done => last.got.ok /\ last.got.value = last.want.content
    BY <1>1 DEF CodecInv, ReadBack
  <2> QED
    BY <1>1, <2>1 DEF ReadBack
<1> QED
  BY <1>5, <1>6 DEF CodecInv

\* A read takes the first message, or finds that the only one left lost its end.
LEMMA ReadHolds ==
  ASSUME CodecInv, Read
  PROVE  CodecInv'
<1> DEFINE x == Head(queue)
           r == Deserialize(x.kind, x.code, Expected(x), stream)
<1>1. /\ queue # <<>> /\ UNCHANGED cut
      /\ last' = [done |-> TRUE, want |-> x, got |-> r]
      /\ IF r.ok THEN stream' = r.rest /\ queue' = Tail(queue)
         ELSE stream' = <<>> /\ queue' = <<>>
  BY Zenon DEF Read
<1>2. queue \in Seq(Samples)
  BY DEF CodecInv, Held
<1>3. Head(queue) \in Samples /\ Tail(queue) \in Seq(Samples)
  BY <1>1, <1>2, HeadTailProperties
<1>4. ASSUME NEW tail \in Seq(Byte), stream = Encoded(Head(queue)) \o tail
      PROVE  r.ok /\ r.value = x.content /\ r.rest = tail
  BY <1>1, <1>2, <1>4, FirstRead, Zenon
<1>5. last'.done /\ last'.got = r /\ last'.want = x
  BY <1>1
<1>6. CASE ~ cut
  <2>1. stream = Encoded(Head(queue)) \o BytesOfAll(Tail(queue))
    BY <1>1, <1>2, <1>6, AllByHead, SamplesAreBytes DEF CodecInv, Held
  <2>2. BytesOfAll(Tail(queue)) \in Seq(Byte)
    BY <1>3, Holds
  <2>3. r.ok /\ r.value = x.content /\ r.rest = BytesOfAll(Tail(queue))
    BY <1>4, <2>1, <2>2, Zenon
  <2> HIDE DEF r, x
  <2>4. stream' = BytesOfAll(queue') /\ queue' \in Seq(Samples) /\ ~ cut'
    BY <1>1, <1>3, <1>6, <2>3
  <2>5. Held'
    BY <2>4, Zenon DEF Held
  <2>6. ReadBack'
    BY <1>5, <2>3, Zenon DEF ReadBack
  <2> QED
    BY <2>5, <2>6 DEF CodecInv
<1>7. CASE cut
  <2>1. PICK p, l, k : queue = Append(p, l) /\ CutTo(stream, p, l, k)
    BY <1>1, <1>7 DEF CodecInv, Held
  <2>2. /\ p \in Seq(Samples) /\ l \in Samples /\ k \in 1 .. Len(Encoded(l)) - 1
        /\ stream = BytesOfAll(p) \o SubSeq(Encoded(l), 1, k)
    BY <2>1 DEF CutTo
  <2>3. PICK part : part = SubSeq(Encoded(l), 1, k)
    OBVIOUS
  <2>4. part \in Seq(Byte)
    <3>1. Encoded(l) \in Seq(Byte)
      BY <2>2, SamplesAreBytes
    <3>2. k \in 1 .. Len(Encoded(l))
      BY <2>2, <3>1, LenProperties
    <3> QED
      BY <2>3, <3>1, <3>2, FirstBytesOf
  <2>5. CASE p = <<>>
    <3>1. Head(queue) = l
      BY <2>1, <2>2, <2>5, HeadTailAppend
    <3>2. stream = part
      BY <2>2, <2>3, <2>4, <2>5, AllOfNone, ConcatEmptySeq
    <3>3. TooShort(Deserialize(l.kind, l.code, Expected(l), part))
      BY <2>2, <2>3, SampleCut
    <3>4. ~ r.ok /\ r.error = "kBufferTooShort"
      BY <3>1, <3>2, <3>3, TooShortIsError, Zenon
    <3> HIDE DEF r, x
    <3>5. stream' = <<>> /\ queue' = <<>> /\ cut'
      BY <1>1, <1>7, <3>4
    <3>6. Held'
      BY <3>5, EmptySeq DEF Held
    <3>7. ReadBack'
      BY <1>5, <3>4, <3>5, Zenon DEF ReadBack
    <3> QED
      BY <3>6, <3>7 DEF CodecInv
  <2>6. CASE p # <<>>
    <3>1. Head(queue) = Head(p) /\ Tail(queue) = Append(Tail(p), l)
      BY <2>1, <2>2, <2>6, HeadTailAppend
    <3>2. Head(p) \in Samples /\ Tail(p) \in Seq(Samples)
      BY <2>2, <2>6, HeadTailProperties
    <3>3. BytesOfAll(p) = Encoded(Head(p)) \o BytesOfAll(Tail(p))
      BY <2>2, <2>6, AllByHead, SamplesAreBytes
    <3>4. Encoded(Head(p)) \in Seq(Byte) /\ BytesOfAll(Tail(p)) \in Seq(Byte)
      BY <3>2, Holds, SamplesAreBytes
    <3>5. (Encoded(Head(p)) \o BytesOfAll(Tail(p))) \o part =
            Encoded(Head(p)) \o (BytesOfAll(Tail(p)) \o part)
      BY <2>4, <3>4, OfThree, Zenon
    <3>6. stream = Encoded(Head(queue)) \o (BytesOfAll(Tail(p)) \o part)
      BY <2>2, <2>3, <3>1, <3>3, <3>5, Zenon
    <3>7. BytesOfAll(Tail(p)) \o part \in Seq(Byte)
      BY <2>4, <3>4, ConcatProperties
    <3>8. r.ok /\ r.value = x.content /\ r.rest = BytesOfAll(Tail(p)) \o part
      BY <1>4, <3>6, <3>7, Zenon
    <3> HIDE DEF r, x
    <3>9. stream' = BytesOfAll(Tail(p)) \o part /\ queue' = Append(Tail(p), l) /\ cut'
      BY <1>1, <1>7, <3>1, <3>8, Zenon
    <3>10. CutTo(stream', Tail(p), l, k)
      BY <2>2, <2>3, <3>2, <3>9, Zenon DEF CutTo
    <3>11. queue' \in Seq(Samples)
      BY <1>3, <3>1, <3>9, Zenon
    <3>12. Held'
      BY <3>9, <3>10, <3>11, Zenon DEF Held
    <3>13. ReadBack'
      BY <1>5, <3>8, Zenon DEF ReadBack
    <3> QED
      BY <3>12, <3>13 DEF CodecInv
  <2> QED
    BY <2>5, <2>6
<1> QED
  BY <1>6, <1>7

\* A cut takes the end of the last message.
LEMMA CutHolds ==
  ASSUME CodecInv, NEW n \in Losses, Cut(n)
  PROVE  CodecInv'
<1>1. /\ ~ cut /\ queue # <<>> /\ n < Len(Encoded(Last(queue))) /\ cut' = TRUE
      /\ stream' = SubSeq(stream, 1, Len(stream) - n) /\ UNCHANGED <<queue, last>>
  BY DEF Cut
<1>2. queue \in Seq(Samples) /\ stream = BytesOfAll(queue)
  BY <1>1 DEF CodecInv, Held
<1>3. PICK p \in Seq(Samples), l \in Samples : queue = Append(p, l)
  BY <1>1, <1>2, SequenceEmptyOrAppend
<1>4. Last(queue) = l
  BY <1>3, AppendProperties, LenProperties DEF Last
<1>5. stream = BytesOfAll(p) \o Encoded(l)
  BY <1>2, <1>3, AllOfMore, SamplesAreBytes
<1>6. BytesOfAll(p) \in Seq(Byte) /\ Encoded(l) \in Seq(Byte)
  BY <1>3, Holds, SamplesAreBytes
<1>7. n \in Nat /\ n # 0
  BY CodecAssumption
<1>8. PICK k : k = Len(Encoded(l)) - n
  OBVIOUS
<1>9. k \in 1 .. Len(Encoded(l)) - 1 /\ stream' = BytesOfAll(p) \o SubSeq(Encoded(l), 1, k)
  BY <1>1, <1>4, <1>5, <1>6, <1>7, <1>8, CutLast
<1>10. CutTo(stream', p, l, k)
  BY <1>3, <1>9, Zenon DEF CutTo
<1>11. Held'
  BY <1>1, <1>2, <1>3, <1>10, Zenon DEF Held
<1>12. ReadBack'
  <2>1. last.done => last.got.ok /\ last.got.value = last.want.content
    BY <1>1 DEF CodecInv, ReadBack
  <2> QED
    BY <1>1, <2>1 DEF ReadBack
<1> QED
  BY <1>11, <1>12 DEF CodecInv

\* The invariant holds in every state.
LEMMA CodecInvariant == CodecSpec => []CodecInv
<1>1. CodecInv /\ [CodecNext]_vars => CodecInv'
  <2> SUFFICES ASSUME CodecInv, [CodecNext]_vars
               PROVE  CodecInv'
    OBVIOUS
  <2>1. ASSUME NEW x \in Samples, Write(x)
        PROVE  CodecInv'
    BY <2>1, WriteHolds
  <2>2. CASE Read
    BY <2>2, ReadHolds
  <2>3. ASSUME NEW n \in Losses, Cut(n)
        PROVE  CodecInv'
    BY <2>3, CutHolds
  <2>4. CASE UNCHANGED vars
    BY <2>4 DEF vars, CodecInv, Held, CutTo, ReadBack
  <2> QED
    BY <2>1, <2>2, <2>3, <2>4 DEF CodecNext
<1> QED
  BY InitHeld, <1>1, PTL DEF CodecSpec

\* Every message comes back as it was written, whatever was written before and
\* behind it, and one that lost its end is refused as too short: for any messages
\* a Create can make, any number of them and any loss within the last.
THEOREM EveryMessageComesBack == CodecSpec => []ReadBack
<1>1. CodecInv => ReadBack
  BY DEF CodecInv
<1> QED
  BY CodecInvariant, <1>1, PTL

\* A read takes the bytes of its message and no others: what is left is the
\* messages not yet read.
THEOREM ReadsTakeTheirOwn == CodecSpec => []TailPreserved
<1>1. CodecInv => TailPreserved
  BY DEF CodecInv, Held, TailPreserved
<1> QED
  BY CodecInvariant, <1>1, PTL
=============================================================================
