----------------------------- MODULE Datagrams -----------------------------
(***************************************************************************)
(* Any bytes may come from the network: what the Deserialize functions     *)
(* make of buffers nobody serialized, built byte by byte.                  *)
(***************************************************************************)
EXTENDS Messages

CONSTANTS
  Alphabet,   \* bytes a buffer is built from, after its function code
  MaxLength,  \* bound: length of a buffer
  Quantities  \* quantities a reader of values may expect

ASSUME AlphabetAssumption ==
  Alphabet \subseteq Byte /\ MaxLength \in Nat /\ Quantities \subseteq Nat

VARIABLE buf

FirstBytes == (UNION {CodesOf(kind) : kind \in Kinds}) \cup {kErrorFlag + kReadCoils}

Init == buf \in {<<b>> : b \in FirstBytes}

AddByte(b) ==
  /\ Len(buf) < MaxLength
  /\ buf' = Append(buf, b)

Next == \E b \in Alphabet : AddByte(b)

Spec == Init /\ [][Next]_buf

\* The readers: a class, its function code and the quantity it may expect.
Readers ==
  UNION {[kind : {kind}, code : CodesOf(kind),
          expected : IF kind = "values" THEN Quantities ELSE {0}] : kind \in Kinds}

Reading(r, b) == Deserialize(r.kind, r.code, r.expected, b)

Accepting(b) == {r \in Readers : Reading(r, b).ok}

----------------------------------------------------------------------------
\* The last byte of bits may be padded with anything.
Padded(r) == r.kind \in {"write", "values"} /\ r.code \in BitCodes

\* What a class accepts it can also say: writing the content again gives the
\* bytes that were read (but for the padding of bits), which read back the same.
AcceptedIsSayable ==
  \A r \in Accepting(buf) :
    LET read == Reading(r, buf)
        bytes == EncodingOf(r.kind, r.code, read.value)
    IN  /\ Len(bytes) + Len(read.rest) = Len(buf)
        /\ \A i \in DOMAIN bytes : bytes[i] = buf[i] \/ (i = Len(bytes) /\ Padded(r))
        /\ Reading(r, bytes).value = read.value

\* Nothing a class accepts addresses beyond the address space or carries a
\* quantity outside its limits.
AcceptedIsInRange ==
  \A r \in Accepting(buf) :
    LET m == Reading(r, buf).value
        n == IF r.kind = "range" THEN m.quantity ELSE Len(m.values)
    IN  /\ r.kind \in {"range", "write", "values"} => QuantityAllowed(r.code, n)
        /\ r.kind \in {"range", "write"} => m.address + n <= kMaxAddressSpace

\* Bytes behind a message never change what is read from it.
LaterBytesIgnored ==
  [][\A r \in Accepting(buf) :
       LET read == Reading(r, buf)
           later == Reading(r, buf')
       IN  later.ok /\ later.value = read.value
             /\ later.rest = Append(read.rest, buf'[Len(buf')])]_buf
=============================================================================
