-------------------------------- MODULE Slave --------------------------------
(***************************************************************************)
(* A Modbus slave (external): what it reads in a request and what it does  *)
(* and answers.  It reads requests and writes responses with the classes   *)
(* the repository has for both sides.                                      *)
(***************************************************************************)
EXTENDS Execution

CONSTANT Addresses  \* addresses the slave has, in every table

BitTables == {"coils", "discrete inputs"}

\* What its tables hold: a bit or a word at every address.
MemoryType(tables) ==
  /\ tables \in [Tables -> [Addresses -> Word]]
  /\ \A t \in BitTables : tables[t] \in [Addresses -> Coil]

\* What a slave reads in a request, and where it reads or writes.
Understood(pdu) == Deserialize(RequestKind(pdu[1]), pdu[1], 0, pdu)

Extent(code, m) ==
  CASE code \in ReadCodes -> m.quantity
    [] code \in WriteSingleCodes -> 1
    [] code \in WriteMultipleCodes -> Len(m.values)

Covered(code, m) == m.address .. m.address + Extent(code, m) - 1

\* Its tables after a request, and its answer.
Stored(tables, code, m) ==
  LET values == IF code \in WriteSingleCodes THEN <<m.value>> ELSE m.values
  IN  IF code \in ReadCodes THEN tables
      ELSE [tables EXCEPT ![TableOf(code)] =
              [a \in Addresses |->
                 IF a \in Covered(code, m) THEN values[a - m.address + 1] ELSE @[a]]]

Response(tables, code, m) ==
  EncodingOf(ResponseKind(code), code,
    CASE code \in ReadCodes ->
           [values |-> [i \in 1 .. m.quantity |-> tables[TableOf(code)][m.address + i - 1]]]
      [] code \in WriteSingleCodes -> m
      [] code \in WriteMultipleCodes ->
           [address |-> m.address, quantity |-> Extent(code, m)])

IllegalDataAddress(code) == ErrorBytes([code |-> code, exception |-> 2])

\* A request outside its addresses changes nothing.
Executed(tables, code, m) ==
  IF Covered(code, m) \subseteq Addresses
    THEN [tables |-> Stored(tables, code, m), reply |-> Response(tables, code, m)]
  ELSE [tables |-> tables, reply |-> IllegalDataAddress(code)]

\* The values in those of its answers to a call that are not exceptions.
Found(op, answers) ==
  {IF op.write THEN <<>> ELSE Unpack(op.code, From(pdu, 2), op.quantity) :
     pdu \in {a \in answers : a[1] = op.code}}
=============================================================================
