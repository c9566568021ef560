---------------------------- MODULE MCClientBase ----------------------------
(***************************************************************************)
(* Calls and slaves for model checking ClientBase.                         *)
(***************************************************************************)
EXTENDS ClientBase

Operation(code, address, quantity, values, room) ==
  [code |-> code, table |-> TableOf(code), write |-> code \notin ReadCodes,
   address |-> address, quantity |-> quantity, values |-> values, room |-> room]

Read(code, address, quantity, room) == Operation(code, address, quantity, <<>>, room)
Write(code, address, values) == Operation(code, address, Len(values), values, 0)

\* Two addresses at either end of the space.
MCAddresses == {0, 1, 65534, 65535}

MCMemory ==
  [t \in Tables |-> [a \in MCAddresses |-> IF t \in BitTables THEN a % 2 ELSE a]]

\* In and across the slave's memory and the address space, of both quantities.
MCOperations ==
  {Read(kReadCoils, 0, 2, 2), Read(kReadDiscreteInputs, 65534, 2, 3),
   Read(kReadHoldingRegisters, 0, 2, 2), Read(kReadInputRegisters, 65535, 1, 1),
   Read(kReadHoldingRegisters, 65535, 2, 2), Read(kReadHoldingRegisters, 1, 2, 2),
   Read(kReadInputRegisters, 0, 2, 1),
   Write(kWriteSingleCoil, 0, <<1>>), Write(kWriteSingleCoil, 2, <<1>>),
   Write(kWriteMultipleCoils, 0, <<1, 0>>),
   Write(kWriteSingleHoldingRegister, 1, <<513>>),
   Write(kWriteMultipleHoldingRegisters, 0, <<772, 255>>),
   Write(kWriteMultipleHoldingRegisters, 65535, <<1, 2>>)}

\* The largest messages, those one value larger, and none at all.
LargeOperations ==
  {Read(kReadCoils, 0, 0, 0), Write(kWriteMultipleHoldingRegisters, 0, <<>>),
   Read(kReadCoils, 0, 2000, 2000), Read(kReadCoils, 0, 2001, 2001),
   Read(kReadHoldingRegisters, 0, 125, 125), Read(kReadInputRegisters, 0, 126, 126),
   Read(kReadDiscreteInputs, 0, 2, 2), Read(kReadHoldingRegisters, 0, 2, 2),
   Write(kWriteMultipleCoils, 7, [i \in 1 .. 1968 |-> i % 2]),
   Write(kWriteMultipleCoils, 7, [i \in 1 .. 1969 |-> i % 2]),
   Write(kWriteMultipleHoldingRegisters, 65413, [i \in 1 .. 123 |-> 257 * i]),
   Write(kWriteMultipleHoldingRegisters, 65413, [i \in 1 .. 124 |-> i]),
   Write(kWriteMultipleHoldingRegisters, 65414, [i \in 1 .. 123 |-> i])}

NoForgeries == {}

\* Responses of every class, whole, cut short, with a wrong count and with more
\* values than the caller's buffer has room for, exceptions and nothing at all.
MCForgeries ==
  {<<>>, <<kReadHoldingRegisters>>, <<kReadHoldingRegisters, 4, 1, 2, 3>>,
   <<kReadHoldingRegisters, 4, 1, 2, 3, 4>>, <<kReadHoldingRegisters, 3, 1, 2, 3>>,
   <<kReadHoldingRegisters, 6, 1, 2, 3, 4, 5, 6>>,
   <<kReadHoldingRegisters, 250>> \o [i \in 1 .. 250 |-> i],
   <<kReadDiscreteInputs, 1, 3>>, <<kReadDiscreteInputs, 2, 3, 3>>, <<kReadDiscreteInputs, 1>>,
   <<kReadInputRegisters, 2, 0, 1>>,
   <<kWriteMultipleCoils, 0, 7, 7, 176>>, <<kWriteMultipleCoils, 0, 7>>,
   ErrorBytes([code |-> kReadCoils, exception |-> 6]),
   ErrorBytes([code |-> kReadHoldingRegisters, exception |-> 6])}
=============================================================================
