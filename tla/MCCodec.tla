------------------------------ MODULE MCCodec ------------------------------
(***************************************************************************)
(* Messages for model checking Codec: for every class one in the middle of *)
(* the road and those at its limits.                                       *)
(***************************************************************************)
EXTENDS Codec

RangeOf(code, address, quantity) ==
  [kind |-> "range", code |-> code, content |-> [address |-> address, quantity |-> quantity]]
SingleOf(code, address, value) ==
  [kind |-> "single", code |-> code, content |-> [address |-> address, value |-> value]]
WriteOf(code, address, values) ==
  [kind |-> "write", code |-> code, content |-> [address |-> address, values |-> values]]
ValuesOf(code, values) ==
  [kind |-> "values", code |-> code, content |-> [values |-> values]]
ErrorOf(code, exception) ==
  [kind |-> "error", code |-> code, content |-> [code |-> code, exception |-> exception]]

Bits(n) == [i \in 1 .. n |-> IF i % 3 = 1 THEN 1 ELSE 0]
Registers(n) == [i \in 1 .. n |-> 256 * (i % 256) + ((7 * i) % 256)]

MCSamples ==
  {RangeOf(kReadCoils, 63536, 2000), RangeOf(kWriteMultipleHoldingRegisters, 258, 123),
   SingleOf(kWriteSingleCoil, 65535, 1), SingleOf(kWriteSingleCoil, 0, 0),
   SingleOf(kWriteSingleHoldingRegister, 513, 4660),
   WriteOf(kWriteMultipleCoils, 63568, Bits(1968)),
   WriteOf(kWriteMultipleCoils, 1, Bits(9)),
   WriteOf(kWriteMultipleHoldingRegisters, 772, Registers(123)),
   ValuesOf(kReadCoils, Bits(8)), ValuesOf(kReadDiscreteInputs, Bits(2000)),
   ValuesOf(kReadInputRegisters, Registers(125)),
   ErrorOf(kReadHoldingRegisters, 11)}
=============================================================================
