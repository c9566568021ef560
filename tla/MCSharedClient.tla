--------------------------- MODULE MCSharedClient ---------------------------
(***************************************************************************)
(* Callers, operations and contents for model checking SharedClient.       *)
(***************************************************************************)
EXTENDS SharedClient, TLC

CONSTANTS c1, c2, c3  \* the callers

MCSlaveId == 17

Operation(code, address, quantity, values, room) ==
  [code |-> code, table |-> TableOf(code), write |-> code \notin ReadCodes,
   address |-> address, quantity |-> quantity, values |-> values, room |-> room]

Read(code, address, quantity, room) == Operation(code, address, quantity, <<>>, room)
Write(code, address, values) == Operation(code, address, Len(values), values, 0)

MCAddresses == {0, 1, 2}

\* Two values for a bit and two for a register, by turns.
MCPair == [t \in Tables |-> IF t \in BitTables THEN <<0, 1>> ELSE <<0, 513>>]

MCValues == [t \in Tables |-> {MCPair[t][1], MCPair[t][2]}]

MCMemory == [t \in Tables |-> [a \in MCAddresses |-> MCPair[t][1 + (a % 2)]]]

\* One caller reads and writes registers that another one writes with a code of its
\* own; two callers read the same table with one code, one register and two, and one
\* of them makes a read that its buffer has no room for.
MCUses ==
  c1 :> {Read(kReadHoldingRegisters, 0, 2, 3), Write(kWriteSingleHoldingRegister, 0, <<0>>)} @@
  c2 :> {Write(kWriteMultipleHoldingRegisters, 0, <<513, 513>>), Read(kReadInputRegisters, 1, 1, 1)} @@
  c3 :> {Read(kReadInputRegisters, 0, 2, 2), Read(kReadInputRegisters, 0, 2, 1)}

\* All the callers may send and the slave may answer.
Sendable == {op \in UNION {Uses[t] : t \in Callers} : Refusal(op) = "none"}

MCRequestSizes == {Len(RequestPdu(op).value) : op \in Sendable}

MCReplyForms == {ReplyForm(pdu) : pdu \in UNION {AnswersOf(op) : op \in Sendable}}

MCContents == {f.content : f \in MCReplyForms}

MCOutSizes == {kMaxPduSize}

NoForms == {}
=============================================================================
