----------------------------- MODULE Execution -----------------------------
(***************************************************************************)
(* What a call of ClientBase (client_base.cpp) computes between the bytes: *)
(* the request its arguments make, the reasons to refuse them, and what    *)
(* it makes of the response PDU.  ReadCoils to WriteHoldingRegisters are   *)
(* ExecuteRead, ExecuteWriteSingle and ExecuteWriteMultiple, told apart by *)
(* their function codes.  The steps of a call are those of ClientBase and  *)
(* SharedClient.                                                           *)
(***************************************************************************)
EXTENDS Messages

Tables == {"coils", "discrete inputs", "holding registers", "input registers"}

TableOf(code) ==
  CASE code \in {kReadCoils, kWriteSingleCoil, kWriteMultipleCoils} -> "coils"
    [] code = kReadDiscreteInputs -> "discrete inputs"
    [] code = kReadInputRegisters -> "input registers"
    [] OTHER -> "holding registers"

\* A value outside Word, for the places of a buffer nothing was copied to.
Untouched == 65536

NoJob == [table |-> "none"]

OperationType(op) ==
  /\ op.code \in ReadCodes \cup WriteSingleCodes \cup WriteMultipleCodes
  /\ op.table = TableOf(op.code)
  /\ op.write = (op.code \notin ReadCodes)
  /\ op.address \in Word /\ op.quantity \in Word /\ op.room \in Nat
  /\ op.values \in Seq(Word)
  /\ op.write => op.quantity = Len(op.values)
  /\ op.code \in WriteSingleCodes => op.quantity = 1

ClientErrors == {"kBufferTooSmall", "kInvalidRequest", "kInvalidResponse",
                 "kTransportError", "kTimeout", "exception"}

----------------------------------------------------------------------------
(***************************************************************************)
(* From the arguments to the request PDU.                                  *)
(***************************************************************************)

\* Request::Create of each class, and the bytes of what it created.
Created(op) ==
  CASE op.code \in ReadCodes -> CreateRange(op.code, op.address, op.quantity, <<>>)
    [] op.code \in WriteSingleCodes -> CreateSingle(op.code, op.address, op.values[1], <<>>)
    [] op.code \in WriteMultipleCodes -> CreateWrite(op.code, op.address, op.values, <<>>)

RequestKind(code) ==
  CASE code \in ReadCodes -> "range"
    [] code \in WriteSingleCodes -> "single"
    [] code \in WriteMultipleCodes -> "write"

ResponseKind(code) ==
  CASE code \in ReadCodes -> "values"
    [] code \in WriteSingleCodes -> "single"
    [] code \in WriteMultipleCodes -> "range"

\* Variant: the whole array is sent, not only what Serialize wrote.
RequestPduUntrimmed(op) ==
  LET s == Serialize(EncodingOf(RequestKind(op.code), op.code, Created(op).value), kMaxPduSize)
  IN  [s EXCEPT !.value = [i \in 1 .. kMaxPduSize |-> IF i <= Len(@) THEN @[i] ELSE 0]]

\* SendPdu serializes into kMaxPduSize bytes.
RequestPdu(op) ==
  Serialize(EncodingOf(RequestKind(op.code), op.code, Created(op).value), kMaxPduSize)

\* Variant: the quantity of a read is not compared with the caller's buffer.
RefusalIgnoresRoom(op) ==
  IF ~ Created(op).ok \/ ~ RequestPdu(op).ok THEN "kInvalidRequest" ELSE "none"

\* Variant: the ParseError of Create handed on.
RefusalLeaksParseError(op) ==
  IF ~ op.write /\ op.room < op.quantity THEN "kBufferTooSmall"
  ELSE IF ~ Created(op).ok THEN Created(op).error
  ELSE "none"

\* Why a call ends before SendRawRequest, "none" when it does not.
Refusal(op) ==
  IF ~ op.write /\ op.room < op.quantity THEN "kBufferTooSmall"
  ELSE IF ~ Created(op).ok \/ ~ RequestPdu(op).ok THEN "kInvalidRequest"
  ELSE "none"

----------------------------------------------------------------------------
(***************************************************************************)
(* From the response PDU to the caller's buffer.                           *)
(***************************************************************************)

\* Response::Deserialize of the class that belongs to the request.
ResponseOf(op, pdu) == Deserialize(ResponseKind(op.code), op.code, op.quantity, pdu)

\* Variant: a write does not look at its response.
AcceptsForWrites(op, response) == op.write \/ response.ok

\* Whether Execute* accepts what Response::Deserialize made of the PDU.
Accepts(op, response) == response.ok

\* Variant: the buffer is cleared before the response is read.
CopiedOverZeros(op, buffer, response) ==
  IF op.write THEN buffer
  ELSE IF response.ok
    THEN response.value.values \o SubSeq(buffer, Len(response.value.values) + 1, Len(buffer))
  ELSE [i \in DOMAIN buffer |-> 0]

\* A read copies the values of its response to the front of the buffer.
Copied(op, buffer, response) ==
  IF response.ok /\ ~ op.write
    THEN response.value.values \o SubSeq(buffer, Len(response.value.values) + 1, Len(buffer))
  ELSE buffer

\* std::copy does not know where the caller's buffer ends: what a longer response
\* brings is written behind it, and Copied is longer than the buffer by that much.
Overruns(op, response) ==
  response.ok /\ ~ op.write /\ op.room < Len(response.value.values)
=============================================================================
