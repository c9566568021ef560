-------------------------- MODULE ClientBaseProofs --------------------------
(***************************************************************************)
(* Proofs about the operations of ClientBase.                              *)
(***************************************************************************)
EXTENDS ClientBase, MessagesProofs

\* The caller's buffer as it was handed over.
Intact == \A i \in DOMAIN out : out[i] = Untouched

\* FailureLeavesBuffer alone is not inductive: it says nothing of a call that
\* has not failed yet.  Until a call is over, its outcome is "none".
BufferInv ==
  /\ waiting => outcome = "none"
  /\ outcome \notin {"ok", "crashed"} => Intact

LEMMA InitBuffer == Init => BufferInv
BY DEF Init, BufferInv, Intact

LEMMA NextBuffer ==
  ASSUME BufferInv, [Next]_vars
  PROVE  BufferInv'
<1>1. CASE \E op \in Operations : Execute(op)
  <2>1. PICK op \in Operations : Execute(op)
    BY <1>1
  <2>2. out' = [i \in 1 .. op.room |-> Untouched]
    BY <2>1 DEF Execute
  <2>3. Intact'
    BY <2>2 DEF Intact
  <2>4. waiting' => outcome' = "none"
    BY <2>1 DEF Execute
  <2> QED
    BY <2>3, <2>4 DEF BufferInv
<1>2. CASE \E pdu \in replies : Answer(pdu)
  <2>1. PICK pdu \in replies : Answer(pdu)
    BY <1>2
  <2> DEFINE response == ResponseOf(job, pdu)
  <2> HIDE DEF response
  <2>2. /\ waiting /\ waiting' = FALSE
        /\ outcome' \in Outcomes(job, response)
        /\ out' = Copied(job, out, response)
    BY <2>1 DEF Answer, response
  <2>3. CASE Accepts(job, response)
    BY <2>2, <2>3 DEF BufferInv, Outcomes
  <2>4. CASE ~ Accepts(job, response)
    <3>1. out' = out
      BY <2>2, <2>4 DEF Copied, Accepts
    <3>2. Intact
      BY <2>2 DEF BufferInv
    <3> QED
      BY <2>2, <3>1, <3>2 DEF BufferInv, Intact
  <2> QED
    BY <2>3, <2>4
<1>3. CASE \E error \in ClientErrors : SendFails(error)
  BY <1>3 DEF SendFails, BufferInv, Intact
<1>4. ASSUME UNCHANGED <<out, outcome, waiting>>
      PROVE  BufferInv'
  BY <1>4 DEF BufferInv, Intact
<1>5. CASE \E pdu \in requests : Serve(pdu)
  BY <1>4, <1>5 DEF Serve, callVars
<1>6. CASE \E pdu \in requests, forgery \in Forgeries : Forge(pdu, forgery)
  BY <1>4, <1>6 DEF Forge, callVars
<1>7. CASE \E pdu \in requests : LoseRequest(pdu)
  BY <1>4, <1>7 DEF LoseRequest, callVars
<1>8. CASE \E pdu \in replies : LoseReply(pdu)
  BY <1>4, <1>8 DEF LoseReply, callVars
<1>9. CASE \E t \in Inputs, a \in Addresses, v \in Values : Change(t, a, v)
  BY <1>4, <1>9 DEF Change, callVars
<1>10. CASE Finished \/ UNCHANGED vars
  BY <1>4, <1>10 DEF Finished, vars, callVars
<1> QED
  BY <1>1, <1>2, <1>3, <1>5, <1>6, <1>7, <1>8, <1>9, <1>10 DEF Next

(***************************************************************************)
(* Whatever bytes a slave answers to whatever call, and however requests   *)
(* and replies are lost and duplicated: a call that fails leaves the       *)
(* caller's buffer as it was.                                              *)
(***************************************************************************)
THEOREM FailureKeepsBuffer == Spec => []FailureLeavesBuffer
<1>1. BufferInv => FailureLeavesBuffer
  BY DEF BufferInv, Intact, FailureLeavesBuffer
<1>2. Spec => []BufferInv
  BY InitBuffer, NextBuffer, PTL DEF Spec
<1> QED
  BY <1>1, <1>2, PTL
----------------------------------------------------------------------------
(***************************************************************************)
(* What is in transit belongs to the current call.                         *)
(***************************************************************************)

\* What a call may still learn or have learnt comes from a request it sent.
Pending == waiting \/ requests # {} \/ replies # {} \/ outcome = "ok"

CallInv ==
  /\ Pending => job \in Operations /\ Sent(job)
  /\ \A pdu \in requests : pdu = RequestPdu(job).value

LEMMA InitCall == Init => CallInv
BY DEF Init, CallInv, Pending

LEMMA NextCall ==
  ASSUME CallInv, [Next]_vars
  PROVE  CallInv'
<1>1. CASE \E op \in Operations : Execute(op)
  <2>1. PICK op \in Operations : Execute(op)
    BY <1>1
  <2>2. /\ requests = {} /\ replies = {} /\ replies' = replies /\ job' = op
        /\ ~ waiting /\ outcome' = Refusal(op)
    BY <2>1 DEF Execute
  <2>3. CASE Refusal(op) = "none"
    <3>1. requests' = {RequestPdu(op).value}
      BY <2>1, <2>3 DEF Execute
    <3>2. Sent(op)
      BY <2>3, OperationsAssumption DEF Sent
    <3> QED
      BY <2>2, <3>1, <3>2 DEF CallInv
  <2>4. CASE Refusal(op) # "none"
    <3>1. requests' = {} /\ replies' = {} /\ ~ waiting'
      BY <2>1, <2>2, <2>4 DEF Execute
    <3>2. outcome' # "ok"
      BY <2>2, RefusalIsFailure
    <3> QED
      BY <3>1, <3>2 DEF CallInv, Pending
  <2> QED
    BY <2>3, <2>4
<1>2. CASE \E pdu \in replies : Answer(pdu)
  <2>1. PICK pdu \in replies : Answer(pdu)
    BY <1>2
  <2>2. waiting /\ job' = job /\ requests' = requests
    BY <2>1 DEF Answer
  <2> QED
    BY <2>2 DEF CallInv, Pending
<1>3. CASE \E error \in ClientErrors : SendFails(error)
  <2>1. waiting /\ job' = job /\ requests' = requests
    BY <1>3 DEF SendFails, netVars
  <2> QED
    BY <2>1 DEF CallInv, Pending
<1>4. CASE \E pdu \in requests : Serve(pdu)
  <2>1. requests # {} /\ job' = job /\ requests' \subseteq requests
    BY <1>4 DEF Serve, callVars
  <2> QED
    BY <2>1 DEF CallInv, Pending
<1>5. CASE \E pdu \in requests, forgery \in Forgeries : Forge(pdu, forgery)
  <2>1. requests # {} /\ job' = job /\ requests' \subseteq requests
    BY <1>5 DEF Forge, callVars
  <2> QED
    BY <2>1 DEF CallInv, Pending
<1>6. CASE \E pdu \in requests : LoseRequest(pdu)
  <2>1. requests # {} /\ job' = job /\ requests' \subseteq requests
    BY <1>6 DEF LoseRequest, callVars
  <2> QED
    BY <2>1 DEF CallInv, Pending
<1>7. CASE \E pdu \in replies : LoseReply(pdu)
  <2>1. replies # {} /\ job' = job /\ requests' = requests
    BY <1>7 DEF LoseReply, callVars
  <2> QED
    BY <2>1 DEF CallInv, Pending
<1>8. CASE UNCHANGED <<callVars, netVars>>
  BY <1>8 DEF CallInv, Pending, callVars, netVars
<1>9. CASE \E t \in Inputs, a \in Addresses, v \in Values : Change(t, a, v)
  BY <1>8, <1>9 DEF Change
<1>10. CASE Finished \/ UNCHANGED vars
  BY <1>8, <1>10 DEF Finished, vars
<1> QED
  BY <1>1, <1>2, <1>3, <1>4, <1>5, <1>6, <1>7, <1>9, <1>10 DEF Next

LEMMA CallInvariant == Spec => []CallInv
BY InitCall, NextCall, PTL DEF Spec

(***************************************************************************)
(* Every request that is sent, of any of the eight operations with any     *)
(* arguments, is a PDU of legal size that the slave's class reads to its   *)
(* last byte as the arguments of the call.                                 *)
(***************************************************************************)
THEOREM RequestsAreUnderstood == Spec => []RequestUnderstood
<1>1. CallInv => RequestUnderstood
  <2> SUFFICES ASSUME CallInv, NEW pdu \in requests
               PROVE  LET r == Understood(pdu)
                      IN  /\ Len(pdu) <= kMaxPduSize
                          /\ r.ok /\ r.rest = <<>>
                          /\ Covered(pdu[1], r.value) = job.address .. job.address + job.quantity - 1
                          /\ job.code \in WriteSingleCodes => <<r.value.value>> = job.values
                          /\ job.code \in WriteMultipleCodes => r.value.values = job.values
    BY DEF RequestUnderstood
  <2>1. Sent(job) /\ pdu = RequestPdu(job).value
    BY DEF CallInv, Pending
  <2> QED
    BY <2>1, RequestMeans DEF Place
<1> QED
  BY <1>1, CallInvariant, PTL

\* What serving a request of the current call does.
LEMMA ServeEffect ==
  ASSUME CallInv, MemoryType(memory), NEW pdu \in requests, Serve(pdu)
  PROVE  /\ Sent(job)
         /\ MemoryType(memory')
         /\ \E reply :
              /\ replies' = replies \cup {reply} /\ AnswerTo(job, reply) /\ reply \in Seq(Byte)
              /\ Place(job) \subseteq Addresses =>
                   /\ memory' = WrittenTo(memory, job)
                   /\ reply[1] = job.code
                   /\ ~ job.write =>
                        Unpack(job.code, From(reply, 2), job.quantity) = AnswerFrom(memory, job)
              /\ ~ Place(job) \subseteq Addresses =>
                   memory' = memory /\ reply[1] # job.code
<1> DEFINE done == Executed(memory, pdu[1], Understood(pdu).value)
<1>1. Sent(job) /\ pdu = RequestPdu(job).value
  BY DEF CallInv, Pending
<1>2. replies' = replies \cup {done.reply} /\ memory' = done.tables
  BY DEF Serve
<1>3. pdu[1] = job.code /\ Understood(pdu) = Created(job)
  BY <1>1, RequestReadBack, Zenon
<1>4. done = Executed(memory, job.code, Created(job).value)
  BY <1>3
<1>5. MemoryType(memory)
  OBVIOUS
<1> HIDE DEF done
<1>6. /\ MemoryType(done.tables)
      /\ AnswerTo(job, done.reply) /\ done.reply \in Seq(Byte)
      /\ Place(job) \subseteq Addresses =>
           /\ done.tables = WrittenTo(memory, job)
           /\ done.reply[1] = job.code
           /\ ~ job.write =>
                Unpack(job.code, From(done.reply, 2), job.quantity) = AnswerFrom(memory, job)
      /\ ~ Place(job) \subseteq Addresses =>
           done.tables = memory /\ done.reply[1] # job.code
  BY <1>1, <1>4, <1>5, Served, Zenon
<1> QED
  BY <1>1, <1>2, <1>6, Zenon

----------------------------------------------------------------------------
(***************************************************************************)
(* Types.                                                                  *)
(***************************************************************************)

\* TypeOK says nothing of the length of the buffer before the response came.
TypeInv ==
  /\ TypeOK
  /\ waiting => Len(out) = job.room
  /\ OnlyRegistersOverrun

\* What a response makes of a buffer of a given length.
Fits(op, new, room) ==
  /\ new \in Seq(Word \cup {Untouched})
  /\ Len(new) >= room
  /\ Len(new) > room => op.code \in ReadCodes \ BitCodes /\ Len(new) <= kMaxQuantity[op.code]

\* While a call waits, it has a buffer of the length it was handed over with.
LEMMA WaitingBuffer ==
  ASSUME CallInv, waiting
  PROVE  job \in Operations /\ Sent(job) /\ job # NoJob /\ job.room \in Nat
<1>1. job \in Operations /\ Sent(job)
  BY DEF CallInv, Pending
<1>2. job.table \in Tables
  BY <1>1, SentFields, Zenon
<1>3. NoJob.table \notin Tables
  BY DEF NoJob, Tables
<1>4. job.room \in Nat
  BY <1>1, OperationsAssumption, Zenon DEF OperationType
<1> QED
  BY <1>1, <1>2, <1>3, <1>4, Zenon

\* Whatever response a call accepts.
LEMMA AnswerFits ==
  ASSUME CallInv, TypeInv, waiting, NEW pdu \in replies
  PROVE  Fits(job, Copied(job, out, ResponseOf(job, pdu)), job.room)
<1> DEFINE response == ResponseOf(job, pdu)
<1>1. /\ Sent(job) /\ job.room \in Nat
      /\ out \in Seq(Word \cup {Untouched}) /\ pdu \in Seq(Byte)
      /\ Len(out) = job.room
  BY WaitingBuffer DEF TypeInv, TypeOK
<1>2. CASE ~ (response.ok /\ ~ job.write)
  <2>1. Copied(job, out, response) = out
    BY <1>2 DEF Copied
  <2> HIDE DEF response
  <2>2. Fits(job, out, job.room)
    BY <1>1 DEF Fits
  <2> QED
    BY <2>1, <2>2 DEF response
<1>3. CASE response.ok /\ ~ job.write
  <2>1. job.code \in ReadCodes /\ job.quantity \in Nat
    BY <1>1, <1>3, SentFields, Zenon
  <2>2. ResponseKind(job.code) = "values"
    BY <2>1, CodeNumbers DEF ResponseKind
  <2>3. response = DeserializeValues(job.code, pdu, job.quantity)
    BY <2>2 DEF ResponseOf, Deserialize
  <2> HIDE DEF response
  <2>4. PICK n \in Nat, size \in Nat : ValuesBegin(job.code, pdu, job.quantity, n, size)
    BY <1>1, <1>3, <2>1, <2>3, ValuesTaken
  <2>5. PICK v : v = Unpack(job.code, From(pdu, 2), n)
    OBVIOUS
  <2>6. ValuesOut(job.code, pdu, job.quantity, n, size, v)
    BY <1>1, <2>4, <2>5, ValuesAccepted, Zenon
  <2>7. v \in Seq(Word) /\ response.value.values = v /\ Len(v) = n
    BY <2>3, <2>6 DEF ValuesOut, Ok
  <2>8. Copied(job, out, response) = v \o SubSeq(out, Len(v) + 1, Len(out))
    BY <1>3, <2>7 DEF Copied
  <2>9. PICK new : new = v \o SubSeq(out, Len(v) + 1, Len(out))
    OBVIOUS
  <2>10. /\ new \in Seq(Word \cup {Untouched})
         /\ Len(new) = IF Len(v) <= Len(out) THEN Len(out) ELSE Len(v)
    BY <1>1, <2>7, <2>9, CopyLength, Zenon
  <2>11. n <= kMaxQuantity[job.code] /\ (job.code \in BitCodes => job.quantity = n)
    BY <2>4 DEF ValuesBegin, QuantityAllowed
  <2>12. job.quantity <= job.room
    BY <1>1, <1>3, SentFits
  <2>13. Len(new) = IF n <= job.room THEN job.room ELSE n
    BY <1>1, <2>7, <2>10
  <2>14. Fits(job, new, job.room)
    <3>1. Len(new) >= job.room
      BY <1>1, <2>13
    <3>2. ASSUME Len(new) > job.room
          PROVE  job.code \in ReadCodes \ BitCodes /\ Len(new) <= kMaxQuantity[job.code]
      <4>1. Len(new) = n /\ n > job.room
        BY <1>1, <2>13, <3>2
      <4>2. job.code \notin BitCodes
        BY <1>1, <2>1, <2>11, <2>12, <4>1
      <4> QED
        BY <2>1, <2>11, <4>1, <4>2
    <3> QED
      BY <2>10, <3>1, <3>2 DEF Fits
  <2> QED
    BY <2>8, <2>9, <2>14 DEF response
<1> QED
  BY <1>2, <1>3

LEMMA InitType == Init => TypeInv
<1> SUFFICES ASSUME Init
             PROVE  TypeInv
  OBVIOUS
<1>1. out = <<>> /\ <<>> \in Seq(Word \cup {Untouched})
  BY DEF Init
<1>2. /\ job = NoJob /\ waiting = FALSE /\ outcome = "none"
      /\ requests = {} /\ replies = {} /\ memory = InitialMemory
      /\ calls = 0 /\ changes = 0 /\ dups = 0
  BY Zenon DEF Init
<1>3. MemoryType(memory) /\ requests \subseteq Seq(Byte) /\ replies \subseteq Seq(Byte)
  BY <1>2, MemoryAssumption
<1>4. calls \in 0 .. MaxCalls /\ changes \in 0 .. MaxChanges /\ dups \in 0 .. MaxDups
  BY <1>2, MemoryAssumption
<1> HIDE DEF Init
<1>5. TypeOK
  BY <1>1, <1>2, <1>3, <1>4, Zenon DEF TypeOK
<1>6. ~ waiting /\ (job # NoJob => FALSE)
  BY <1>2
<1> QED
  BY <1>5, <1>6, Zenon DEF TypeInv, OnlyRegistersOverrun

\* The slave's own tables change by a word, or a bit.
LEMMA ChangeType ==
  ASSUME MemoryType(memory), NEW t \in Inputs, NEW a \in Addresses, NEW v \in Values,
         Change(t, a, v)
  PROVE  MemoryType(memory')
<1>1. memory' = [memory EXCEPT ![t][a] = v] /\ (t \in BitTables => v \in Coil)
  BY DEF Change
<1>2. t \in Tables /\ v \in Word
  BY MemoryAssumption DEF Inputs, Tables
<1>3. /\ memory \in [Tables -> [Addresses -> Word]]
      /\ \A u \in BitTables : memory[u] \in [Addresses -> Coil]
  BY DEF MemoryType
<1> DEFINE new == [memory[t] EXCEPT ![a] = v]
<1>4. memory' = [memory EXCEPT ![t] = new]
  BY <1>1
<1>5. new \in [Addresses -> Word]
  BY <1>2, <1>3
<1>6. t \in BitTables => new \in [Addresses -> Coil]
  BY <1>1, <1>3
<1> HIDE DEF new
<1>7. memory' \in [Tables -> [Addresses -> Word]]
  BY <1>2, <1>3, <1>4, <1>5
<1>8. \A u \in BitTables : memory'[u] \in [Addresses -> Coil]
  BY <1>2, <1>3, <1>4, <1>6 DEF BitTables, Tables
<1> QED
  BY <1>7, <1>8 DEF MemoryType

LEMMA NextType ==
  ASSUME CallInv, CallInv', TypeInv, [Next]_vars
  PROVE  TypeInv'
<1> DEFINE S == Word \cup {Untouched}
           Buffers == /\ out' \in Seq(S)
                      /\ job' # NoJob => Len(out') >= job'.room
                      /\ waiting' => Len(out') = job'.room
                      /\ OnlyRegistersOverrun'
           Transit == replies' \subseteq Seq(Byte)
           Caller == /\ job' \in Operations \cup {NoJob} /\ waiting' \in BOOLEAN
                     /\ outcome' \in ClientErrors \cup {"ok", "none", "crashed"}
           Counts == calls' \in 0 .. MaxCalls /\ changes' \in 0 .. MaxChanges /\ dups' \in 0 .. MaxDups
<1>1. /\ job \in Operations \cup {NoJob} /\ waiting \in BOOLEAN
      /\ out \in Seq(S) /\ (job # NoJob => Len(out) >= job.room)
      /\ (waiting => Len(out) = job.room) /\ OnlyRegistersOverrun
      /\ outcome \in ClientErrors \cup {"ok", "none", "crashed"}
      /\ replies \subseteq Seq(Byte) /\ MemoryType(memory)
  BY DEF TypeInv, TypeOK
<1>2. calls \in 0 .. MaxCalls /\ changes \in 0 .. MaxChanges /\ dups \in 0 .. MaxDups
  BY DEF TypeInv, TypeOK
<1>3. MaxCalls \in Nat /\ MaxChanges \in Nat /\ MaxDups \in Nat /\ Forgeries \subseteq Seq(Byte)
  BY MemoryAssumption
<1>4. requests' \subseteq Seq(Byte)
  <2> SUFFICES ASSUME NEW pdu \in requests'
               PROVE  pdu \in Seq(Byte)
    OBVIOUS
  <2>1. Sent(job') /\ pdu = RequestPdu(job').value
    BY DEF CallInv, Pending
  <2> QED
    BY <2>1, RequestReadBack, Zenon
<1>5. ASSUME Buffers, Transit, Caller, Counts, MemoryType(memory')
      PROVE  TypeInv'
  BY <1>4, <1>5, Zenon DEF TypeInv, TypeOK
<1> HIDE DEF S
<1>6. ASSUME UNCHANGED <<out, job>>, waiting' => waiting
      PROVE  Buffers
  BY <1>1, <1>6 DEF OnlyRegistersOverrun
<1>7. ASSUME replies' \subseteq replies
      PROVE  Transit
  BY <1>1, <1>7
<1>8. ASSUME UNCHANGED <<job, waiting, outcome>>
      PROVE  Caller
  BY <1>1, <1>8
<1>9. (dups' = dups \/ Duplicate) => dups' \in 0 .. MaxDups
  BY <1>2, <1>3 DEF Duplicate
<1> HIDE DEF Buffers, Transit, Caller, Counts
<1>10. CASE \E op \in Operations : Execute(op)
  <2>1. PICK op \in Operations : Execute(op)
    BY <1>10
  <2>2. /\ job' = op /\ out' = [i \in 1 .. op.room |-> Untouched] /\ outcome' = Refusal(op)
        /\ replies = {} /\ replies' = replies /\ waiting' \in {TRUE, waiting}
        /\ calls < MaxCalls /\ calls' = calls + 1 /\ UNCHANGED <<dups, changes, memory>>
    BY <2>1 DEF Execute, slaveVars
  <2>3. op.room \in Nat
    BY OperationsAssumption, Zenon DEF OperationType
  <2>4. out' \in [1 .. op.room -> S]
    BY <2>2 DEF S
  <2>5. out' \in Seq(S) /\ Len(out') = op.room
    BY <2>3, <2>4, ListIsSequence
  <2>6. Buffers
    BY <2>2, <2>3, <2>5 DEF Buffers, OnlyRegistersOverrun
  <2>7. Transit
    BY <2>2 DEF Transit
  <2>8. Caller
    BY <1>1, <2>2, RefusalIsFailure DEF Caller, ClientErrors
  <2>9. Counts
    BY <1>2, <1>3, <2>2 DEF Counts
  <2>10. MemoryType(memory')
    BY <1>1, <2>2
  <2> QED
    BY <1>5, <2>6, <2>7, <2>8, <2>9, <2>10
<1>11. CASE \E pdu \in replies : Answer(pdu)
  <2>1. PICK pdu \in replies : Answer(pdu)
    BY <1>11
  <2>2. /\ waiting /\ waiting' = FALSE /\ job' = job /\ out' = Copied(job, out, ResponseOf(job, pdu))
        /\ outcome' \in {"ok", "crashed", "kInvalidResponse"}
        /\ replies' \subseteq replies /\ (dups' = dups \/ Duplicate)
        /\ UNCHANGED <<calls, memory, changes>>
    BY <2>1 DEF Answer, Outcomes, slaveVars
  <2>3. Fits(job, out', job.room)
    BY <2>1, <2>2, AnswerFits
  <2>4. Buffers
    BY <2>2, <2>3 DEF Buffers, Fits, S, OnlyRegistersOverrun
  <2>5. Transit
    BY <1>7, <2>2
  <2>6. Caller
    BY <1>1, <2>2 DEF Caller, ClientErrors
  <2>7. Counts
    BY <1>2, <1>9, <2>2 DEF Counts
  <2>8. MemoryType(memory')
    BY <1>1, <2>2
  <2> QED
    BY <1>5, <2>4, <2>5, <2>6, <2>7, <2>8
<1>12. CASE \E error \in ClientErrors : SendFails(error)
  <2>1. /\ waiting' = FALSE /\ outcome' \in ClientErrors /\ UNCHANGED <<job, out, calls>>
        /\ replies' = replies /\ dups' = dups /\ memory' = memory /\ changes' = changes
    BY <1>12 DEF SendFails, netVars, slaveVars
  <2>2. Caller
    BY <1>1, <2>1 DEF Caller
  <2>3. Counts
    BY <1>2, <2>1 DEF Counts
  <2>4. MemoryType(memory')
    BY <1>1, <2>1
  <2>5. Buffers /\ Transit
    BY <1>6, <1>7, <2>1
  <2> QED
    BY <1>5, <2>2, <2>3, <2>4, <2>5
<1>13. CASE \E pdu \in requests : Serve(pdu)
  <2>1. PICK pdu \in requests : Serve(pdu)
    BY <1>13
  <2>2. UNCHANGED <<job, waiting, out, outcome, calls, changes>> /\ (dups' = dups \/ Duplicate)
    BY <2>1 DEF Serve, callVars
  <2>3. MemoryType(memory') /\ \E reply :
          replies' = replies \cup {reply} /\ AnswerTo(job, reply) /\ reply \in Seq(Byte)
    BY <1>1, <2>1, ServeEffect, Zenon
  <2>4. Transit
    BY <1>1, <2>2, <2>3 DEF Transit
  <2>5. Counts
    BY <1>2, <1>9, <2>2 DEF Counts
  <2>6. Buffers /\ Caller
    BY <1>6, <1>8, <2>2
  <2> QED
    BY <1>5, <2>3, <2>4, <2>5, <2>6
<1>14. CASE \E pdu \in requests, forgery \in Forgeries : Forge(pdu, forgery)
  <2>1. PICK pdu \in requests, forgery \in Forgeries : Forge(pdu, forgery)
    BY <1>14
  <2>2. /\ UNCHANGED <<job, waiting, out, outcome, calls, dups, changes, memory>>
        /\ replies' = replies \cup {forgery}
    BY <2>1 DEF Forge, callVars, slaveVars
  <2>3. Transit
    BY <1>1, <1>3, <2>2 DEF Transit
  <2>4. Counts
    BY <1>2, <2>2 DEF Counts
  <2>5. Buffers /\ Caller
    BY <1>6, <1>8, <2>2
  <2>6. MemoryType(memory')
    BY <1>1, <2>2
  <2> QED
    BY <1>5, <2>3, <2>4, <2>5, <2>6
<1>15. CASE \E t \in Inputs, a \in Addresses, v \in Values : Change(t, a, v)
  <2>1. PICK t \in Inputs, a \in Addresses, v \in Values : Change(t, a, v)
    BY <1>15
  <2>2. /\ UNCHANGED <<job, waiting, out, outcome, calls, dups, replies>>
        /\ changes < MaxChanges /\ changes' = changes + 1
    BY <2>1 DEF Change, callVars, netVars
  <2>3. MemoryType(memory')
    BY <1>1, <2>1, ChangeType
  <2>4. Counts
    BY <1>2, <1>3, <2>2 DEF Counts
  <2>5. Buffers /\ Caller /\ Transit
    BY <1>6, <1>7, <1>8, <2>2
  <2> QED
    BY <1>5, <2>3, <2>4, <2>5
<1>16. ASSUME UNCHANGED <<callVars, slaveVars, dups>>, replies' \subseteq replies
       PROVE  TypeInv'
  <2>1. UNCHANGED <<job, waiting, out, outcome, calls, memory, changes, dups>>
    BY <1>16 DEF callVars, slaveVars
  <2>2. Counts
    BY <1>2, <2>1 DEF Counts
  <2>3. MemoryType(memory')
    BY <1>1, <2>1
  <2>4. Buffers /\ Caller /\ Transit
    BY <1>6, <1>7, <1>8, <1>16, <2>1
  <2> QED
    BY <1>5, <2>2, <2>3, <2>4
<1>17. CASE \E pdu \in requests : LoseRequest(pdu)
  BY <1>16, <1>17 DEF LoseRequest
<1>18. CASE \E pdu \in replies : LoseReply(pdu)
  BY <1>16, <1>18 DEF LoseReply
<1>19. CASE Finished \/ UNCHANGED vars
  BY <1>16, <1>19 DEF Finished, vars, netVars
<1> QED
  BY <1>10, <1>11, <1>12, <1>13, <1>14, <1>15, <1>17, <1>18, <1>19 DEF Next

LEMMA TypeInvariant == Spec => []TypeInv
<1>1. CallInv /\ CallInv' /\ TypeInv /\ [Next]_vars => TypeInv'
  BY NextType
<1> QED
  BY <1>1, InitType, CallInvariant, PTL DEF Spec

(***************************************************************************)
(* Whatever is sent, lost, duplicated or forged, every request and reply   *)
(* is a byte string, the slave's bit tables hold bits and the others       *)
(* words, and the caller's buffer holds nothing but words and what was in  *)
(* it.                                                                     *)
(***************************************************************************)
THEOREM OperationsTypeCorrect == Spec => []TypeOK
<1>1. TypeInv => TypeOK
  BY DEF TypeInv
<1> QED
  BY <1>1, TypeInvariant, PTL

(***************************************************************************)
(* Whatever bytes a slave answers, a write or a read of bits writes        *)
(* nothing behind the caller's buffer, and a read of registers at most     *)
(* what the largest response brings.                                       *)
(***************************************************************************)
THEOREM OverrunsAreOfRegisters == Spec => []OnlyRegistersOverrun
<1>1. TypeInv => OnlyRegistersOverrun
  BY DEF TypeInv
<1> QED
  BY <1>1, TypeInvariant, PTL

----------------------------------------------------------------------------
(***************************************************************************)
(* A truthful slave: the operations are those of a memory.                 *)
(***************************************************************************)

\* A slave that serves every request may still refuse or answer nothing; it does
\* not answer a call what it did not do.
Truthful == \A f \in Forgeries, op \in Operations : f[1] # op.code

AnswerInv ==
  /\ MemoryType(memory)
  /\ \A pdu \in replies : AnswerTo(job, pdu)
  /\ out \in Seq(Word \cup {Untouched})
  /\ BufferKept

\* What the call makes of a response it accepts.
LEMMA AcceptedIsFound ==
  ASSUME CallInv, AnswerInv, waiting, NEW pdu \in replies, ResponseOf(job, pdu).ok
  PROVE  /\ pdu[1] = job.code
         /\ Copied(job, out, ResponseOf(job, pdu)) \in Seq(Word \cup {Untouched})
         /\ \E values \in Found(job, replies) :
              Copied(job, out, ResponseOf(job, pdu)) =
                values \o SubSeq(out, Len(values) + 1, Len(out))
<1>1. Sent(job) /\ AnswerTo(job, pdu) /\ out \in Seq(Word \cup {Untouched})
  BY DEF CallInv, Pending, AnswerInv
<1>2. Taken(job, out, replies, pdu)
  BY <1>1, AcceptedAnswer, Zenon
<1> QED
  BY <1>2 DEF Taken

\* It brings what was asked for, which the buffer has room for.
LEMMA AnswerHasRoom ==
  ASSUME CallInv, AnswerInv, waiting, NEW pdu \in replies
  PROVE  LET response == ResponseOf(job, pdu)
         IN  /\ ~ Overruns(job, response)
             /\ Len(Copied(job, out, response)) = job.room
<1> DEFINE response == ResponseOf(job, pdu)
<1>1. /\ Sent(job) /\ job # NoJob /\ job.room \in Nat /\ AnswerTo(job, pdu)
      /\ out \in Seq(Word \cup {Untouched}) /\ Len(out) = job.room
  BY WaitingBuffer DEF AnswerInv, BufferKept
<1>2. CASE ~ (response.ok /\ ~ job.write)
  BY <1>1, <1>2 DEF Copied, Overruns
<1>3. CASE response.ok /\ ~ job.write
  <2>1. pdu[1] = job.code
    BY <1>3, AcceptedIsFound
  <2>2. PICK v : IsContent(job, v) /\ pdu = ValuesBytes(job.code, [values |-> v])
    BY <1>1, <1>3, <2>1 DEF AnswerTo
  <2>3. response = Ok([values |-> v], <<>>)
    BY <1>1, <1>3, <2>2, AnswerCarries, ZenonT(30)
  <2> HIDE DEF response
  <2>4. v \in Seq(Word) /\ Len(v) = job.quantity /\ Len(v) \in Nat /\ response.value.values = v
    BY <2>2, <2>3, LenProperties DEF IsContent, Ok
  <2>5. Len(v) <= job.room
    BY <1>1, <1>3, <2>4, SentFits
  <2>6. Copied(job, out, response) = v \o SubSeq(out, Len(v) + 1, Len(out))
    BY <1>3, <2>4 DEF Copied
  <2>7. Len(v \o SubSeq(out, Len(v) + 1, Len(out)))
          = IF Len(v) <= Len(out) THEN Len(out) ELSE Len(v)
    BY <1>1, <2>4, CopyLength, Zenon
  <2>8. Len(Copied(job, out, response)) = job.room
    BY <1>1, <2>5, <2>6, <2>7
  <2>9. ~ Overruns(job, response)
    BY <1>1, <2>4, <2>5 DEF Overruns
  <2> QED
    BY <2>8, <2>9 DEF response
<1> QED
  BY <1>2, <1>3

LEMMA InitAnswer == Init => AnswerInv
<1> SUFFICES ASSUME Init
             PROVE  AnswerInv
  OBVIOUS
<1>1. MemoryType(memory)
  BY MemoryAssumption DEF Init
<1>2. out = <<>> /\ replies = {}
  BY DEF Init
<1>3. out \in Seq(Word \cup {Untouched})
  BY <1>2
<1>4. BufferKept
  BY DEF Init, BufferKept
<1> QED
  BY <1>1, <1>2, <1>3, <1>4 DEF AnswerInv

LEMMA NextAnswer ==
  ASSUME Truthful, CallInv, AnswerInv, [Next]_vars
  PROVE  AnswerInv'
<1>1. CASE \E op \in Operations : Execute(op)
  <2>1. PICK op \in Operations : Execute(op)
    BY <1>1
  <2>2. /\ replies' = {} /\ memory' = memory /\ out' = [i \in 1 .. op.room |-> Untouched]
        /\ job' = op /\ outcome' = Refusal(op)
    BY <2>1 DEF Execute, slaveVars
  <2>3. op.room \in Nat
    BY OperationsAssumption, Zenon DEF OperationType
  <2>4. out' \in [1 .. op.room -> Word \cup {Untouched}]
    BY <2>2
  <2>5. out' \in Seq(Word \cup {Untouched}) /\ Len(out') = op.room
    BY <2>3, <2>4, ListIsSequence
  <2>6. outcome' # "crashed"
    BY <2>2, RefusalIsFailure DEF ClientErrors
  <2> QED
    BY <2>2, <2>5, <2>6 DEF AnswerInv, BufferKept
<1>2. CASE \E pdu \in replies : Answer(pdu)
  <2>1. PICK pdu \in replies : Answer(pdu)
    BY <1>2
  <2>2. /\ waiting /\ job' = job /\ replies' \subseteq replies /\ memory' = memory
        /\ out' = Copied(job, out, ResponseOf(job, pdu))
        /\ outcome' \in Outcomes(job, ResponseOf(job, pdu))
    BY <2>1 DEF Answer, slaveVars
  <2>3. out' \in Seq(Word \cup {Untouched})
    <3>1. CASE ResponseOf(job, pdu).ok
      BY <2>2, <3>1, AcceptedIsFound
    <3>2. CASE ~ ResponseOf(job, pdu).ok
      BY <2>2, <3>2 DEF Copied, AnswerInv
    <3> QED
      BY <3>1, <3>2
  <2>4. Len(out') = job.room /\ outcome' # "crashed"
    BY <2>1, <2>2, AnswerHasRoom DEF Outcomes
  <2> QED
    BY <2>2, <2>3, <2>4 DEF AnswerInv, BufferKept
<1>3. CASE \E pdu \in requests : Serve(pdu)
  <2>1. PICK pdu \in requests : Serve(pdu)
    BY <1>3
  <2>2. job' = job /\ out' = out /\ outcome' = outcome
    BY <2>1 DEF Serve, callVars
  <2>3. MemoryType(memory') /\ \A reply \in replies' : AnswerTo(job, reply)
    BY <2>1, ServeEffect DEF AnswerInv
  <2> QED
    BY <2>2, <2>3 DEF AnswerInv, BufferKept
<1>4. CASE \E pdu \in requests, forgery \in Forgeries : Forge(pdu, forgery)
  <2>1. PICK pdu \in requests, forgery \in Forgeries : Forge(pdu, forgery)
    BY <1>4
  <2>2. /\ job' = job /\ out' = out /\ memory' = memory /\ outcome' = outcome
        /\ replies' = replies \cup {forgery}
    BY <2>1 DEF Forge, callVars, slaveVars
  <2>3. job \in Operations
    BY DEF CallInv, Pending
  <2>4. forgery[1] # job.code
    BY <2>3 DEF Truthful
  <2>5. forgery \in Seq(Byte)
    BY MemoryAssumption
  <2>6. Len(forgery) \in Nat
    BY <2>5, LenProperties
  <2>7. AnswerTo(job, forgery)
    BY <2>4, <2>6 DEF AnswerTo
  <2> QED
    BY <2>2, <2>7 DEF AnswerInv, BufferKept
<1>5. ASSUME job' = job, out' = out, memory' = memory, replies' \subseteq replies,
             outcome' = "crashed" => outcome = "crashed"
      PROVE  AnswerInv'
  BY <1>5 DEF AnswerInv, BufferKept
<1>6. CASE \E error \in ClientErrors : SendFails(error)
  BY <1>5, <1>6 DEF SendFails, netVars, slaveVars, ClientErrors
<1>7. CASE \E pdu \in requests : LoseRequest(pdu)
  BY <1>5, <1>7 DEF LoseRequest, callVars, slaveVars
<1>8. CASE \E pdu \in replies : LoseReply(pdu)
  BY <1>5, <1>8 DEF LoseReply, callVars, slaveVars
<1>9. CASE \E t \in Inputs, a \in Addresses, v \in Values : Change(t, a, v)
  <2>1. PICK t \in Inputs, a \in Addresses, v \in Values : Change(t, a, v)
    BY <1>9
  <2>2. job' = job /\ out' = out /\ replies' = replies /\ outcome' = outcome
    BY <2>1 DEF Change, callVars, netVars
  <2>3. MemoryType(memory')
    BY <2>1, ChangeType DEF AnswerInv
  <2> QED
    BY <2>2, <2>3 DEF AnswerInv, BufferKept
<1>10. CASE Finished \/ UNCHANGED vars
  BY <1>5, <1>10 DEF Finished, vars, callVars, netVars, slaveVars
<1> QED
  BY <1>1, <1>2, <1>3, <1>4, <1>6, <1>7, <1>8, <1>9, <1>10 DEF Next

LEMMA AnswerInvariant ==
  ASSUME Truthful
  PROVE  Spec => []AnswerInv
<1>1. CallInv /\ AnswerInv /\ [Next]_vars => AnswerInv'
  BY NextAnswer
<1> QED
  BY <1>1, InitAnswer, CallInvariant, PTL DEF Spec

(***************************************************************************)
(* A slave that answers no call with the function code of a request it     *)
(* did not serve never makes a call write behind the caller's buffer.      *)
(***************************************************************************)
THEOREM BufferIsKept ==
  ASSUME Truthful
  PROVE  Spec => []BufferKept
<1>1. AnswerInv => BufferKept
  BY DEF AnswerInv
<1> QED
  BY <1>1, AnswerInvariant, PTL

----------------------------------------------------------------------------
(***************************************************************************)
(* A write that succeeded holds.                                           *)
(***************************************************************************)

Held ==
  \A i \in DOMAIN job.values :
    /\ job.address + i - 1 \in Addresses
    /\ memory[job.table][job.address + i - 1] = job.values[i]

\* WriteHolds alone is not inductive: a success has to find the values already
\* written, so that they are when any answer of the call's function code comes.
HeldInv ==
  /\ \A pdu \in replies : pdu[1] = job.code /\ job.write => Held
  /\ outcome = "ok" /\ job.write => Held

LEMMA NextHeld ==
  ASSUME Truthful, CallInv, AnswerInv, HeldInv, [Next]_vars
  PROVE  HeldInv'
<1>1. CASE \E op \in Operations : Execute(op)
  <2>1. PICK op \in Operations : Execute(op)
    BY <1>1
  <2>2. replies' = {} /\ outcome' = Refusal(op)
    BY <2>1 DEF Execute
  <2>3. outcome' # "ok"
    BY <2>2, RefusalIsFailure
  <2> QED
    BY <2>2, <2>3 DEF HeldInv
<1>2. CASE \E pdu \in replies : Answer(pdu)
  <2>1. PICK pdu \in replies : Answer(pdu)
    BY <1>2
  <2>2. /\ waiting /\ job' = job /\ replies' \subseteq replies /\ memory' = memory
        /\ outcome' \in Outcomes(job, ResponseOf(job, pdu))
    BY <2>1 DEF Answer, slaveVars
  <2>3. Held' <=> Held
    BY <2>2 DEF Held
  <2>4. outcome' = "ok" => pdu[1] = job.code
    BY <2>2, AcceptedIsFound DEF Accepts, Outcomes
  <2> QED
    BY <2>2, <2>3, <2>4 DEF HeldInv
<1>3. CASE \E pdu \in requests : Serve(pdu)
  <2>1. PICK pdu \in requests : Serve(pdu)
    BY <1>3
  <2>2. job' = job /\ outcome' = outcome
    BY <2>1 DEF Serve, callVars
  <2>3. MemoryType(memory)
    BY DEF AnswerInv
  <2>4. CASE ~ job.write
    BY <2>2, <2>4 DEF HeldInv
  <2>5. CASE job.write /\ Place(job) \subseteq Addresses
    <3>1. Sent(job) /\ memory' = WrittenTo(memory, job)
      BY <2>1, <2>3, <2>5, ServeEffect, Zenon
    <3>2. Held'
      BY <2>2, <2>3, <2>5, <3>1, WrittenIsHeld DEF Held
    <3> QED
      BY <3>2 DEF HeldInv
  <2>6. CASE job.write /\ ~ Place(job) \subseteq Addresses
    <3>1. PICK reply : replies' = replies \cup {reply} /\ memory' = memory /\ reply[1] # job.code
      BY <2>1, <2>3, <2>6, ServeEffect, Zenon
    <3>2. Held' <=> Held
      BY <2>2, <3>1 DEF Held
    <3> QED
      BY <2>2, <3>1, <3>2 DEF HeldInv
  <2> QED
    BY <2>4, <2>5, <2>6
<1>4. CASE \E pdu \in requests, forgery \in Forgeries : Forge(pdu, forgery)
  <2>1. PICK pdu \in requests, forgery \in Forgeries : Forge(pdu, forgery)
    BY <1>4
  <2>2. /\ job' = job /\ outcome' = outcome /\ memory' = memory
        /\ replies' = replies \cup {forgery}
    BY <2>1 DEF Forge, callVars, slaveVars
  <2>3. forgery[1] # job.code
    BY DEF Truthful, CallInv, Pending
  <2>4. Held' <=> Held
    BY <2>2 DEF Held
  <2> QED
    BY <2>2, <2>3, <2>4 DEF HeldInv
<1>5. ASSUME job' = job, memory' = memory, replies' \subseteq replies, outcome' = "ok" => outcome = "ok"
      PROVE  HeldInv'
  <2>1. Held' <=> Held
    BY <1>5 DEF Held
  <2> QED
    BY <1>5, <2>1 DEF HeldInv
<1>6. CASE \E error \in ClientErrors : SendFails(error)
  BY <1>5, <1>6 DEF SendFails, netVars, slaveVars, ClientErrors
<1>7. CASE \E pdu \in requests : LoseRequest(pdu)
  BY <1>5, <1>7 DEF LoseRequest, callVars, slaveVars
<1>8. CASE \E pdu \in replies : LoseReply(pdu)
  BY <1>5, <1>8 DEF LoseReply, callVars, slaveVars
<1>9. CASE \E t \in Inputs, a \in Addresses, v \in Values : Change(t, a, v)
  <2>1. PICK t \in Inputs, a \in Addresses, v \in Values : Change(t, a, v)
    BY <1>9
  <2>2. /\ job' = job /\ outcome' = outcome /\ replies' = replies
        /\ memory' = [memory EXCEPT ![t][a] = v]
    BY <2>1 DEF Change, callVars, netVars
  <2>3. ASSUME job.write, Held, Sent(job)
        PROVE  Held'
    <3>1. job.table # t
      BY <2>3, SentFields DEF Inputs
    <3>2. memory'[job.table] = memory[job.table]
      BY <2>2, <2>3, <3>1, SentFields DEF AnswerInv, MemoryType
    <3> QED
      BY <2>2, <2>3, <3>2 DEF Held
  <2> QED
    BY <2>2, <2>3 DEF HeldInv, CallInv, Pending
<1>10. CASE Finished \/ UNCHANGED vars
  BY <1>5, <1>10 DEF Finished, vars, callVars, netVars, slaveVars
<1> QED
  BY <1>1, <1>2, <1>3, <1>4, <1>6, <1>7, <1>8, <1>9, <1>10 DEF Next

(***************************************************************************)
(* A write that succeeded is in the slave's memory until the next call,    *)
(* whatever was lost, duplicated or served late, as long as the slave      *)
(* answers no call with the function code of a request it did not serve.   *)
(***************************************************************************)
THEOREM SuccessfulWriteHolds ==
  ASSUME Truthful
  PROVE  Spec => []WriteHolds
<1>1. Init => HeldInv
  BY DEF Init, HeldInv
<1>2. CallInv /\ AnswerInv /\ HeldInv /\ [Next]_vars => HeldInv'
  BY NextHeld
<1>3. HeldInv => WriteHolds
  BY DEF HeldInv, Held, WriteHolds
<1> QED
  BY <1>1, <1>2, <1>3, CallInvariant, AnswerInvariant, PTL DEF Spec

----------------------------------------------------------------------------
(***************************************************************************)
(* The operations implement RemoteMemory.                                  *)
(***************************************************************************)

LEMMA InitAbstract == Init => Abstract!Init
<1>1. Init => outcome \notin ClientErrors /\ Found(job, replies) = {}
  BY NothingFound DEF Init, ClientErrors
<1> QED
  BY <1>1 DEF Init, Abstract!Init, NoJob, Abstract!NoJob

\* What RemoteMemory sees of a step that only loses what is in transit.
LEMMA LossIsForgotten ==
  ASSUME job' = job, memory' = memory, waiting' = waiting, out' = out, outcome' = outcome,
         requests' \subseteq requests, Found(job, replies') \subseteq Found(job, replies)
  PROVE  Abstract!Next
<1>1. (requests' # {}) \in {FALSE, requests # {}}
  <2>1. CASE requests' = {}
    BY <2>1
  <2>2. CASE requests' # {}
    BY <2>2
  <2> QED
    BY <2>1, <2>2
<1>2. Abstract!Forget
  BY <1>1 DEF Abstract!Forget
<1> QED
  BY <1>2 DEF Abstract!Next

LEMMA NextAbstract ==
  ASSUME Truthful, CallInv, AnswerInv, [Next]_vars
  PROVE  [Abstract!Next]_(Abstract!vars)
<1>1. CASE \E op \in Operations : Execute(op)
  <2>1. PICK op \in Operations : Execute(op)
    BY <1>1
  <2>2. /\ ~ waiting /\ requests = {} /\ replies = {} /\ replies' = {} /\ memory' = memory
        /\ job' = op /\ out' = Abstract!Buffer(op) /\ outcome' = Refusal(op)
    BY <2>1 DEF Execute, slaveVars, Abstract!Buffer
  <2>3. Found(job, replies) = {} /\ Found(job', replies') = {}
    BY <2>2, NothingFound
  <2>4. CASE Refusal(op) = "none"
    <3>1. waiting' = TRUE /\ requests' # {}
      BY <2>1, <2>4 DEF Execute
    <3>2. Sent(op)
      BY <2>4, OperationsAssumption DEF Sent
    <3>3. op.quantity > 0 /\ (op.write \/ op.quantity <= op.room)
      BY <3>2, SentFits
    <3>4. outcome' \notin ClientErrors /\ outcome' = "none"
      BY <2>2, <2>4 DEF ClientErrors
    <3>5. Abstract!Begin(op)
      BY <2>2, <2>3, <3>1, <3>3, <3>4 DEF Abstract!Begin
    <3> QED
      BY <3>5 DEF Abstract!Next
  <2>5. CASE Refusal(op) # "none"
    <3>1. waiting' = waiting /\ requests' = requests
      BY <2>1, <2>5 DEF Execute
    <3>2. outcome' \in ClientErrors
      BY <2>2, <2>5, RefusalIsFailure DEF ClientErrors
    <3>3. Abstract!Refuse(op)
      BY <2>2, <2>3, <3>1, <3>2 DEF Abstract!Refuse
    <3> QED
      BY <3>3 DEF Abstract!Next
  <2> QED
    BY <2>4, <2>5
<1>2. CASE \E pdu \in replies : Answer(pdu)
  <2>1. PICK pdu \in replies : Answer(pdu)
    BY <1>2
  <2> DEFINE response == ResponseOf(job, pdu)
  <2>2. /\ waiting /\ waiting' = FALSE /\ job' = job /\ memory' = memory /\ requests' = requests
        /\ replies' \subseteq replies
        /\ out' = Copied(job, out, response)
        /\ outcome' = IF response.ok THEN "ok" ELSE "kInvalidResponse"
    BY <2>1, AnswerHasRoom DEF Answer, slaveVars, Accepts, Outcomes
  <2>3. Found(job', replies') \subseteq Found(job, replies)
    BY <2>2, FoundIn
  <2>4. CASE response.ok
    <3>1. \E values \in Found(job, replies) :
            out' = values \o SubSeq(out, Len(values) + 1, Len(out))
      BY <2>2, <2>4, AcceptedIsFound
    <3>2. outcome' \notin ClientErrors /\ outcome' = "ok"
      BY <2>2, <2>4 DEF ClientErrors
    <3> HIDE DEF response
    <3>3. Abstract!Succeed
      BY <2>2, <2>3, <3>1, <3>2 DEF Abstract!Succeed
    <3> QED
      BY <3>3 DEF Abstract!Next
  <2>5. CASE ~ response.ok
    <3>1. outcome' \in ClientErrors
      BY <2>2, <2>5 DEF ClientErrors
    <3>2. out' = out
      BY <2>2, <2>5 DEF Copied
    <3> HIDE DEF response
    <3>3. Abstract!Fail
      BY <2>2, <2>3, <3>1, <3>2 DEF Abstract!Fail
    <3> QED
      BY <3>3 DEF Abstract!Next
  <2> QED
    BY <2>4, <2>5
<1>3. CASE \E error \in ClientErrors : SendFails(error)
  <2>1. /\ waiting /\ waiting' = FALSE /\ job' = job /\ memory' = memory
        /\ requests' = requests /\ replies' = replies
        /\ out' = out /\ outcome' \in ClientErrors
    BY <1>3 DEF SendFails, netVars, slaveVars
  <2>2. Found(job', replies') = Found(job, replies)
    BY <2>1
  <2>3. Abstract!Fail
    BY <2>1, <2>2 DEF Abstract!Fail
  <2> QED
    BY <2>3 DEF Abstract!Next
<1>4. CASE \E pdu \in requests : Serve(pdu)
  <2>1. PICK pdu \in requests : Serve(pdu)
    BY <1>4
  <2>2. /\ job' = job /\ waiting' = waiting /\ out' = out /\ outcome' = outcome
        /\ requests # {} /\ requests' \subseteq requests
    BY <2>1 DEF Serve, callVars
  <2>3. PICK reply :
          /\ replies' = replies \cup {reply} /\ AnswerTo(job, reply)
          /\ Place(job) \subseteq Addresses =>
               /\ memory' = WrittenTo(memory, job)
               /\ reply[1] = job.code
               /\ ~ job.write =>
                    Unpack(job.code, From(reply, 2), job.quantity) = AnswerFrom(memory, job)
          /\ ~ Place(job) \subseteq Addresses =>
               memory' = memory /\ reply[1] # job.code
    BY <2>1, ServeEffect, Zenon DEF AnswerInv
  <2>4. CASE Place(job) \subseteq Addresses
    <3>1. Abstract!Place(job) \subseteq Addresses
      BY <2>4 DEF Place, Abstract!Place
    <3>2. memory' = Abstract!Written(job)
      BY <2>3, <2>4 DEF WrittenTo, Place, Abstract!Written, Abstract!Place
    <3>3. Abstract!Answer(job) = AnswerFrom(memory, job)
      BY DEF AnswerFrom, Abstract!Answer
    <3>4. Found(job, replies') = Found(job, replies) \cup {AnswerFrom(memory, job)}
      <4>1. Found(job, replies') =
              Found(job, replies) \cup
                {IF job.write THEN <<>> ELSE Unpack(job.code, From(reply, 2), job.quantity)}
        BY <2>3, <2>4, FoundIn, Zenon
      <4>2. (IF job.write THEN <<>> ELSE Unpack(job.code, From(reply, 2), job.quantity))
              = AnswerFrom(memory, job)
        BY <2>3, <2>4 DEF AnswerFrom
      <4> QED
        BY <4>1, <4>2, Zenon
    <3>5. (requests' # {}) \in BOOLEAN
      OBVIOUS
    <3>6. Abstract!TakeEffect
      BY <2>2, <3>1, <3>2, <3>3, <3>4, <3>5 DEF Abstract!TakeEffect
    <3> QED
      BY <3>6 DEF Abstract!Next
  <2>5. CASE ~ Place(job) \subseteq Addresses
    <3>1. Found(job, replies') = Found(job, replies)
      BY <2>3, <2>5, FoundIn, Zenon
    <3> QED
      BY <2>2, <2>3, <2>5, <3>1, LossIsForgotten
  <2> QED
    BY <2>4, <2>5
<1>5. CASE \E pdu \in requests, forgery \in Forgeries : Forge(pdu, forgery)
  <2>1. PICK pdu \in requests, forgery \in Forgeries : Forge(pdu, forgery)
    BY <1>5
  <2>2. /\ job' = job /\ waiting' = waiting /\ out' = out /\ outcome' = outcome
        /\ memory' = memory /\ requests' \subseteq requests
        /\ replies' = replies \cup {forgery}
    BY <2>1 DEF Forge, callVars, slaveVars
  <2>3. forgery[1] # job.code
    BY DEF Truthful, CallInv, Pending
  <2>4. Found(job, replies') = Found(job, replies)
    BY <2>2, <2>3, FoundIn, Zenon
  <2> QED
    BY <2>2, <2>4, LossIsForgotten
<1>6. CASE \E pdu \in requests : LoseRequest(pdu)
  <2>1. /\ job' = job /\ waiting' = waiting /\ out' = out /\ outcome' = outcome
        /\ memory' = memory /\ requests' \subseteq requests /\ replies' = replies
    BY <1>6 DEF LoseRequest, callVars, slaveVars
  <2>2. Found(job, replies') \subseteq Found(job, replies)
    BY <2>1
  <2> QED
    BY <2>1, <2>2, LossIsForgotten
<1>7. CASE \E pdu \in replies : LoseReply(pdu)
  <2>1. /\ job' = job /\ waiting' = waiting /\ out' = out /\ outcome' = outcome
        /\ memory' = memory /\ requests' = requests /\ replies' \subseteq replies
    BY <1>7 DEF LoseReply, callVars, slaveVars
  <2>2. Found(job, replies') \subseteq Found(job, replies)
    BY <2>1, FoundIn
  <2> QED
    BY <2>1, <2>2, LossIsForgotten
<1>8. CASE \E t \in Inputs, a \in Addresses, v \in Values : Change(t, a, v)
  <2>1. PICK t \in Inputs, a \in Addresses, v \in Values : Change(t, a, v)
    BY <1>8
  <2>2. /\ job' = job /\ waiting' = waiting /\ out' = out /\ outcome' = outcome
        /\ requests' = requests /\ replies' = replies
        /\ memory' = [memory EXCEPT ![t][a] = v]
    BY <2>1 DEF Change, callVars, netVars
  <2>3. t \in Tables /\ v \in Word
    BY MemoryAssumption DEF Inputs, Tables
  <2>4. memory \in [Tables -> [Addresses -> Word]]
    BY DEF AnswerInv, MemoryType
  <2>5. memory'[t] \in [Addresses -> Word] /\ memory' = [memory EXCEPT ![t] = memory'[t]]
    BY <2>2, <2>3, <2>4
  <2>6. Found(job', replies') = Found(job, replies)
    BY <2>2
  <2>7. Abstract!Change
    BY <2>2, <2>5, <2>6 DEF Abstract!Change
  <2> QED
    BY <2>7 DEF Abstract!Next
<1>9. CASE Finished \/ UNCHANGED vars
  <2>1. /\ job' = job /\ waiting' = waiting /\ out' = out /\ outcome' = outcome
        /\ memory' = memory /\ requests' = requests /\ replies' = replies
    BY <1>9 DEF Finished, vars, callVars, netVars, slaveVars
  <2>2. Found(job, replies') \subseteq Found(job, replies)
    BY <2>1
  <2> QED
    BY <2>1, <2>2, LossIsForgotten
<1> QED
  BY <1>1, <1>2, <1>3, <1>4, <1>5, <1>6, <1>7, <1>8, <1>9 DEF Next

(***************************************************************************)
(* As long as the slave answers no call with the function code of a        *)
(* request it did not serve, the caller cannot tell the operations from    *)
(* those of a memory: a read that succeeds gives what the memory held at   *)
(* one moment of the call, and a write takes effect during its call, or    *)
(* after its failure and before the next call, or never.                   *)
(***************************************************************************)
THEOREM MemoryIsKept ==
  ASSUME Truthful
  PROVE  Spec => MemoryKept
<1>1. Init => Abstract!Init
  BY InitAbstract
<1>2. CallInv /\ AnswerInv /\ [Next]_vars => [Abstract!Next]_(Abstract!vars)
  BY NextAbstract
<1> QED
  BY <1>1, <1>2, CallInvariant, AnswerInvariant, PTL DEF Spec, MemoryKept, Abstract!Spec

=============================================================================
