------------------------- MODULE SharedClientProofs -------------------------
(***************************************************************************)
(* Proofs about SharedClient, for any callers, operations and contents,    *)
(* and any network: every step is one of UdpClient, so that what holds of  *)
(* UdpClient holds of the whole client, a success was answered by what was *)
(* sent to a kindred call (OnlyKindred), a caller to whose calls no other  *)
(* caller's are kindred has a memory (CallerHasMemory), and what is        *)
(* written behind a buffer is another call's answer (OverrunIsKindreds).   *)
(***************************************************************************)
EXTENDS SharedClient, UdpClientProofs, MessagesProofs

----------------------------------------------------------------------------
(***************************************************************************)
(* The answers of the slave, and what a call accepts of them.              *)
(***************************************************************************)

LEMMA UsesAreSent ==
  ASSUME NEW op \in Operations, Refusal(op) = "none"
  PROVE  Sent(op)
BY UsesAssumption DEF Operations, Sent

LEMMA TableOfIsTable == \A code : TableOf(code) \in Tables
BY DEF TableOf, Tables

LEMMA ReadAnswers ==
  ASSUME NEW op, op.code \in ReadCodes
  PROVE  AnswersOf(op) = {IllegalDataAddress(op.code)} \cup
           {ValuesBytes(op.code, [values |-> v]) : v \in [1 .. op.quantity -> Values[op.table]]}
<1>1. op.code \notin WriteSingleCodes /\ op.code \notin WriteMultipleCodes
  BY CodeNumbers
<1> QED
  BY <1>1, Zenon DEF AnswersOf

LEMMA SingleAnswers ==
  ASSUME NEW op, op.code \in WriteSingleCodes
  PROVE  AnswersOf(op) = {IllegalDataAddress(op.code)} \cup
           {SingleBytes(op.code, [address |-> op.address, value |-> op.values[1]])}
BY CodeNumbers DEF AnswersOf

LEMMA MultipleAnswers ==
  ASSUME NEW op, op.code \in WriteMultipleCodes
  PROVE  AnswersOf(op) = {IllegalDataAddress(op.code)} \cup
           {RangeBytes(op.code, [address |-> op.address, quantity |-> op.quantity])}
BY CodeNumbers DEF AnswersOf

\* An answer begins with the function code of its call, which has the error flag
\* in an exception; bits come behind their byte count.
LEMMA AnswerHead ==
  ASSUME NEW op, Sent(op), NEW pdu \in AnswersOf(op)
  PROVE  /\ Len(pdu) \in Nat
         /\ pdu[1] \in {op.code, op.code + 128}
         /\ pdu[1] = op.code /\ op.code \in ReadCodes \cap BitCodes =>
              pdu[2] = BitsToBytes(op.quantity)
<1>1. /\ op.code \in ReadCodes \cup WriteSingleCodes \cup WriteMultipleCodes
      /\ op.code \in 1 .. 127
  BY CodeNumbers DEF Sent, OperationType
<1>2. op.address \in Word /\ op.quantity \in Word /\ op.values \in Seq(Word)
  BY DEF Sent, OperationType
<1>3. CASE pdu = IllegalDataAddress(op.code)
  <2>1. Len(pdu) = 2 /\ pdu[1] = op.code + 128
    BY <1>1, <1>3, ErrorHead
  <2>2. pdu[1] # op.code
    BY <1>1, <2>1
  <2> QED
    BY <2>1, <2>2
<1>4. CASE op.code \in ReadCodes /\ pdu # IllegalDataAddress(op.code)
  <2>1. PICK v \in [1 .. op.quantity -> Values[op.table]] :
               pdu = ValuesBytes(op.code, [values |-> v])
    BY <1>4, ReadAnswers
  <2> DEFINE n == op.quantity
             code == op.code
  <2>2. QuantityAllowed(code, n)
    BY <1>4, SentRead, Zenon
  <2>3. v = [i \in 1 .. n |-> v[i]]
    BY Zenon
  <2>4. n \in Word /\ code \in ReadCodes
    BY <1>2, <1>4, Zenon
  <2>5. n \in Nat
    BY <2>4, WordIsNat, Zenon
  <2> HIDE DEF n, code
  <2>6. /\ Len(ValuesBytes(code, [values |-> v])) \in Nat
        /\ ValuesBytes(code, [values |-> v])[1] = code
        /\ ValuesBytes(code, [values |-> v])[2] = ByteCount(code, n)
    BY <2>3, <2>5, ValuesHead
  <2>7. code \in BitCodes => ByteCount(code, n) = BitsToBytes(n)
    BY <2>2, <2>4, BitsFit, Zenon
  <2> QED
    BY <2>1, <2>6, <2>7 DEF n, code
<1>5. CASE op.code \in WriteSingleCodes /\ pdu # IllegalDataAddress(op.code)
  <2> DEFINE m == [address |-> op.address, value |-> op.values[1]]
             w == IF op.code \in BitCodes THEN CoilToRaw(m.value) ELSE m.value
  <2>1. pdu = SingleBytes(op.code, m)
    BY <1>5, SingleAnswers
  <2>2. op.code \notin ReadCodes
    BY <1>5, CodeNumbers
  <2>3. Len(op.values) = 1
    BY <1>5, <2>2, Zenon DEF Sent, OperationType
  <2>4. op.values[1] \in Word
    BY <1>2, <2>3, ElementOfSeq
  <2>5. w \in Word
    BY <2>4, CoilIsWord, Zenon
  <2>6. pdu = <<op.code>> \o Be16(op.address) \o Be16(w)
    BY <2>1, Zenon DEF SingleBytes
  <2> HIDE DEF w
  <2>7. op.code \in Nat
    BY <1>1
  <2>8. Len(pdu) = 5 /\ pdu[1] = op.code
    BY <1>2, <2>5, <2>6, <2>7, Be16Head, Zenon
  <2> QED
    BY <1>5, <2>8, CodeNumbers
<1>6. CASE op.code \in WriteMultipleCodes /\ pdu # IllegalDataAddress(op.code)
  <2>1. pdu = RangeBytes(op.code, [address |-> op.address, quantity |-> op.quantity])
    BY <1>6, MultipleAnswers
  <2>2. pdu = <<op.code>> \o Be16(op.address) \o Be16(op.quantity)
    BY <2>1 DEF RangeBytes
  <2>3. op.code \in Nat
    BY <1>1
  <2>4. Len(pdu) = 5 /\ pdu[1] = op.code
    BY <1>2, <2>2, <2>3, Be16Head, Zenon
  <2> QED
    BY <1>6, <2>4, CodeNumbers
<1> QED
  BY <1>1, <1>3, <1>4, <1>5, <1>6

\* A call accepts an answer only when it was given to a kindred call.
LEMMA AcceptedIsKindred ==
  ASSUME NEW a, Sent(a), NEW b, Sent(b), NEW pdu \in AnswersOf(b), ResponseOf(a, pdu).ok
  PROVE  Kindred(a, b)
<1>1. /\ a.code \in ReadCodes \cup WriteSingleCodes \cup WriteMultipleCodes
      /\ b.code \in ReadCodes \cup WriteSingleCodes \cup WriteMultipleCodes
  BY DEF Sent, OperationType
<1>2. /\ Len(pdu) \in Nat
      /\ pdu[1] \in {b.code, b.code + 128}
      /\ pdu[1] = b.code /\ b.code \in ReadCodes \cap BitCodes =>
           pdu[2] = BitsToBytes(b.quantity)
  BY AnswerHead
<1>3. /\ pdu[1] = a.code
      /\ a.code \in ReadCodes \cap BitCodes => pdu[2] = BitsToBytes(a.quantity)
  BY <1>1, <1>2, ResponseAccepted
<1>5. a.code \in 1 .. 127 /\ b.code \in 1 .. 127
  BY <1>1, CodeNumbers
<1>6. \A x, y \in 1 .. 127 : x \in {y, y + 128} => x = y
  OBVIOUS
<1>4. a.code = b.code
  BY <1>2, <1>3, <1>5, <1>6, Zenon
<1> QED
  BY <1>2, <1>3, <1>4 DEF Kindred

\* What the slave stores and answers: its tables keep their contents, and what it
\* answers to a call is among the answers to it.
LEMMA ExecutedAnswers ==
  ASSUME NEW op \in Operations, Refusal(op) = "none",
         NEW tables \in [Tables -> [Addresses -> Word]],
         \A t \in Tables : tables[t] \in [Addresses -> Values[t]]
  PROVE  LET done == Executed(tables, op.code, Created(op).value)
         IN  /\ done.reply \in AnswersOf(op)
             /\ done.tables \in [Tables -> [Addresses -> Word]]
             /\ \A t \in Tables : done.tables[t] \in [Addresses -> Values[t]]
<1> DEFINE m == Created(op).value
           code == op.code
           done == Executed(tables, code, m)
           Kept(new) == /\ new \in [Tables -> [Addresses -> Word]]
                        /\ \A t \in Tables : new[t] \in [Addresses -> Values[t]]
<1>1. Sent(op)
  BY UsesAreSent
<1>2. /\ code \in ReadCodes \cup WriteSingleCodes \cup WriteMultipleCodes
      /\ op.table = TableOf(code)
      /\ op.address \in Word /\ op.quantity \in Word /\ op.values \in Seq(Word)
  BY <1>1 DEF Sent, OperationType
<1>3. op.table \in Tables
  BY <1>2, TableOfIsTable, Zenon
<1>4. \A i \in DOMAIN op.values : op.values[i] \in Values[op.table]
  BY CarriedAssumption DEF Operations
<1>5. Kept(tables)
  OBVIOUS
<1>8. op.address \in Nat /\ op.quantity \in Nat
  BY <1>2, WordIsNat, Zenon
<1>6. CASE ~ (Covered(code, m) \subseteq Addresses)
  <2>1. done = [tables |-> tables, reply |-> IllegalDataAddress(code)]
    BY <1>6 DEF Executed
  <2>2. IllegalDataAddress(code) \in AnswersOf(op)
    BY DEF AnswersOf
  <2> QED
    BY <1>5, <2>1, <2>2
<1>7. CASE Covered(code, m) \subseteq Addresses
  <2>1. done = [tables |-> Stored(tables, code, m), reply |-> Response(tables, code, m)]
    BY <1>7 DEF Executed
  <2>2. CASE code \in ReadCodes
    <3>1. m = [address |-> op.address, quantity |-> op.quantity]
      BY <1>1, <2>2, SentRead
    <3>2. Stored(tables, code, m) = tables
      BY <2>2 DEF Stored
    <3> DEFINE v == [i \in 1 .. op.quantity |-> tables[op.table][op.address + i - 1]]
    <3>3. Covered(code, m) = op.address .. op.address + op.quantity - 1
      BY <2>2, <3>1, CodeNumbers DEF Covered, Extent
    <3>4. v \in [1 .. op.quantity -> Values[op.table]]
      <4>2. \A i \in 1 .. op.quantity : op.address + i - 1 \in Addresses
        BY <1>7, <1>8, <3>3
      <4>3. tables[op.table] \in [Addresses -> Values[op.table]]
        BY <1>3
      <4> QED
        BY <4>2, <4>3
    <3>5. ResponseKind(code) = "values"
      BY <2>2, CodeNumbers DEF ResponseKind
    <3>6. Response(tables, code, m) = ValuesBytes(code, [values |-> v])
      BY <1>2, <2>2, <3>1, <3>5, CodeNumbers DEF Response, EncodingOf
    <3>7. Response(tables, code, m) \in AnswersOf(op)
      BY <2>2, <3>4, <3>6, ReadAnswers, ZenonT(30)
    <3> QED
      BY <1>5, <2>1, <3>2, <3>7
  \* Writing values that may be in the table keeps the tables what they were.
  <2>3. ASSUME code \notin ReadCodes, NEW values,
               Stored(tables, code, m) =
                 [tables EXCEPT ![TableOf(code)] =
                    [a \in Addresses |->
                       IF a \in Covered(code, m) THEN values[a - m.address + 1] ELSE @[a]]],
               \A a \in Covered(code, m) : values[a - m.address + 1] \in Values[op.table]
        PROVE  Kept(Stored(tables, code, m))
    <3> DEFINE new == [a \in Addresses |->
                         IF a \in Covered(code, m) THEN values[a - m.address + 1]
                         ELSE tables[op.table][a]]
    <3>1. Stored(tables, code, m) = [tables EXCEPT ![op.table] = new]
      BY <1>2, <1>3, <2>3
    <3>2. new \in [Addresses -> Values[op.table]]
      BY <1>3, <2>3
    <3>3. Values[op.table] \subseteq Word
      BY <1>3, TablesAssumption
    <3>4. new \in [Addresses -> Word]
      BY <3>2, <3>3
    <3> HIDE DEF new
    <3> QED
      BY <1>3, <3>1, <3>2, <3>4
  <2>4. CASE code \in WriteSingleCodes
    <3>1. m = [address |-> op.address, value |-> op.values[1]]
      BY <1>1, <2>4, SentSingle
    <3>2. code \notin ReadCodes
      BY <2>4, CodeNumbers
    <3>3. ResponseKind(code) = "single"
      BY <2>4, <3>2, CodeNumbers DEF ResponseKind
    <3>4. Response(tables, code, m) = SingleBytes(code, m)
      BY <2>4, <3>2, <3>3, CodeNumbers DEF Response, EncodingOf
    <3>5. Len(op.values) = 1
      BY <1>1, <2>4, <3>2, Zenon DEF Sent, OperationType
    <3>6. op.values[1] \in Values[op.table]
      BY <1>2, <1>4, <3>5
    <3>8. Extent(code, m) = 1
      BY <2>4, <3>2, CodeNumbers DEF Extent
    <3>11. m.address = op.address /\ m.value = op.values[1]
      BY <3>1
    <3>7. Covered(code, m) = op.address .. op.address + 1 - 1
      BY <3>8, <3>11, Zenon DEF Covered
    <3>9. \A a \in Covered(code, m) : <<m.value>>[a - m.address + 1] \in Values[op.table]
      BY <1>8, <3>6, <3>7, <3>11
    <3>10. Kept(Stored(tables, code, m))
      BY <2>3, <2>4, <3>2, <3>9 DEF Stored
    <3> QED
      BY <2>1, <2>4, <3>1, <3>4, <3>10, SingleAnswers
  <2>5. CASE code \in WriteMultipleCodes
    <3>1. m = [address |-> op.address, values |-> op.values]
      BY <1>1, <2>5, SentMultiple
    <3>2. code \notin ReadCodes /\ code \notin WriteSingleCodes
      BY <2>5, CodeNumbers
    <3>3. ResponseKind(code) = "range"
      BY <2>5, <3>2 DEF ResponseKind
    <3>4. op.quantity = Len(op.values)
      BY <1>1, <3>2, Zenon DEF Sent, OperationType
    <3>5. Extent(code, m) = op.quantity
      BY <2>5, <3>1, <3>2, <3>4 DEF Extent
    <3>6. Response(tables, code, m) =
            RangeBytes(code, [address |-> op.address, quantity |-> op.quantity])
      BY <2>5, <3>1, <3>2, <3>3, <3>5 DEF Response, EncodingOf
    <3>7. Covered(code, m) = op.address .. op.address + op.quantity - 1
      BY <3>1, <3>5 DEF Covered
    <3>9. \A a \in Covered(code, m) : op.values[a - op.address + 1] \in Values[op.table]
      <4>1. \A i \in 1 .. op.quantity : op.values[i] \in Values[op.table]
        BY <1>2, <1>4, <3>4
      <4>2. \A a \in Covered(code, m) : a - op.address + 1 \in 1 .. op.quantity
        BY <1>8, <3>7
      <4> QED
        BY <4>1, <4>2
    <3>8. m.address = op.address /\ m.values = op.values
      BY <3>1
    <3>11. Stored(tables, code, m) =
             [tables EXCEPT ![TableOf(code)] =
                [a \in Addresses |->
                   IF a \in Covered(code, m) THEN op.values[a - m.address + 1] ELSE @[a]]]
      BY <3>2, <3>8, Zenon DEF Stored
    <3>10. Kept(Stored(tables, code, m))
      BY <2>3, <3>2, <3>8, <3>9, <3>11
    <3> QED
      BY <2>1, <2>5, <3>6, <3>10, MultipleAnswers
  <2> QED
    BY <1>2, <2>2, <2>4, <2>5
<1> QED
  BY <1>6, <1>7

----------------------------------------------------------------------------
(***************************************************************************)
(* Every step of the whole client is a step of UdpClient.                  *)
(***************************************************************************)

UdpInv ==
  /\ TypeOK /\ CallsDistinct /\ EarlierEnded /\ EarlierIsGone
  /\ NeverFromEndedCall /\ DatagramsHaveOrigin

OperationInv == SharedType /\ JobsSent /\ AskedSent /\ ContentsAnswer

LEMMA BeginIsCarried ==
  ASSUME NEW t \in Callers, NEW op \in Uses[t], Begin(t, op)
  PROVE  \E req \in RequestSizes, size \in OutSizes : SendRawRequest(t, req, size)
<1>1. Refusal(op) = "none" /\ SendRawRequest(t, Len(RequestPdu(op).value), kMaxPduSize)
  BY DEF Begin
<1>2. Len(RequestPdu(op).value) \in RequestSizes /\ kMaxPduSize \in OutSizes
  BY <1>1, CarriedAssumption
<1> QED
  BY <1>1, <1>2

\* The operation of a request in transit is one that was sent.
LEMMA AskedIsSent ==
  ASSUME UdpInv, OperationInv, NEW c \in requests
  PROVE  /\ c \in 1 .. issued
         /\ asked[c] \in Operations /\ Refusal(asked[c]) = "none"
<1>1. c \in 1 .. issued
  BY DEF UdpInv, DatagramsHaveOrigin, InTransit
<1> QED
  BY <1>1 DEF OperationInv, AskedSent

\* What the slave makes of a request.
LEMMA ExecuteAnswers ==
  ASSUME UdpInv, OperationInv, NEW c \in requests, Execute(c)
  PROVE  /\ \E pdu \in AnswersOf(asked[c]) : Serve(c, ReplyForm(pdu))
         /\ memory' \in [Tables -> [Addresses -> Word]]
         /\ \A t \in Tables : memory'[t] \in [Addresses -> Values[t]]
<1> DEFINE op == asked[c]
           done == Executed(memory, op.code, Created(op).value)
<1>1. op \in Operations /\ Refusal(op) = "none"
  BY AskedIsSent
<1>2. /\ memory \in [Tables -> [Addresses -> Word]]
      /\ \A t \in Tables : memory[t] \in [Addresses -> Values[t]]
  BY DEF OperationInv, SharedType
<1>3. Serve(c, ReplyForm(done.reply)) /\ memory' = done.tables
  BY DEF Execute
<1> HIDE DEF op
<1>4. /\ done.reply \in AnswersOf(op)
      /\ done.tables \in [Tables -> [Addresses -> Word]]
      /\ \A t \in Tables : done.tables[t] \in [Addresses -> Values[t]]
  BY <1>1, <1>2, ExecutedAnswers
<1> HIDE DEF done
<1>5. \E pdu \in AnswersOf(op) : Serve(c, ReplyForm(pdu))
  BY <1>3, <1>4, Zenon
<1> QED
  BY <1>3, <1>4, <1>5, Zenon DEF op

LEMMA SharedStepIsStep ==
  UdpInv /\ OperationInv /\ [SharedNext]_sharedVars => [Next]_vars
<1> SUFFICES ASSUME UdpInv, OperationInv, [SharedNext]_sharedVars
             PROVE  [Next]_vars
  OBVIOUS
<1>1. ASSUME NEW t \in Callers, NEW op \in Uses[t], Begin(t, op)
      PROVE  Next
  BY <1>1, BeginIsCarried DEF Next
<1>2. ASSUME NEW t \in Callers, NEW op \in Uses[t], Refuse(t, op)
      PROVE  UNCHANGED vars
  BY <1>2 DEF Refuse
<1>3. ASSUME NEW t \in Callers, Proceed(t)
      PROVE  Next
  BY <1>3 DEF Proceed, Next, Step
<1>4. ASSUME NEW t \in Callers, Complete(t)
      PROVE  Next
  BY <1>4 DEF Complete, Next, Step
<1>5. ASSUME NEW c \in requests, Execute(c)
      PROVE  Next
  <2>1. PICK pdu \in AnswersOf(asked[c]) : Serve(c, ReplyForm(pdu))
    BY <1>5, ExecuteAnswers
  <2>2. ReplyForm(pdu) \in ReplyForms
    BY AskedIsSent, CarriedAssumption DEF Operations
  <2> QED
    BY <2>1, <2>2 DEF Next, Network
<1>6. CASE Transit
  BY <1>6 DEF Transit, Next, Network
<1>7. CASE SharedFinished
  BY <1>7 DEF SharedFinished, Next
<1>8. CASE UNCHANGED sharedVars
  BY <1>8 DEF sharedVars
<1> QED
  BY <1>1, <1>2, <1>3, <1>4, <1>5, <1>6, <1>7, <1>8 DEF SharedNext

LEMMA UdpInvInit == Init => UdpInv
BY InitType, InitCalls, InitEarlier, InitOrigin DEF UdpInv

LEMMA UdpInvNext == UdpInv /\ [Next]_vars => UdpInv'
BY NextQuiet, NextOrigin DEF UdpInv

----------------------------------------------------------------------------
(***************************************************************************)
(* What a caller's steps leave alone.                                      *)
(***************************************************************************)

LEMMA ReturnEffect ==
  ASSUME UdpInv, NEW t \in Callers, pc[t] # "idle", NEW r, Return(t, r)
  PROVE  /\ pc'[t] = "idle" /\ \A u \in Callers \ {t} : pc'[u] = pc[u]
         /\ call[t] \in 1 .. issued /\ result'[call[t]] = r
         /\ \A c \in 1 .. issued : result[c].status = "ok" => result'[c] = result[c]
<1>1. call[t] \in 1 .. issued /\ result[call[t]] = Pending
  BY DEF UdpInv, CallsDistinct
<1>2. 1 .. issued \subseteq Calls
  BY BoundsAssumption DEF UdpInv, TypeOK, Calls
<1>3. pc \in [Callers -> {"idle", "drain", "send", "recv"}] /\ result \in [Calls -> Results]
  BY DEF UdpInv, TypeOK
<1>4. pc' = [pc EXCEPT ![t] = "idle"] /\ result' = [result EXCEPT ![call[t]] = r]
  BY DEF Return
<1>5. Pending.status # "ok"
  BY DEF Pending
<1>6. \A c \in Calls : c # call[t] => result'[c] = result[c]
  BY <1>3, <1>4
<1> QED
  BY <1>1, <1>2, <1>3, <1>4, <1>5, <1>6

\* A call that goes on, and one that fails, succeeds nowhere.
LEMMA ProceedEffect ==
  ASSUME UdpInv, OperationInv, NEW t \in Callers, Proceed(t)
  PROVE  /\ pc[t] # "idle"
         /\ UNCHANGED <<job, asked, memory, call, issued, before, replies>>
         /\ \A u \in Callers \ {t} : pc'[u] = pc[u] /\ outcome'[u] = outcome[u]
         /\ \A c \in 1 .. issued : result[c].status = "ok" => result'[c] = result[c]
         /\ outcome'[t] # "ok"
         /\ pc'[t] # "idle" => outcome'[t] = outcome[t]
         /\ \A i \in 1 .. Len(sock') : \E j \in 1 .. Len(sock) : sock'[i] = sock[j]
<1>1. pc[t] # "idle"
  BY DEF Proceed, DrainDatagram, DrainDone, DrainFault, Send, IoFails
<1>2. outcome[t] # "ok"
  BY <1>1 DEF OperationInv, JobsSent
<1>3. UNCHANGED <<job, asked, memory, call, issued, before, replies>>
  BY DEF Proceed, DrainDatagram, DrainDone, DrainFault, Send, IoFails, clientVars, netVars
<1>4. \A i \in 1 .. Len(sock') : \E j \in 1 .. Len(sock) : sock'[i] = sock[j]
  <2>1. CASE DrainDatagram(t)
    BY <2>1, DequeueElements DEF DrainDatagram, UdpInv
  <2>2. CASE ~ DrainDatagram(t)
    <3>1. sock' = sock
      BY <2>2 DEF Proceed, DrainDone, DrainFault, Send, IoFails, netVars
    <3> QED
      BY <3>1
  <2> QED
    BY <2>1, <2>2
<1>5. outcome \in [Callers -> Statuses \cup {"none", "pending"}]
  BY DEF OperationInv, SharedType
<1>6. pc \in [Callers -> {"idle", "drain", "send", "recv"}]
  BY DEF UdpInv, TypeOK
<1>7. outcome' = IF pc'[t] = "idle"
                   THEN [outcome EXCEPT ![t] = result'[call[t]].status]
                   ELSE outcome
  BY DEF Proceed
\* The call goes on.
<1>8. ASSUME UNCHANGED result, pc'[t] # "idle", \A u \in Callers \ {t} : pc'[u] = pc[u]
      PROVE  /\ \A u \in Callers \ {t} : pc'[u] = pc[u] /\ outcome'[u] = outcome[u]
             /\ \A c \in 1 .. issued : result[c].status = "ok" => result'[c] = result[c]
             /\ outcome'[t] # "ok"
             /\ pc'[t] # "idle" => outcome'[t] = outcome[t]
  <2>1. outcome' = outcome
    BY <1>7, <1>8
  <2> QED
    BY <1>2, <1>8, <2>1
\* The call fails.
<1>9. ASSUME NEW status \in Statuses \ {"ok"}, Return(t, Failure(status))
      PROVE  /\ \A u \in Callers \ {t} : pc'[u] = pc[u] /\ outcome'[u] = outcome[u]
             /\ \A c \in 1 .. issued : result[c].status = "ok" => result'[c] = result[c]
             /\ outcome'[t] # "ok"
             /\ pc'[t] # "idle" => outcome'[t] = outcome[t]
  <2>1. Failure(status).status = status
    BY FailureIsResult
  <2>2. /\ pc'[t] = "idle" /\ \A u \in Callers \ {t} : pc'[u] = pc[u]
        /\ result'[call[t]] = Failure(status)
        /\ \A c \in 1 .. issued : result[c].status = "ok" => result'[c] = result[c]
    BY <1>1, <1>9, ReturnEffect
  <2>3. outcome' = [outcome EXCEPT ![t] = status]
    BY <1>7, <2>1, <2>2
  <2> QED
    BY <1>5, <1>9, <2>2, <2>3
<1>10. {"kInvalidRequest", "exception", "kTimeout", "kTransportError"} \subseteq Statuses \ {"ok"}
  BY DEF Statuses
<1>11. CASE DrainDatagram(t)
  <2>1. UNCHANGED result /\ pc' = pc /\ pc[t] = "drain"
    BY <1>11 DEF DrainDatagram, clientVars
  <2> QED
    BY <1>1, <1>3, <1>4, <1>8, <2>1
<1>12. CASE DrainDone(t)
  <2>1. CASE UNCHANGED result /\ pc' = [pc EXCEPT ![t] = "send"]
    BY <1>1, <1>3, <1>4, <1>6, <1>8, <2>1
  <2>2. CASE Return(t, Failure("kInvalidRequest"))
    BY <1>1, <1>3, <1>4, <1>9, <1>10, <2>2
  <2> QED
    BY <1>12, <2>1, <2>2 DEF DrainDone
<1>13. CASE DrainFault(t)
  BY <1>1, <1>3, <1>4, <1>9, <1>10, <1>13 DEF DrainFault
<1>14. CASE Send(t)
  <2>1. UNCHANGED result /\ pc' = [pc EXCEPT ![t] = "recv"]
    BY <1>14 DEF Send
  <2> QED
    BY <1>1, <1>3, <1>4, <1>6, <1>8, <2>1
<1>15. CASE IoFails(t)
  <2>1. PICK status \in {"kTimeout", "kTransportError"} : Return(t, Failure(status))
    BY <1>15 DEF IoFails
  <2> QED
    BY <1>1, <1>3, <1>4, <1>9, <1>10, <2>1
<1> QED
  BY <1>11, <1>12, <1>13, <1>14, <1>15 DEF Proceed

\* The datagram a call takes, and how the call ends on it.
LEMMA CompleteEffect ==
  ASSUME UdpInv, OperationInv, NEW t \in Callers, Complete(t)
  PROVE  /\ pc[t] # "idle" /\ pc'[t] = "idle"
         /\ call[t] \in 1 .. issued
         /\ UNCHANGED <<job, asked, memory, call, issued, before, replies>>
         /\ \A u \in Callers \ {t} : pc'[u] = pc[u] /\ outcome'[u] = outcome[u]
         /\ \A c \in 1 .. issued : result[c].status = "ok" => result'[c] = result[c]
         /\ \A i \in 1 .. Len(sock') : \E j \in 1 .. Len(sock) : sock'[i] = sock[j]
         /\ outcome'[t] \in Statuses
         /\ outcome'[t] = "ok" => \E j \in 1 .. Len(sock) :
              /\ result'[call[t]] = [status |-> "ok", from |-> sock[j].call, at |-> sock[j].at]
              /\ IsFrame(Received(sock[j].form)) /\ Received(sock[j].form).slave = SlaveId
              /\ ResponseOf(job[t], sock[j].form.content).ok
<1> DEFINE d == Head(sock)
           status == Verdict(Received(d.form), arg[call[t]].out)
           r == [status |-> status, from |-> d.call, at |-> d.at]
           response == ResponseOf(job[t], d.form.content)
<1>1. Recv(t) /\ pc[t] # "idle" /\ sock # <<>> /\ sock' = Tail(sock)
  BY DEF Complete, Recv
<1>2. Return(t, r)
  BY DEF Complete, Recv
<1>3. UNCHANGED <<job, asked, memory, call, issued, before, replies>>
  BY DEF Complete, Recv
<1>4. PICK j \in 1 .. Len(sock) : d = sock[j]
  BY <1>1, DequeueElements DEF UdpInv
<1>5. \A i \in 1 .. Len(sock') : \E k \in 1 .. Len(sock) : sock'[i] = sock[k]
  BY <1>1, DequeueElements DEF UdpInv
<1>6. status \in Statuses
  BY VerdictIsStatus
<1>7. status = "ok" => IsFrame(Received(d.form)) /\ Received(d.form).slave = SlaveId
  BY AcceptedFrame
<1> HIDE DEF status, d
<1>8. /\ pc'[t] = "idle" /\ \A u \in Callers \ {t} : pc'[u] = pc[u]
      /\ call[t] \in 1 .. issued /\ result'[call[t]] = r
      /\ \A c \in 1 .. issued : result[c].status = "ok" => result'[c] = result[c]
  BY <1>1, <1>2, ReturnEffect
<1>9. r.status = status
  OBVIOUS
<1>10. outcome' = [outcome EXCEPT ![t] =
          IF status = "ok" THEN IF Accepts(job[t], response) THEN "ok" ELSE "kInvalidResponse"
          ELSE status]
  <2>1. result'[call[t]].status = status
    BY <1>8, <1>9
  <2> QED
    BY <2>1 DEF Complete, d
<1>11. outcome \in [Callers -> Statuses \cup {"none", "pending"}]
  BY DEF OperationInv, SharedType
<1>12. /\ \A u \in Callers \ {t} : outcome'[u] = outcome[u]
       /\ outcome'[t] \in Statuses
       /\ outcome'[t] = "ok" => status = "ok" /\ Accepts(job[t], response)
  BY <1>6, <1>10, <1>11 DEF Statuses
<1>13. outcome'[t] = "ok" =>
         /\ result'[call[t]] = [status |-> "ok", from |-> sock[j].call, at |-> sock[j].at]
         /\ IsFrame(Received(sock[j].form)) /\ Received(sock[j].form).slave = SlaveId
         /\ ResponseOf(job[t], sock[j].form.content).ok
  BY <1>4, <1>7, <1>8, <1>12 DEF Accepts
<1> QED
  BY <1>1, <1>3, <1>5, <1>8, <1>12, <1>13

----------------------------------------------------------------------------
(***************************************************************************)
(* The parts of the invariant, kept by every step.                         *)
(***************************************************************************)

LEMMA RefusalIsStatus ==
  ASSUME NEW op
  PROVE  Refusal(op) \in Statuses \cup {"none"} /\ Refusal(op) # "ok"
BY DEF Refusal, Statuses

\* A call that is begun changes nothing of the calls begun before it.
LEMMA BeginEffect ==
  ASSUME UdpInv, OperationInv, NEW t \in Callers, NEW op \in Uses[t], Begin(t, op)
  PROVE  /\ op \in Operations /\ Refusal(op) = "none"
         /\ issued' = issued + 1 /\ issued' \in Calls /\ issued \in Nat
         /\ job' = [job EXCEPT ![t] = op]
         /\ outcome' = [outcome EXCEPT ![t] = "none"]
         /\ asked' = [asked EXCEPT ![issued + 1] = op]
         /\ \A c \in 1 .. issued : asked'[c] = asked[c]
         /\ \A u \in Callers \ {t} : pc'[u] = pc[u] /\ call'[u] = call[u]
         /\ UNCHANGED <<memory, result, sock, replies>>
<1>1. SendRawRequest(t, Len(RequestPdu(op).value), kMaxPduSize)
  BY DEF Begin
<1>2. /\ issued \in 0 .. MaxCalls /\ pc \in [Callers -> {"idle", "drain", "send", "recv"}]
      /\ call \in [Callers -> 0 .. issued]
  BY DEF UdpInv, TypeOK
<1>3. issued' = issued + 1 /\ issued' \in Calls /\ issued \in Nat
  BY <1>1, <1>2, BoundsAssumption DEF SendRawRequest, Calls
<1>4. asked \in [Calls -> Operations \cup {NoJob}]
  BY DEF OperationInv, SharedType
<1>5. /\ job' = [job EXCEPT ![t] = op]
      /\ outcome' = [outcome EXCEPT ![t] = "none"]
      /\ asked' = [asked EXCEPT ![issued + 1] = op]
      /\ Refusal(op) = "none" /\ memory' = memory
  BY DEF Begin, Enter
<1>6. \A c \in 1 .. issued : asked'[c] = asked[c]
  BY <1>3, <1>4, <1>5 DEF Calls
<1>7. \A u \in Callers \ {t} : pc'[u] = pc[u] /\ call'[u] = call[u]
  BY <1>1, <1>2 DEF SendRawRequest
<1>8. UNCHANGED <<result, sock, replies>>
  BY <1>1 DEF SendRawRequest, netVars
<1>9. op \in Operations
  BY DEF Operations
<1> QED
  BY <1>3, <1>5, <1>6, <1>7, <1>8, <1>9

\* A refused call is not one of SendRawRequest's.
LEMMA RefuseEffect ==
  ASSUME OperationInv, NEW t \in Callers, NEW op \in Uses[t], Refuse(t, op)
  PROVE  /\ op \in Operations /\ pc[t] = "idle"
         /\ job' = [job EXCEPT ![t] = op]
         /\ outcome' = [outcome EXCEPT ![t] = Refusal(op)]
         /\ UNCHANGED <<vars, asked, memory>>
BY DEF Refuse, Enter, Operations

\* The network touches neither the callers nor the slave's tables.
LEMMA TransitEffect ==
  ASSUME Transit
  PROVE  UNCHANGED <<clientVars, operationVars, memory>>
BY DEF Transit, Deliver, LoseReply, LoseRequest, Stray

LEMMA ExecuteEffect ==
  ASSUME NEW c, Execute(c)
  PROVE  UNCHANGED <<clientVars, operationVars, sock>>
BY DEF Execute, Serve

LEMMA SharedTypeNext ==
  UdpInv /\ OperationInv /\ [SharedNext]_sharedVars => SharedType'
<1> SUFFICES ASSUME UdpInv, OperationInv, [SharedNext]_sharedVars
             PROVE  SharedType'
  OBVIOUS
<1>1. SharedType
  BY DEF OperationInv
<1>2. ASSUME NEW t \in Callers, NEW op \in Uses[t], Begin(t, op)
      PROVE  SharedType'
  <2>1. /\ op \in Operations /\ issued + 1 \in Calls /\ UNCHANGED memory
        /\ job' = [job EXCEPT ![t] = op]
        /\ outcome' = [outcome EXCEPT ![t] = "none"]
        /\ asked' = [asked EXCEPT ![issued + 1] = op]
    BY <1>2, BeginEffect
  <2> QED
    BY <1>1, <2>1 DEF SharedType
<1>3. ASSUME NEW t \in Callers, NEW op \in Uses[t], Refuse(t, op)
      PROVE  SharedType'
  BY <1>1, <1>3, RefuseEffect, RefusalIsStatus DEF SharedType
<1>4. ASSUME NEW t \in Callers, Proceed(t)
      PROVE  SharedType'
  <2>1. UNCHANGED <<job, asked, memory>>
    BY <1>4, ProceedEffect
  <2>2. outcome' \in [Callers -> Statuses \cup {"none", "pending"}]
    <3>1. TypeOK'
      <4>1. [Next]_vars
        BY <1>4, SharedStepIsStep DEF SharedNext
      <4> QED
        BY <4>1, NextType DEF UdpInv
    <3>2. pc[t] # "idle"
      BY <1>4, ProceedEffect
    <3>3. call[t] \in Calls
      BY <3>2, BoundsAssumption DEF UdpInv, CallsDistinct, TypeOK, Calls
    <3>4. result'[call[t]].status \in Statuses \cup {"pending"}
      BY <3>1, <3>3 DEF TypeOK, Results
    <3> QED
      BY <1>1, <1>4, <3>4 DEF Proceed, SharedType
  <2> QED
    BY <1>1, <2>1, <2>2 DEF SharedType
<1>5. ASSUME NEW t \in Callers, Complete(t)
      PROVE  SharedType'
  <2>1. UNCHANGED <<job, asked, memory>> /\ outcome'[t] \in Statuses
    BY <1>5, CompleteEffect
  <2>2. outcome' = [outcome EXCEPT ![t] = outcome'[t]]
    BY <1>1, <1>5 DEF Complete, SharedType
  <2> QED
    BY <1>1, <2>1, <2>2 DEF SharedType
<1>6. ASSUME NEW c \in requests, Execute(c)
      PROVE  SharedType'
  <2>1. UNCHANGED operationVars
    BY <1>6, ExecuteEffect
  <2> QED
    BY <1>1, <1>6, <2>1, ExecuteAnswers DEF SharedType, operationVars
<1>7. CASE Transit
  BY <1>1, <1>7, TransitEffect DEF SharedType, operationVars
<1>8. CASE SharedFinished \/ UNCHANGED sharedVars
  BY <1>1, <1>8 DEF SharedType, SharedFinished, sharedVars, operationVars
<1> QED
  BY <1>2, <1>3, <1>4, <1>5, <1>6, <1>7, <1>8 DEF SharedNext

LEMMA JobsSentNext ==
  UdpInv /\ OperationInv /\ [SharedNext]_sharedVars => JobsSent'
<1> SUFFICES ASSUME UdpInv, OperationInv, [SharedNext]_sharedVars,
                    NEW u \in Callers, pc'[u] # "idle"
             PROVE  job'[u] \in Operations /\ Refusal(job'[u]) = "none" /\ outcome'[u] = "none"
  BY DEF JobsSent
<1> DEFINE Kept == pc[u] # "idle" /\ job'[u] = job[u] /\ outcome'[u] = outcome[u]
<1>1. CASE Kept
  BY <1>1 DEF OperationInv, JobsSent
<1>2. /\ job \in [Callers -> Operations \cup {NoJob}]
      /\ outcome \in [Callers -> Statuses \cup {"none", "pending"}]
  BY DEF OperationInv, SharedType
<1>3. ASSUME NEW t \in Callers, NEW op \in Uses[t], Begin(t, op)
      PROVE  \/ Kept
             \/ job'[u] \in Operations /\ Refusal(job'[u]) = "none" /\ outcome'[u] = "none"
  <2>1. /\ op \in Operations /\ Refusal(op) = "none"
        /\ job' = [job EXCEPT ![t] = op]
        /\ outcome' = [outcome EXCEPT ![t] = "none"]
        /\ \A v \in Callers \ {t} : pc'[v] = pc[v]
    BY <1>3, BeginEffect
  <2> QED
    BY <1>2, <2>1
<1>4. ASSUME NEW t \in Callers, NEW op \in Uses[t], Refuse(t, op)
      PROVE  Kept
  <2>1. pc[t] = "idle" /\ pc' = pc
    BY <1>4, RefuseEffect DEF vars, clientVars
  <2> QED
    BY <1>2, <1>4, <2>1, RefuseEffect
<1>5. ASSUME NEW t \in Callers, Proceed(t)
      PROVE  Kept
  BY <1>5, ProceedEffect
<1>6. ASSUME NEW t \in Callers, Complete(t)
      PROVE  Kept
  BY <1>6, CompleteEffect
<1>7. ASSUME NEW c \in requests, Execute(c)
      PROVE  Kept
  BY <1>7, ExecuteEffect DEF clientVars, operationVars
<1>8. ASSUME Transit
      PROVE  Kept
  BY <1>8, TransitEffect DEF clientVars, operationVars
<1>9. ASSUME SharedFinished \/ UNCHANGED sharedVars
      PROVE  Kept
  BY <1>9 DEF SharedFinished, Finished, sharedVars, vars, clientVars, operationVars
<1> QED
  BY <1>1, <1>3, <1>4, <1>5, <1>6, <1>7, <1>8, <1>9 DEF SharedNext

\* Only a call that begins is given an operation.
LEMMA AskedKept ==
  ASSUME UdpInv, OperationInv, [SharedNext]_sharedVars
  PROVE  \/ UNCHANGED <<asked, issued>>
         \/ \E t \in Callers : \E op \in Uses[t] : Begin(t, op)
<1>1. ASSUME NEW t \in Callers, NEW op \in Uses[t], Refuse(t, op)
      PROVE  UNCHANGED <<asked, issued>>
  BY <1>1, RefuseEffect DEF vars, clientVars
<1>2. ASSUME NEW t \in Callers, Proceed(t)
      PROVE  UNCHANGED <<asked, issued>>
  BY <1>2, ProceedEffect
<1>3. ASSUME NEW t \in Callers, Complete(t)
      PROVE  UNCHANGED <<asked, issued>>
  BY <1>3, CompleteEffect
<1>4. ASSUME NEW c \in requests, Execute(c)
      PROVE  UNCHANGED <<asked, issued>>
  BY <1>4, ExecuteEffect DEF clientVars, operationVars
<1>5. CASE Transit
  BY <1>5, TransitEffect DEF clientVars, operationVars
<1>6. CASE SharedFinished \/ UNCHANGED sharedVars
  BY <1>6 DEF SharedFinished, Finished, sharedVars, vars, clientVars, operationVars
<1> QED
  BY <1>1, <1>2, <1>3, <1>4, <1>5, <1>6 DEF SharedNext

\* The operations of the calls begun before a step are kept, and calls stay begun.
LEMMA CallsKept ==
  ASSUME UdpInv, OperationInv, [SharedNext]_sharedVars
  PROVE  \A c \in 1 .. issued : c \in 1 .. issued' /\ asked'[c] = asked[c]
<1>1. CASE UNCHANGED <<asked, issued>>
  BY <1>1
<1>2. ASSUME NEW t \in Callers, NEW op \in Uses[t], Begin(t, op)
      PROVE  \A c \in 1 .. issued : c \in 1 .. issued' /\ asked'[c] = asked[c]
  BY <1>2, BeginEffect
<1> QED
  BY <1>1, <1>2, AskedKept

LEMMA AskedSentNext ==
  UdpInv /\ OperationInv /\ [SharedNext]_sharedVars => AskedSent'
<1> SUFFICES ASSUME UdpInv, OperationInv, [SharedNext]_sharedVars, NEW c \in 1 .. issued'
             PROVE  asked'[c] \in Operations /\ Refusal(asked'[c]) = "none"
  BY DEF AskedSent
<1>1. CASE UNCHANGED <<asked, issued>>
  BY <1>1 DEF OperationInv, AskedSent
<1>2. ASSUME NEW t \in Callers, NEW op \in Uses[t], Begin(t, op)
      PROVE  asked'[c] \in Operations /\ Refusal(asked'[c]) = "none"
  <2>1. /\ op \in Operations /\ Refusal(op) = "none"
        /\ issued' = issued + 1 /\ issued' \in Calls /\ issued \in Nat
        /\ asked' = [asked EXCEPT ![issued + 1] = op]
        /\ \A k \in 1 .. issued : asked'[k] = asked[k]
    BY <1>2, BeginEffect
  <2>2. CASE c \in 1 .. issued
    BY <2>1, <2>2 DEF OperationInv, AskedSent
  <2>3. CASE c = issued + 1
    BY <2>1, <2>3 DEF OperationInv, SharedType
  <2> QED
    BY <2>1, <2>2, <2>3
<1> QED
  BY <1>1, <1>2, AskedKept

\* A datagram's call has been made, or the datagram is another endpoint's.
LEMMA Origin ==
  ASSUME UdpInv
  PROVE  /\ \A d \in replies : d.call \in 1 .. issued
         /\ \A i \in 1 .. Len(sock) :
              \/ sock[i].call \in 1 .. issued
              \/ sock[i].call = 0 /\ sock[i].form \in StrayForms
BY DEF UdpInv, DatagramsHaveOrigin, InTransit

LEMMA ContentsAnswerNext ==
  UdpInv /\ OperationInv /\ [SharedNext]_sharedVars => ContentsAnswer'
<1> SUFFICES ASSUME UdpInv, OperationInv, [SharedNext]_sharedVars
             PROVE  ContentsAnswer'
  OBVIOUS
<1> DEFINE Answered(d) == d.call \in 1 .. issued /\ d.form.content \in AnswersOf(asked[d.call])
\* What a step leaves in transit and in the queue still answers its call.
<1>1. ASSUME NEW d, Answered(d)
      PROVE  d.form.content \in AnswersOf(asked'[d.call])
  BY <1>1, CallsKept
<1>2. \A d \in replies : Answered(d)
  BY Origin DEF OperationInv, ContentsAnswer
<1>3. \A i \in 1 .. Len(sock) : sock[i].call # 0 => Answered(sock[i])
  BY Origin DEF OperationInv, ContentsAnswer
<1> HIDE DEF Answered
<1>4. ASSUME \A d \in replies' : Answered(d),
             \A i \in 1 .. Len(sock') : sock'[i].call # 0 => Answered(sock'[i])
      PROVE  ContentsAnswer'
  BY <1>1, <1>4 DEF ContentsAnswer
<1>5. CASE UNCHANGED <<sock, replies>>
  BY <1>2, <1>3, <1>4, <1>5
<1>6. ASSUME NEW t \in Callers, NEW op \in Uses[t], Begin(t, op)
      PROVE  UNCHANGED <<sock, replies>>
  BY <1>6, BeginEffect
<1>7. ASSUME NEW t \in Callers, NEW op \in Uses[t], Refuse(t, op)
      PROVE  UNCHANGED <<sock, replies>>
  BY <1>7, RefuseEffect DEF vars, netVars
<1>8. ASSUME NEW t \in Callers, Proceed(t) \/ Complete(t)
      PROVE  ContentsAnswer'
  <2>1. /\ UNCHANGED replies
        /\ \A i \in 1 .. Len(sock') : \E j \in 1 .. Len(sock) : sock'[i] = sock[j]
    BY <1>8, ProceedEffect, CompleteEffect
  <2> QED
    BY <1>2, <1>3, <1>4, <2>1
<1>9. ASSUME NEW c \in requests, Execute(c)
      PROVE  ContentsAnswer'
  <2>1. PICK pdu \in AnswersOf(asked[c]) : Serve(c, ReplyForm(pdu))
    BY <1>9, ExecuteAnswers
  <2>2. replies' = replies \cup {Reply(c, ReplyForm(pdu))} /\ UNCHANGED sock
    BY <2>1 DEF Serve
  <2>3. Answered(Reply(c, ReplyForm(pdu)))
    BY AskedIsSent DEF Answered, Reply, ReplyForm
  <2> QED
    BY <1>2, <1>3, <1>4, <2>2, <2>3
<1>10. CASE Transit
  \* A datagram that arrives was in transit, or another endpoint sent it.
  <2>1. ASSUME NEW c \in Calls \cup {0}, NEW f \in Forms, Enqueue(c, f),
               c # 0 => Answered(Reply(c, f)), replies' \subseteq replies
        PROVE  ContentsAnswer'
    <3> DEFINE e == [call |-> c, form |-> f, at |-> arrivals + 1]
    <3>1. \A i \in 1 .. Len(sock') :
            (\E j \in 1 .. Len(sock) : sock'[i] = sock[j]) \/ sock'[i] = e
      BY <2>1, EnqueueElements DEF UdpInv
    <3>2. e.call = c /\ e.form = f
      OBVIOUS
    <3> HIDE DEF e
    <3>3. e.call # 0 => Answered(e)
      BY <2>1, <3>2 DEF Answered, Reply
    <3> QED
      BY <1>2, <1>3, <1>4, <2>1, <3>1, <3>3
  <2>2. ASSUME NEW d \in replies, Deliver(d)
        PROVE  ContentsAnswer'
    <3>1. Enqueue(d.call, d.form) /\ replies' \subseteq replies
      BY <2>2 DEF Deliver
    <3>2. d.call \in Calls /\ d.form \in Forms
      BY DEF UdpInv, TypeOK, Replies
    <3>3. Answered(Reply(d.call, d.form))
      BY <1>2 DEF Answered, Reply
    <3> QED
      BY <2>1, <3>1, <3>2, <3>3
  <2>3. ASSUME NEW d \in replies, LoseReply(d)
        PROVE  ContentsAnswer'
    BY <1>2, <1>3, <1>4, <2>3 DEF LoseReply
  <2>4. ASSUME NEW c \in requests, LoseRequest(c)
        PROVE  ContentsAnswer'
    BY <1>2, <1>3, <1>4, <2>4 DEF LoseRequest
  <2>5. ASSUME NEW f \in StrayForms, Stray(f)
        PROVE  ContentsAnswer'
    BY <2>1, <2>5, DataAssumption DEF Stray
  <2> QED
    BY <1>10, <2>2, <2>3, <2>4, <2>5 DEF Transit
<1>11. CASE SharedFinished \/ UNCHANGED sharedVars
  BY <1>5, <1>11 DEF SharedFinished, Finished, sharedVars, vars, netVars
<1> QED
  BY <1>5, <1>6, <1>7, <1>8, <1>9, <1>10, <1>11 DEF SharedNext

LEMMA OperationInvInit == SharedInit => OperationInv
<1> SUFFICES ASSUME SharedInit
             PROVE  OperationInv
  OBVIOUS
<1>1. SharedType
  BY TablesAssumption DEF SharedInit, SharedType
<1>2. issued = 0 /\ replies = {} /\ Len(sock) = 0 /\ \A t \in Callers : pc[t] = "idle"
  BY EmptySeq DEF SharedInit, Init
<1>3. JobsSent /\ AskedSent /\ ContentsAnswer
  BY <1>2 DEF JobsSent, AskedSent, ContentsAnswer
<1> QED
  BY <1>1, <1>3 DEF OperationInv

LEMMA OperationInvNext ==
  UdpInv /\ OperationInv /\ [SharedNext]_sharedVars => UdpInv' /\ OperationInv'
<1> SUFFICES ASSUME UdpInv, OperationInv, [SharedNext]_sharedVars
             PROVE  UdpInv' /\ OperationInv'
  OBVIOUS
<1>1. UdpInv'
  BY SharedStepIsStep, UdpInvNext
<1>2. SharedType' /\ JobsSent' /\ AskedSent' /\ ContentsAnswer'
  BY SharedTypeNext, JobsSentNext, AskedSentNext, ContentsAnswerNext
<1> QED
  BY <1>1, <1>2 DEF OperationInv

\* The operations of ClientBase with their slave, whatever they are, make of the
\* transport a behaviour of UdpClient: what is shown of UdpClient holds of the
\* whole client.
THEOREM ClientUsesTransport == SharedSpec => Spec
<1>1. SharedInit => Init /\ UdpInv /\ OperationInv
  BY UdpInvInit, OperationInvInit DEF SharedInit
<1> QED
  BY <1>1, SharedStepIsStep, OperationInvNext, PTL DEF SharedSpec, Spec

----------------------------------------------------------------------------
(***************************************************************************)
(* A success was answered by what was sent to a kindred call.              *)
(***************************************************************************)

LEMMA SuccessNext ==
  ASSUME StraysRefused
  PROVE  UdpInv /\ OperationInv /\ SuccessIsKindred /\ [SharedNext]_sharedVars
           => SuccessIsKindred'
<1> SUFFICES ASSUME UdpInv, OperationInv, SuccessIsKindred, [SharedNext]_sharedVars,
                    NEW u \in Callers, outcome'[u] = "ok"
             PROVE  /\ call'[u] \in 1 .. issued' /\ result'[call'[u]].status = "ok"
                    /\ result'[call'[u]].from \in 1 .. issued'
                    /\ Kindred(job'[u], asked'[result'[call'[u]].from])
  BY DEF SuccessIsKindred
<1> DEFINE Kept == /\ outcome[u] = "ok" /\ job'[u] = job[u] /\ call'[u] = call[u]
                   /\ \A c \in 1 .. issued : result[c].status = "ok" => result'[c] = result[c]
<1>1. CASE Kept
  <2>1. /\ call[u] \in 1 .. issued /\ result[call[u]].status = "ok"
        /\ result[call[u]].from \in 1 .. issued
        /\ Kindred(job[u], asked[result[call[u]].from])
    BY <1>1 DEF SuccessIsKindred
  <2>2. result'[call[u]] = result[call[u]] /\ job'[u] = job[u] /\ call'[u] = call[u]
    BY <1>1, <2>1
  <2> QED
    BY <2>1, <2>2, CallsKept
<1>2. /\ job \in [Callers -> Operations \cup {NoJob}]
      /\ outcome \in [Callers -> Statuses \cup {"none", "pending"}]
  BY DEF OperationInv, SharedType
<1>3. ASSUME NEW t \in Callers, NEW op \in Uses[t], Begin(t, op)
      PROVE  Kept
  <2>1. /\ job' = [job EXCEPT ![t] = op]
        /\ outcome' = [outcome EXCEPT ![t] = "none"]
        /\ \A v \in Callers \ {t} : call'[v] = call[v]
        /\ UNCHANGED result
    BY <1>3, BeginEffect
  <2> QED
    BY <1>2, <2>1
<1>4. ASSUME NEW t \in Callers, NEW op \in Uses[t], Refuse(t, op)
      PROVE  Kept
  <2>1. /\ job' = [job EXCEPT ![t] = op]
        /\ outcome' = [outcome EXCEPT ![t] = Refusal(op)]
        /\ UNCHANGED <<call, result>>
    BY <1>4, RefuseEffect DEF vars, clientVars
  <2>2. Refusal(op) # "ok"
    BY RefusalIsStatus
  <2> QED
    BY <1>2, <2>1, <2>2
<1>5. ASSUME NEW t \in Callers, Proceed(t)
      PROVE  Kept
  BY <1>5, ProceedEffect
<1>6. ASSUME NEW t \in Callers, Complete(t), u # t
      PROVE  Kept
  BY <1>6, CompleteEffect
<1>7. ASSUME Complete(u)
      PROVE  /\ call'[u] \in 1 .. issued' /\ result'[call'[u]].status = "ok"
             /\ result'[call'[u]].from \in 1 .. issued'
             /\ Kindred(job'[u], asked'[result'[call'[u]].from])
  <2>1. /\ call[u] \in 1 .. issued /\ pc[u] # "idle"
        /\ UNCHANGED <<job, asked, call, issued>>
    BY <1>7, CompleteEffect
  <2>2. PICK j \in 1 .. Len(sock) :
          /\ result'[call[u]] = [status |-> "ok", from |-> sock[j].call, at |-> sock[j].at]
          /\ IsFrame(Received(sock[j].form)) /\ Received(sock[j].form).slave = SlaveId
          /\ ResponseOf(job[u], sock[j].form.content).ok
    BY <1>7, CompleteEffect
  <2> DEFINE c == sock[j].call
  <2>3. result'[call[u]].status = "ok" /\ result'[call[u]].from = c
    BY <2>2
  <2>4. c \in 1 .. issued
    BY <2>2, Origin DEF StraysRefused
  <2>5. Sent(job[u]) /\ Sent(asked[c])
    BY <2>1, <2>4, UsesAreSent DEF OperationInv, JobsSent, AskedSent
  <2>6. sock[j].form.content \in AnswersOf(asked[c])
    BY <2>4 DEF OperationInv, ContentsAnswer
  <2>7. Kindred(job[u], asked[c])
    BY <2>2, <2>5, <2>6, AcceptedIsKindred
  <2> HIDE DEF c
  <2> QED
    BY <2>1, <2>3, <2>4, <2>7
<1>8. ASSUME NEW c \in requests, Execute(c)
      PROVE  Kept
  BY <1>8, ExecuteEffect DEF clientVars, operationVars
<1>9. ASSUME Transit
      PROVE  Kept
  BY <1>9, TransitEffect DEF clientVars, operationVars
<1>10. ASSUME SharedFinished \/ UNCHANGED sharedVars
       PROVE  Kept
  BY <1>10 DEF SharedFinished, Finished, sharedVars, vars, clientVars, operationVars
<1> HIDE DEF Kept
<1> QED
  BY <1>1, <1>3, <1>4, <1>5, <1>6, <1>7, <1>8, <1>9, <1>10 DEF SharedNext

\* However many callers share the client, whatever they read and write and
\* whatever the network loses, duplicates or reorders: when they leave a quiet gap
\* and no other endpoint forges frames, a call that succeeds was answered by what
\* the slave sent to a kindred call that had not ended when it began.
THEOREM SuccessIsFromKindred ==
  ASSUME StraysRefused
  PROVE  SharedSpec => []OnlyKindred
<1>1. SharedInit => UdpInv /\ OperationInv /\ SuccessIsKindred
  <2>1. SharedInit => SuccessIsKindred
    BY DEF SharedInit, SuccessIsKindred
  <2> QED
    BY <2>1, UdpInvInit, OperationInvInit DEF SharedInit
<1>2. UdpInv /\ OperationInv /\ SuccessIsKindred /\ [SharedNext]_sharedVars
        => UdpInv' /\ OperationInv' /\ SuccessIsKindred'
  BY OperationInvNext, SuccessNext
<1>3. UdpInv /\ SuccessIsKindred => OnlyKindred
  <2> SUFFICES ASSUME UdpInv, SuccessIsKindred, Quiet, NEW t \in Callers, outcome[t] = "ok"
               PROVE  LET from == result[call[t]].from
                      IN  /\ from \in (1 .. issued) \ before[call[t]]
                          /\ Kindred(job[t], asked[from])
    BY DEF OnlyKindred
  <2>1. /\ call[t] \in 1 .. issued /\ result[call[t]].status = "ok"
        /\ result[call[t]].from \in 1 .. issued
        /\ Kindred(job[t], asked[result[call[t]].from])
    BY DEF SuccessIsKindred
  <2>2. call[t] \in Calls
    BY <2>1, BoundsAssumption DEF UdpInv, TypeOK, Calls
  <2>3. result[call[t]].from \notin before[call[t]]
    BY <2>1, <2>2 DEF UdpInv, NeverFromEndedCall
  <2> QED
    BY <2>1, <2>3
<1> QED
  BY <1>1, <1>2, <1>3, PTL DEF SharedSpec

----------------------------------------------------------------------------
(***************************************************************************)
(* One caller among the others.                                            *)
(***************************************************************************)

WatchedInv == WatchedAsked /\ WatchedAlone /\ WatchedBuffer

\* The watched caller is one of them and leaves a quiet gap, and no other endpoint
\* forges frames.
Apart == Watched \in Callers /\ Quiet /\ StraysRefused /\ KindredToNone

LEMMA TablesAreMemory == OperationInv => MemoryType(memory)
<1> SUFFICES ASSUME OperationInv
             PROVE  MemoryType(memory)
  OBVIOUS
<1>1. /\ memory \in [Tables -> [Addresses -> Word]]
      /\ \A t \in Tables : memory[t] \in [Addresses -> Values[t]]
  BY DEF OperationInv, SharedType
<1>2. BitTables \subseteq Tables
  BY DEF BitTables, Tables
<1>4. \A t \in BitTables : Values[t] \subseteq Coil
  BY TablesAssumption
<1>3. \A t \in BitTables : memory[t] \in [Addresses -> Coil]
  BY <1>1, <1>2, <1>4
<1> QED
  BY <1>1, <1>3 DEF MemoryType

\* What may be answered to a call is a response to it.
LEMMA AnswersAnswer ==
  ASSUME NEW op \in Operations, Refusal(op) = "none", NEW pdu \in AnswersOf(op)
  PROVE  AnswerTo(op, pdu)
<1>1. Sent(op)
  BY UsesAreSent
<1>2. Len(pdu) \in Nat
  BY <1>1, AnswerHead
<1>3. /\ op.code \in 1 .. 127 /\ (op.write <=> op.code \notin ReadCodes)
      /\ op.table \in Tables /\ (op.table \in BitTables <=> op.code \in BitCodes)
      /\ op.quantity \in Nat
  BY <1>1, SentFields, Zenon
<1>4. ASSUME pdu[1] = op.code, ~ op.write
      PROVE  \E v : IsContent(op, v) /\ pdu = ValuesBytes(op.code, [values |-> v])
  <2>1. IllegalDataAddress(op.code)[1] = op.code + 128
    BY <1>3, ErrorHead
  <2>2. pdu # IllegalDataAddress(op.code)
    BY <1>3, <1>4, <2>1
  <2>3. PICK v \in [1 .. op.quantity -> Values[op.table]] :
               pdu = ValuesBytes(op.code, [values |-> v])
    BY <1>3, <1>4, <2>2, ReadAnswers
  <2>4. Values[op.table] \subseteq Word
    BY <1>3, TablesAssumption
  <2>5. op.code \in BitCodes => Values[op.table] \subseteq Coil
    BY <1>3, TablesAssumption
  <2>6. v \in [1 .. op.quantity -> Word]
    BY <2>3, <2>4
  <2>7. v \in Seq(Word) /\ Len(v) = op.quantity
    BY <1>3, <2>6, ListIsSequence
  <2>8. IsContent(op, v)
    BY <2>3, <2>5, <2>7 DEF IsContent
  <2> QED
    BY <2>3, <2>8
<1> QED
  BY <1>2, <1>4 DEF AnswerTo

\* Callers in SendRawRequest are in other calls than the watched one's last.
LEMMA OtherCall ==
  ASSUME Apart, UdpInv, WatchedAlone, NEW t \in Callers \ {Watched}, pc[t] # "idle"
  PROVE  call[t] # call[Watched]
<1>1. call[t] \in 1 .. issued /\ result[call[t]] = Pending
  BY DEF UdpInv, CallsDistinct
<1>2. CASE pc[Watched] # "idle"
  BY <1>2 DEF UdpInv, CallsDistinct, Apart
<1>3. CASE pc[Watched] = "idle"
  BY <1>1, <1>3 DEF WatchedAlone, Ended, Pending
<1> QED
  BY <1>2, <1>3

\* Nothing of the watched caller's last call is in transit when it begins another.
LEMMA NothingLeft ==
  ASSUME Apart, UdpInv, WatchedAlone, pc[Watched] = "idle", InTransit \cap Ended = {}
  PROVE  call[Watched] \notin InTransit
<1>1. InTransit \subseteq 1 .. issued
  BY DEF UdpInv, DatagramsHaveOrigin
<1>2. call[Watched] # 0 => call[Watched] \in Ended
  BY DEF WatchedAlone
<1> QED
  BY <1>1, <1>2

\* A call that goes on sends its request, or sends nothing.
LEMMA ProceedSends ==
  ASSUME UdpInv, NEW t \in Callers, Proceed(t)
  PROVE  /\ \/ requests' = requests
            \/ pc[t] = "send" /\ requests' = requests \cup {call[t]}
         /\ pc'[t] \in {"drain", "send"} => pc[t] = "drain"
         /\ pc'[t] = "recv" => pc[t] = "send"
         /\ call[t] \in requests' => call[t] \in requests \/ pc[t] = "send"
<1>1. pc \in [Callers -> {"idle", "drain", "send", "recv"}]
  BY DEF UdpInv, TypeOK
<1>2. CASE DrainDatagram(t)
  BY <1>2 DEF DrainDatagram, clientVars
<1>3. ASSUME NEW r, Return(t, r), requests' = requests
      PROVE  /\ requests' = requests
             /\ pc'[t] = "idle"
  BY <1>1, <1>3 DEF Return
<1>4. CASE DrainDone(t)
  <2>1. pc[t] = "drain" /\ requests' = requests
    BY <1>4 DEF DrainDone, netVars
  <2>2. CASE pc' = [pc EXCEPT ![t] = "send"]
    BY <1>1, <2>1, <2>2
  <2>3. CASE Return(t, Failure("kInvalidRequest"))
    BY <1>3, <2>1, <2>3
  <2> QED
    BY <1>4, <2>2, <2>3 DEF DrainDone
<1>5. CASE DrainFault(t)
  <2>1. requests' = requests /\ Return(t, Failure("exception"))
    BY <1>5 DEF DrainFault, netVars
  <2> QED
    BY <1>3, <2>1
<1>6. CASE Send(t)
  BY <1>1, <1>6 DEF Send
<1>7. CASE IoFails(t)
  <2>1. PICK status \in {"kTimeout", "kTransportError"} : Return(t, Failure(status))
    BY <1>7 DEF IoFails
  <2>2. requests' = requests
    BY <1>7 DEF IoFails, netVars
  <2> QED
    BY <1>3, <2>1, <2>2
<1> QED
  BY <1>2, <1>4, <1>5, <1>6, <1>7 DEF Proceed

\* How a call that returns from there ends.
LEMMA ProceedFails ==
  ASSUME UdpInv, OperationInv, NEW t \in Callers, Proceed(t), pc'[t] = "idle"
  PROVE  /\ outcome'[t] \in ClientErrors /\ requests' = requests
         /\ call[t] \in 1 .. issued /\ result'[call[t]].status # "pending"
<1>1. pc[t] # "idle" /\ pc \in [Callers -> {"idle", "drain", "send", "recv"}]
  BY ProceedEffect DEF UdpInv, TypeOK
<1>2. outcome' = [outcome EXCEPT ![t] = result'[call[t]].status]
  BY DEF Proceed
<1>3. outcome \in [Callers -> Statuses \cup {"none", "pending"}]
  BY DEF OperationInv, SharedType
<1>4. ASSUME NEW status \in {"kInvalidRequest", "exception", "kTimeout", "kTransportError"},
             Return(t, Failure(status)), requests' = requests
      PROVE  /\ outcome'[t] \in ClientErrors /\ requests' = requests
             /\ call[t] \in 1 .. issued /\ result'[call[t]].status # "pending"
  <2>1. Failure(status).status = status
    BY FailureIsResult DEF Statuses
  <2>2. call[t] \in 1 .. issued /\ result'[call[t]] = Failure(status)
    BY <1>1, <1>4, ReturnEffect
  <2> QED
    BY <1>2, <1>3, <1>4, <2>1, <2>2 DEF ClientErrors
<1>5. CASE DrainDone(t)
  BY <1>1, <1>4, <1>5 DEF DrainDone, netVars
<1>6. CASE DrainFault(t)
  BY <1>4, <1>6 DEF DrainFault, netVars
<1>7. CASE IoFails(t)
  <2>1. PICK status \in {"kTimeout", "kTransportError"} : Return(t, Failure(status))
    BY <1>7 DEF IoFails
  <2>2. requests' = requests
    BY <1>7 DEF IoFails, netVars
  <2> QED
    BY <1>4, <2>1, <2>2
<1>8. ~ DrainDatagram(t) /\ ~ Send(t)
  BY <1>1 DEF DrainDatagram, Send, clientVars
<1> QED
  BY <1>5, <1>6, <1>7, <1>8 DEF Proceed

\* A call that receives ends; the requests in transit stay what they are.
LEMMA CompleteEnds ==
  ASSUME UdpInv, OperationInv, NEW t \in Callers, Complete(t)
  PROVE  /\ pc[t] = "recv" /\ pc'[t] = "idle" /\ requests' = requests
         /\ result'[call[t]].status # "pending"
<1> DEFINE r == [status |-> Verdict(Received(Head(sock).form), arg[call[t]].out),
                 from |-> Head(sock).call, at |-> Head(sock).at]
<1>1. pc[t] = "recv" /\ requests' = requests /\ Return(t, r)
  BY DEF Complete, Recv
<1>2. r.status # "pending"
  BY VerdictIsStatus DEF Statuses
<1> HIDE DEF r
<1>3. pc'[t] = "idle" /\ result'[call[t]] = r
  BY <1>1, ReturnEffect
<1> QED
  BY <1>1, <1>2, <1>3

\* What the network does to the requests and replies in transit.
LEMMA TransitLeaves ==
  ASSUME UdpInv, Transit
  PROVE  /\ requests' \subseteq requests /\ replies' \subseteq replies
         /\ \A i \in 1 .. Len(sock') :
              \/ \E j \in 1 .. Len(sock) : sock'[i] = sock[j]
              \/ \E d \in replies : sock'[i].call = d.call /\ sock'[i].form = d.form
              \/ sock'[i].call = 0
<1>1. ASSUME NEW c \in Calls \cup {0}, NEW f \in Forms, Enqueue(c, f)
      PROVE  \A i \in 1 .. Len(sock') :
               \/ \E j \in 1 .. Len(sock) : sock'[i] = sock[j]
               \/ sock'[i].call = c /\ sock'[i].form = f
  <2> DEFINE e == [call |-> c, form |-> f, at |-> arrivals + 1]
  <2>1. e.call = c /\ e.form = f
    OBVIOUS
  <2>2. \A i \in 1 .. Len(sock') :
          (\E j \in 1 .. Len(sock) : sock'[i] = sock[j]) \/ sock'[i] = e
    BY <1>1, EnqueueElements DEF UdpInv
  <2> HIDE DEF e
  <2> QED
    BY <2>1, <2>2
<1>2. ASSUME sock' = sock
      PROVE  \A i \in 1 .. Len(sock') : \E j \in 1 .. Len(sock) : sock'[i] = sock[j]
  BY <1>2
<1>3. ASSUME NEW d \in replies, Deliver(d)
      PROVE  /\ requests' = requests /\ replies' \subseteq replies
             /\ \A i \in 1 .. Len(sock') :
                  \/ \E j \in 1 .. Len(sock) : sock'[i] = sock[j]
                  \/ sock'[i].call = d.call /\ sock'[i].form = d.form
  <2>1. d.call \in Calls /\ d.form \in Forms
    BY DEF UdpInv, TypeOK, Replies
  <2>2. Enqueue(d.call, d.form) /\ requests' = requests /\ replies' \subseteq replies
    BY <1>3 DEF Deliver
  <2> QED
    BY <1>1, <2>1, <2>2
<1>4. ASSUME NEW f \in StrayForms, Stray(f)
      PROVE  /\ requests' = requests /\ replies' = replies
             /\ \A i \in 1 .. Len(sock') :
                  (\E j \in 1 .. Len(sock) : sock'[i] = sock[j]) \/ sock'[i].call = 0
  <2>1. Enqueue(0, f) /\ requests' = requests /\ replies' = replies
    BY <1>4 DEF Stray
  <2> QED
    BY <1>1, <2>1, DataAssumption
<1>5. ASSUME NEW d \in replies, LoseReply(d)
      PROVE  requests' = requests /\ replies' \subseteq replies /\ sock' = sock
  BY <1>5 DEF LoseReply
<1>6. ASSUME NEW c \in requests, LoseRequest(c)
      PROVE  requests' \subseteq requests /\ replies' = replies /\ sock' = sock
  BY <1>6 DEF LoseRequest
<1> QED
  BY <1>2, <1>3, <1>4, <1>5, <1>6 DEF Transit

\* Serving a request leaves no other call in transit than before.
LEMMA ExecuteLeaves ==
  ASSUME NEW c \in requests, Execute(c)
  PROVE  /\ requests' \subseteq requests
         /\ replies' = replies \cup
              {Reply(c, ReplyForm(Executed(memory, asked[c].code, Created(asked[c]).value).reply))}
         /\ InTransit' \subseteq InTransit
<1> DEFINE f == ReplyForm(Executed(memory, asked[c].code, Created(asked[c]).value).reply)
<1>1. Serve(c, f)
  BY DEF Execute
<1> HIDE DEF f
<1>2. requests' \subseteq requests /\ replies' = replies \cup {Reply(c, f)}
  BY <1>1 DEF Serve
<1>3. Reply(c, f).call = c
  BY DEF Reply
<1>4. InTransit' \subseteq InTransit
  BY <1>2, <1>3 DEF InTransit
<1> QED
  BY <1>2, <1>4 DEF f

----------------------------------------------------------------------------
(***************************************************************************)
(* What is asked in the watched caller's calls.                            *)
(***************************************************************************)

LEMMA WatchedAskedNext ==
  ASSUME Apart, UdpInv, OperationInv, WatchedAlone, WatchedAsked, [SharedNext]_sharedVars
  PROVE  WatchedAsked'
<1> DEFINE W == Watched
<1>1. /\ W \in Callers
      /\ pc \in [Callers -> {"idle", "drain", "send", "recv"}]
      /\ call \in [Callers -> 0 .. issued]
      /\ job \in [Callers -> Operations \cup {NoJob}]
      /\ asked \in [Calls -> Operations \cup {NoJob}]
  BY DEF Apart, UdpInv, TypeOK, OperationInv, SharedType
<1>2. InTransit \subseteq 1 .. issued
  BY DEF UdpInv, DatagramsHaveOrigin
<1>3. pc[W] # "idle" => call[W] \in 1 .. issued
  BY <1>1 DEF UdpInv, CallsDistinct
\* Nothing new of the call, which goes on or not.
<1>4. ASSUME job'[W] = job[W], call'[W] = call[W], pc'[W] # "idle" => pc[W] # "idle",
             call[W] \in InTransit' => pc[W] # "idle" \/ call[W] \in InTransit
      PROVE  WatchedAsked'
  <2>1. ASSUME pc[W] # "idle" \/ call[W] \in InTransit
        PROVE  asked'[call'[W]] = job'[W]
    <3>1. call[W] \in 1 .. issued
      BY <1>2, <1>3, <2>1
    <3>2. asked[call[W]] = job[W] /\ asked'[call[W]] = asked[call[W]]
      BY <2>1, <3>1, CallsKept DEF WatchedAsked
    <3> QED
      BY <1>4, <3>2
  <2> QED
    BY <1>4, <2>1 DEF WatchedAsked
<1>5. ASSUME NEW op \in Uses[W], Begin(W, op)
      PROVE  WatchedAsked'
  <2>1. /\ issued + 1 \in Calls
        /\ job' = [job EXCEPT ![W] = op]
        /\ asked' = [asked EXCEPT ![issued + 1] = op]
    BY <1>1, <1>5, BeginEffect
  <2>2. call' = [call EXCEPT ![W] = issued + 1]
    BY <1>5 DEF Begin, SendRawRequest
  <2>3. job'[W] = op /\ call'[W] = issued + 1 /\ asked'[issued + 1] = op
    BY <1>1, <2>1, <2>2
  <2> QED
    BY <1>5, <2>3 DEF WatchedAsked
<1>6. ASSUME NEW op \in Uses[W], Refuse(W, op)
      PROVE  WatchedAsked'
  <2>1. pc[W] = "idle" /\ UNCHANGED vars /\ InTransit \cap Ended = {}
    BY <1>6 DEF Refuse, Apart
  <2>2. call[W] \notin InTransit
    BY <2>1, NothingLeft
  <2>3. pc'[W] = "idle" /\ call'[W] \notin InTransit'
    BY <2>1, <2>2 DEF vars, clientVars, netVars, InTransit
  <2> QED
    BY <2>3 DEF WatchedAsked
<1>7. ASSUME NEW t \in Callers \ {W}, NEW op \in Uses[t], Begin(t, op)
      PROVE  WatchedAsked'
  <2>1. /\ job' = [job EXCEPT ![t] = op]
        /\ pc'[W] = pc[W] /\ call'[W] = call[W] /\ replies' = replies
    BY <1>1, <1>7, BeginEffect
  <2>2. job'[W] = job[W]
    BY <1>1, <2>1
  <2>3. InTransit' = InTransit
    BY <1>7 DEF Begin, SendRawRequest, netVars, InTransit
  <2> QED
    BY <1>4, <2>1, <2>2, <2>3
<1>8. ASSUME NEW t \in Callers \ {W}, NEW op \in Uses[t], Refuse(t, op)
      PROVE  WatchedAsked'
  <2>1. job' = [job EXCEPT ![t] = op] /\ UNCHANGED vars
    BY <1>8, RefuseEffect
  <2>2. job'[W] = job[W]
    BY <1>1, <2>1
  <2> QED
    BY <1>4, <2>1, <2>2 DEF vars, clientVars, netVars, InTransit
<1>9. ASSUME NEW t \in Callers, Proceed(t)
      PROVE  WatchedAsked'
  <2>1. /\ job' = job /\ call' = call /\ replies' = replies /\ pc[t] # "idle"
        /\ \A u \in Callers \ {t} : pc'[u] = pc[u]
    BY <1>9, ProceedEffect
  <2>2. requests' \subseteq requests \cup {call[t]}
    BY <1>9, ProceedSends
  <2>3. InTransit' \subseteq InTransit \cup {call[t]}
    BY <2>1, <2>2 DEF InTransit
  <2>4. CASE t = W
    BY <1>4, <2>1, <2>4
  <2>5. CASE t # W
    <3>1. call[t] # call[W]
      BY <2>1, <2>5, OtherCall
    <3> QED
      BY <1>1, <1>4, <2>1, <2>3, <2>5, <3>1
  <2> QED
    BY <2>4, <2>5
<1>10. ASSUME NEW t \in Callers, Complete(t)
       PROVE  WatchedAsked'
  <2>1. /\ job' = job /\ call' = call /\ replies' = replies /\ pc[t] # "idle"
        /\ \A u \in Callers \ {t} : pc'[u] = pc[u]
    BY <1>10, CompleteEffect
  <2>2. requests' = requests
    BY <1>10, CompleteEnds
  <2>3. InTransit' = InTransit
    BY <2>1, <2>2 DEF InTransit
  <2> QED
    BY <1>1, <1>4, <2>1, <2>3
<1>11. ASSUME NEW c \in requests, Execute(c)
       PROVE  WatchedAsked'
  <2>1. UNCHANGED <<clientVars, operationVars>>
    BY <1>11, ExecuteEffect
  <2>2. InTransit' \subseteq InTransit
    BY <1>11, ExecuteLeaves
  <2> QED
    BY <1>4, <2>1, <2>2 DEF clientVars, operationVars
<1>12. CASE Transit
  <2>1. UNCHANGED <<clientVars, operationVars>>
    BY <1>12, TransitEffect
  <2>2. InTransit' \subseteq InTransit
    BY <1>12, TransitLeaves DEF InTransit
  <2> QED
    BY <1>4, <2>1, <2>2 DEF clientVars, operationVars
<1>13. CASE SharedFinished \/ UNCHANGED sharedVars
  BY <1>4, <1>13 DEF SharedFinished, Finished, sharedVars, vars, clientVars, netVars,
     operationVars, InTransit
<1> QED
  BY <1>1, <1>5, <1>6, <1>7, <1>8, <1>9, <1>10, <1>11, <1>12, <1>13 DEF SharedNext

----------------------------------------------------------------------------
(***************************************************************************)
(* Which calls the watched caller could take an answer of.                 *)
(***************************************************************************)

\* A call that may answer the watched caller's.
Answering(c) == \E a \in Uses[Watched] : Kindred(a, asked[c])

LEMMA WatchedAloneNext ==
  ASSUME Apart, UdpInv, OperationInv, WatchedAlone, [SharedNext]_sharedVars
  PROVE  WatchedAlone'
<1> DEFINE W == Watched
<1>1. /\ W \in Callers
      /\ pc \in [Callers -> {"idle", "drain", "send", "recv"}]
      /\ call \in [Callers -> 0 .. issued]
      /\ issued \in Nat
      /\ before \in [Calls -> SUBSET Calls]
  BY BoundsAssumption DEF Apart, UdpInv, TypeOK
<1>2. Ended \subseteq Ended'
  BY SharedStepIsStep, EndedGrows DEF UdpInv
<1>3. pc[W] # "idle" => call[W] \in 1 .. issued
  BY <1>1 DEF UdpInv, CallsDistinct
<1>4. /\ pc[W] = "idle" /\ call[W] # 0 => call[W] \in Ended
      /\ \A c \in 1 .. issued : Answering(c) =>
           \/ c = call[W]
           \/ c \in Ended /\ (pc[W] # "idle" => c \in before[call[W]])
  BY DEF WatchedAlone, Answering
<1>5. \A c \in 1 .. issued : Answering(c)' <=> Answering(c)
  BY CallsKept DEF Answering
<1> SUFFICES /\ pc'[W] = "idle" /\ call'[W] # 0 => call'[W] \in Ended'
             /\ \A c \in 1 .. issued' : Answering(c)' =>
                  \/ c = call'[W]
                  \/ c \in Ended' /\ (pc'[W] # "idle" => c \in before'[call'[W]])
  BY DEF WatchedAlone, Answering
<1> HIDE DEF Answering
<1> DEFINE Goal == /\ pc'[W] = "idle" /\ call'[W] # 0 => call'[W] \in Ended'
                   /\ \A c \in 1 .. issued' : Answering(c)' =>
                        \/ c = call'[W]
                        \/ c \in Ended' /\ (pc'[W] # "idle" => c \in before'[call'[W]])
\* No call begins, and the watched one's goes on or has ended.
<1>6. ASSUME issued' = issued, call'[W] = call[W], before' = before,
             pc'[W] # "idle" => pc[W] # "idle",
             pc[W] # "idle" /\ pc'[W] = "idle" => call[W] \in Ended'
      PROVE  Goal
  BY <1>2, <1>4, <1>5, <1>6
<1>7. ASSUME NEW op \in Uses[W], Begin(W, op)
      PROVE  Goal
  <2>1. issued' = issued + 1 /\ issued + 1 \in Calls
    BY <1>1, <1>7, BeginEffect
  <2>2. /\ pc[W] = "idle" /\ pc' = [pc EXCEPT ![W] = "drain"]
        /\ call' = [call EXCEPT ![W] = issued + 1]
        /\ before' = [before EXCEPT ![issued + 1] = Ended]
    BY <1>7 DEF Begin, SendRawRequest
  <2>3. pc'[W] = "drain" /\ call'[W] = issued + 1 /\ before'[issued + 1] = Ended
    BY <1>1, <2>1, <2>2
  <2>4. ASSUME NEW c \in 1 .. issued', Answering(c)', c # issued + 1
        PROVE  c \in Ended
    <3>1. c \in 1 .. issued
      BY <1>1, <2>1, <2>4
    <3>2. c = call[W] \/ c \in Ended
      BY <1>4, <1>5, <2>4, <3>1
    <3> QED
      BY <1>4, <2>2, <3>1, <3>2
  <2> QED
    BY <1>2, <2>3, <2>4
<1>8. ASSUME NEW t \in Callers \ {W}, NEW op \in Uses[t], Begin(t, op)
      PROVE  Goal
  <2>1. /\ issued' = issued + 1 /\ issued + 1 \in Calls
        /\ asked' = [asked EXCEPT ![issued + 1] = op]
        /\ pc'[W] = pc[W] /\ call'[W] = call[W]
    BY <1>1, <1>8, BeginEffect
  <2>2. before' = [before EXCEPT ![issued + 1] = Ended]
    BY <1>8 DEF Begin, SendRawRequest
  <2>3. asked'[issued + 1] = op
    BY <2>1 DEF OperationInv, SharedType
  <2>4. ASSUME NEW c \in 1 .. issued', Answering(c)'
        PROVE  c \in 1 .. issued
    <3>1. c # issued + 1
      BY <2>3, <2>4 DEF Answering, Apart, KindredToNone
    <3> QED
      BY <1>1, <2>1, <3>1
  <2>5. \A c \in 1 .. issued' : Answering(c)' => c \in 1 .. issued
    BY <2>4
  <2>6. pc[W] # "idle" => before'[call[W]] = before[call[W]]
    <3>1. ASSUME pc[W] # "idle"
          PROVE  call[W] \in Calls /\ call[W] # issued + 1
      <4>1. call[W] \in 1 .. issued
        BY <1>3, <3>1
      <4>2. issued \in Nat /\ issued + 1 \in 1 .. MaxCalls
        BY <1>1, <2>1 DEF Calls
      <4> QED
        BY <4>1, <4>2, BoundsAssumption DEF Calls
    <3> QED
      BY <1>1, <2>2, <3>1
  <2> QED
    BY <1>2, <1>4, <1>5, <2>1, <2>5, <2>6
<1>9. ASSUME NEW t \in Callers, NEW op \in Uses[t], Refuse(t, op)
      PROVE  Goal
  BY <1>6, <1>9, RefuseEffect DEF vars, clientVars
<1>10. ASSUME NEW t \in Callers, Proceed(t)
       PROVE  Goal
  <2>1. /\ issued' = issued /\ call' = call /\ before' = before /\ pc[t] # "idle"
        /\ \A u \in Callers \ {t} : pc'[u] = pc[u]
    BY <1>10, ProceedEffect
  <2>2. CASE t # W
    BY <1>1, <1>6, <2>1, <2>2
  <2>3. CASE t = W
    <3>1. ASSUME pc'[W] = "idle"
          PROVE  call[W] \in Ended'
      BY <1>1, <1>10, <2>1, <2>3, <3>1, ProceedFails DEF Ended
    <3> QED
      BY <1>6, <2>1, <2>3, <3>1
  <2> QED
    BY <2>2, <2>3
<1>11. ASSUME NEW t \in Callers, Complete(t)
       PROVE  Goal
  <2>1. /\ issued' = issued /\ call' = call /\ before' = before /\ pc[t] # "idle"
        /\ call[t] \in 1 .. issued
        /\ \A u \in Callers \ {t} : pc'[u] = pc[u]
    BY <1>11, CompleteEffect
  <2>2. CASE t # W
    BY <1>1, <1>6, <2>1, <2>2
  <2>3. CASE t = W
    <3>1. call[W] \in Ended'
      BY <1>11, <2>1, <2>3, CompleteEnds DEF Ended
    <3> QED
      BY <1>6, <2>1, <2>3, <3>1
  <2> QED
    BY <2>2, <2>3
<1>12. ASSUME UNCHANGED clientVars
       PROVE  Goal
  BY <1>6, <1>12 DEF clientVars
<1>13. ASSUME NEW c \in requests, Execute(c)
       PROVE  Goal
  BY <1>12, <1>13, ExecuteEffect
<1>14. ASSUME Transit
       PROVE  Goal
  BY <1>12, <1>14, TransitEffect
<1>15. ASSUME SharedFinished \/ UNCHANGED sharedVars
       PROVE  Goal
  BY <1>12, <1>15 DEF SharedFinished, Finished, sharedVars, vars
<1> HIDE DEF Goal
<1>16. Goal
  <2>1. ASSUME NEW t \in Callers, NEW op \in Uses[t], Begin(t, op)
        PROVE  Goal
    BY <1>7, <1>8, <2>1
  <2> QED
    BY <1>9, <1>10, <1>11, <1>13, <1>14, <1>15, <2>1 DEF SharedNext
<1> QED
  BY <1>16 DEF Goal

----------------------------------------------------------------------------
(***************************************************************************)
(* What the watched caller takes for an answer.                            *)
(***************************************************************************)

\* The answers it may still receive are those of its own call.
LEMMA AnswersOwn ==
  ASSUME UdpInv
  PROVE  /\ \A d \in replies : d.call = call[Watched] => d.form.content \in Answers
         /\ \A j \in 1 .. Len(sock) : pc[Watched] # "idle" /\ sock[j].call = call[Watched] =>
              sock[j].form.content \in Answers
BY LenProperties DEF UdpInv, TypeOK, Answers

\* It takes only an answer to its own call, and has the values found in it.
LEMMA CompleteTakes ==
  ASSUME Apart, UdpInv, OperationInv, WatchedInv, Complete(Watched), outcome'[Watched] = "ok"
  PROVE  /\ out'[Watched] \in Seq(Word \cup {Untouched})
         /\ \E values \in Found(job[Watched], Answers) :
              out'[Watched] = values \o SubSeq(out[Watched], Len(values) + 1, Len(out[Watched]))
<1> DEFINE W == Watched
           d == Head(sock)
           op == job[W]
           response == ResponseOf(op, d.form.content)
           status == Verdict(Received(d.form), arg[call[W]].out)
           r == [status |-> status, from |-> d.call, at |-> d.at]
<1>1. W \in Callers /\ pc[W] = "recv" /\ call[W] \in 1 .. issued /\ Quiet /\ StraysRefused
  BY CompleteEnds, CompleteEffect DEF Apart
<1>2. op \in Operations /\ Refusal(op) = "none" /\ Sent(op)
  BY <1>1, UsesAreSent DEF OperationInv, JobsSent
<1>3. op \in Uses[W] /\ asked[call[W]] = op
  BY <1>1 DEF WatchedInv, WatchedAsked
<1>4. PICK j \in 1 .. Len(sock) : d = sock[j]
  BY DequeueElements DEF UdpInv, Complete, Recv
<1>5. status = "ok" => IsFrame(Received(d.form)) /\ Received(d.form).slave = SlaveId
  BY AcceptedFrame
<1>6. result'[call[W]].status = status
  <2>1. Return(W, r)
    BY DEF Complete, Recv
  <2>2. r.status = status
    OBVIOUS
  <2> HIDE DEF r
  <2>3. result'[call[W]] = r
    BY <1>1, <2>1, ReturnEffect
  <2> QED
    BY <2>2, <2>3
<1> HIDE DEF status
<1>7. /\ status = "ok" /\ response.ok
      /\ out' = [out EXCEPT ![W] = Copied(op, @, response)]
  <2>1. outcome \in [Callers -> Statuses \cup {"none", "pending"}]
    BY DEF OperationInv, SharedType
  <2> HIDE DEF response, op
  <2>2. IF status = "ok"
          THEN /\ outcome' = [outcome EXCEPT ![W] =
                    IF Accepts(op, response) THEN "ok" ELSE "kInvalidResponse"]
               /\ out' = [out EXCEPT ![W] = Copied(op, @, response)]
          ELSE outcome' = [outcome EXCEPT ![W] = status] /\ UNCHANGED out
    BY <1>6 DEF Complete, op, response
  <2> QED
    BY <1>1, <2>1, <2>2 DEF Accepts
<1>8. out'[W] = Copied(op, out[W], response) /\ out[W] \in Seq(Word \cup {Untouched})
  BY <1>1, <1>7 DEF WatchedInv, WatchedBuffer
<1>9. d.call \in 1 .. issued
  <2>1. d.call \in 1 .. issued \/ d.form \in StrayForms
    BY <1>4, Origin
  <2> QED
    BY <1>1, <1>5, <1>7, <2>1 DEF StraysRefused
<1>10. d.form.content \in AnswersOf(asked[d.call])
  BY <1>4, <1>9 DEF OperationInv, ContentsAnswer
<1>11. asked[d.call] \in Operations /\ Refusal(asked[d.call]) = "none" /\ Sent(asked[d.call])
  BY <1>9, UsesAreSent DEF OperationInv, AskedSent
\* The call it belongs to is the one that waits for it.
<1>12. d.call = call[W]
  <2>1. Kindred(op, asked[d.call])
    BY <1>2, <1>7, <1>10, <1>11, AcceptedIsKindred
  <2>2. d.call = call[W] \/ d.call \in before[call[W]]
    BY <1>1, <1>3, <1>9, <2>1 DEF WatchedInv, WatchedAlone
  <2>3. d.call \notin before[call[W]]
    BY <1>1, <1>4 DEF UdpInv, EarlierIsGone
  <2> QED
    BY <2>2, <2>3
<1>13. d.form.content \in Answers
  BY <1>1, <1>4, <1>12, AnswersOwn
<1>14. AnswerTo(op, d.form.content)
  BY <1>2, <1>3, <1>10, <1>12, AnswersAnswer
<1> HIDE DEF op, W, d
<1>15. Taken(op, out[W], Answers, d.form.content)
  BY <1>2, <1>7, <1>8, <1>13, <1>14, AcceptedAnswer, Zenon DEF response
<1> QED
  BY <1>8, <1>15 DEF Taken, W, op, response

\* How a call ends on a datagram it takes no answer from.
LEMMA CompleteFails ==
  ASSUME UdpInv, OperationInv, WatchedBuffer, Watched \in Callers,
         Complete(Watched), outcome'[Watched] # "ok"
  PROVE  outcome'[Watched] \in ClientErrors /\ out'[Watched] = out[Watched]
<1> DEFINE W == Watched
           response == ResponseOf(job[W], Head(sock).form.content)
<1>1. outcome'[W] \in Statuses
  BY CompleteEffect
<1>2. outcome'[W] \in ClientErrors
  BY <1>1 DEF Statuses, ClientErrors
<1>3. outcome \in [Callers -> Statuses \cup {"none", "pending"}]
  BY DEF OperationInv, SharedType
<1> HIDE DEF response
<1>4. \/ /\ outcome' = [outcome EXCEPT ![W] =
               IF Accepts(job[W], response) THEN "ok" ELSE "kInvalidResponse"]
         /\ out' = [out EXCEPT ![W] = Copied(job[W], @, response)]
      \/ UNCHANGED out
  BY DEF Complete, response
<1>5. out'[W] = out[W]
  <2>1. CASE UNCHANGED out
    BY <2>1
  <2>2. CASE /\ outcome' = [outcome EXCEPT ![W] =
                   IF Accepts(job[W], response) THEN "ok" ELSE "kInvalidResponse"]
             /\ out' = [out EXCEPT ![W] = Copied(job[W], @, response)]
    <3>1. ~ response.ok
      BY <1>3, <2>2 DEF Accepts
    <3>2. out'[W] = Copied(job[W], out[W], response)
      BY <2>2 DEF WatchedBuffer
    <3> QED
      BY <3>1, <3>2 DEF Copied
  <2> QED
    BY <1>4, <2>1, <2>2
<1> QED
  BY <1>2, <1>5

\* Only its own steps touch a caller's buffer and operation.
LEMMA EnterEffect ==
  ASSUME OperationInv, out = [u \in Callers |-> out[u]], NEW t \in Callers, NEW op, Enter(t, op)
  PROVE  /\ out' = [u \in Callers |-> out'[u]]
         /\ out'[t] = [i \in 1 .. op.room |-> Untouched] /\ job'[t] = op
         /\ \A u \in Callers \ {t} : out'[u] = out[u] /\ job'[u] = job[u]
<1>1. job \in [Callers -> Operations \cup {NoJob}]
  BY DEF OperationInv, SharedType
<1>2. job' = [job EXCEPT ![t] = op]
  BY DEF Enter
<1>3. out' = [out EXCEPT ![t] = [i \in 1 .. op.room |-> Untouched]]
  BY DEF Enter
<1>4. job'[t] = op /\ \A u \in Callers \ {t} : job'[u] = job[u]
  BY <1>1, <1>2
<1> DEFINE buffer == [i \in 1 .. op.room |-> Untouched]
<1>5. out' = [out EXCEPT ![t] = buffer]
  BY <1>3
<1> HIDE DEF buffer
<1>6. /\ out' = [u \in Callers |-> out'[u]]
      /\ out'[t] = buffer
      /\ \A u \in Callers \ {t} : out'[u] = out[u]
  BY <1>5
<1> QED
  BY <1>4, <1>6 DEF buffer

LEMMA CompleteBuffer ==
  ASSUME out = [u \in Callers |-> out[u]], NEW t \in Callers, Complete(t)
  PROVE  /\ out' = [u \in Callers |-> out'[u]]
         /\ \A u \in Callers \ {t} : out'[u] = out[u]
<1> DEFINE response == ResponseOf(job[t], Head(sock).form.content)
<1> HIDE DEF response
<1>1. out' = [out EXCEPT ![t] = Copied(job[t], @, response)] \/ UNCHANGED out
  BY DEF Complete, response
<1> QED
  BY <1>1

LEMMA WatchedBufferNext ==
  ASSUME Apart, UdpInv, OperationInv, WatchedInv, [SharedNext]_sharedVars
  PROVE  WatchedBuffer'
<1> DEFINE W == Watched
           S == Word \cup {Untouched}
<1>1. W \in Callers /\ out = [t \in Callers |-> out[t]] /\ out[W] \in Seq(S)
  BY DEF Apart, WatchedInv, WatchedBuffer
<1> SUFFICES out' = [t \in Callers |-> out'[t]] /\ out'[W] \in Seq(S)
  BY DEF WatchedBuffer
<1> HIDE DEF S
<1>2. ASSUME NEW t \in Callers, NEW op \in Uses[t], Begin(t, op) \/ Refuse(t, op)
      PROVE  out' = [u \in Callers |-> out'[u]] /\ out'[W] \in Seq(S)
  <2>1. /\ out' = [u \in Callers |-> out'[u]]
        /\ out'[t] = [i \in 1 .. op.room |-> Untouched]
        /\ \A u \in Callers \ {t} : out'[u] = out[u]
    BY <1>1, <1>2, EnterEffect DEF Begin, Refuse
  <2>2. op.room \in Nat
    BY UsesAssumption DEF OperationType
  <2>3. [i \in 1 .. op.room |-> Untouched] \in Seq(S)
    <3>1. [i \in 1 .. op.room |-> Untouched] \in [1 .. op.room -> S]
      BY DEF S
    <3> QED
      BY <2>2, <3>1, ListIsSequence
  <2> QED
    BY <1>1, <2>1, <2>3
<1>3. ASSUME NEW t \in Callers, Complete(t)
      PROVE  out' = [u \in Callers |-> out'[u]] /\ out'[W] \in Seq(S)
  <2>1. /\ out' = [u \in Callers |-> out'[u]]
        /\ \A u \in Callers \ {t} : out'[u] = out[u]
    BY <1>1, <1>3, CompleteBuffer
  <2>2. CASE t # W
    BY <1>1, <2>1, <2>2
  <2>3. CASE t = W /\ outcome'[W] = "ok"
    BY <1>3, <2>1, <2>3, CompleteTakes DEF S
  <2>4. CASE t = W /\ outcome'[W] # "ok"
    BY <1>1, <1>3, <2>1, <2>4, CompleteFails DEF WatchedInv
  <2> QED
    BY <2>2, <2>3, <2>4
<1>4. ASSUME UNCHANGED out
      PROVE  out' = [u \in Callers |-> out'[u]] /\ out'[W] \in Seq(S)
  BY <1>1, <1>4
<1>5. ASSUME NEW t \in Callers, Proceed(t)
      PROVE  UNCHANGED out
  BY <1>5 DEF Proceed
<1>6. ASSUME NEW c \in requests, Execute(c)
      PROVE  UNCHANGED out
  BY <1>6, ExecuteEffect DEF operationVars
<1>7. ASSUME Transit \/ SharedFinished \/ UNCHANGED sharedVars
      PROVE  UNCHANGED out
  BY <1>7 DEF Transit, SharedFinished, sharedVars, operationVars
<1> QED
  BY <1>2, <1>3, <1>4, <1>5, <1>6, <1>7 DEF SharedNext

LEMMA WatchedInvInit ==
  ASSUME Watched \in Callers, SharedInit
  PROVE  WatchedInv
<1>1. /\ pc[Watched] = "idle" /\ call[Watched] = 0 /\ issued = 0
      /\ requests = {} /\ replies = {} /\ out[Watched] = <<>>
      /\ out = [t \in Callers |-> out[t]]
  BY DEF SharedInit, Init
<1>2. InTransit = {} /\ 1 .. issued = {}
  BY <1>1 DEF InTransit
<1>3. <<>> \in Seq(Word \cup {Untouched})
  BY EmptySeq
<1> QED
  BY <1>1, <1>2, <1>3 DEF WatchedInv, WatchedAsked, WatchedAlone, WatchedBuffer

LEMMA WatchedInvNext ==
  ASSUME Apart, UdpInv, OperationInv, WatchedInv, [SharedNext]_sharedVars
  PROVE  WatchedInv'
<1>1. WatchedAsked'
  BY WatchedAskedNext DEF WatchedInv
<1>2. WatchedAlone'
  BY WatchedAloneNext DEF WatchedInv
<1> QED
  BY <1>1, <1>2, WatchedBufferNext DEF WatchedInv

----------------------------------------------------------------------------
(***************************************************************************)
(* To the watched caller the client is RemoteMemory.                       *)
(***************************************************************************)

\* Whether the request of the watched caller's call may still take effect.
StillAsked == call[Watched] \in requests \/ pc[Watched] \in {"drain", "send"}

LEMMA InitRemembers ==
  ASSUME Watched \in Callers
  PROVE  SharedInit => Abstract!Init
<1> SUFFICES ASSUME SharedInit
             PROVE  Abstract!Init
  OBVIOUS
<1>1. /\ pc[Watched] = "idle" /\ call[Watched] = 0 /\ requests = {} /\ replies = {}
      /\ job[Watched] = NoJob /\ out[Watched] = <<>> /\ outcome[Watched] = "none"
      /\ memory = InitialMemory
  BY DEF SharedInit, Init
<1>2. Answers = {}
  BY <1>1 DEF Answers
<1>3. Found(job[Watched], Answers) = {}
  BY <1>2, NothingFound
<1>4. outcome[Watched] \notin ClientErrors
  BY <1>1 DEF ClientErrors
<1> QED
  BY <1>1, <1>3, <1>4 DEF Abstract!Init, NoJob, Abstract!NoJob

\* No answer is added when none to the watched caller's call is sent.
LEMMA AnswersStay ==
  ASSUME UdpInv, UdpInv', call'[Watched] = call[Watched],
         pc'[Watched] # "idle" => pc[Watched] # "idle",
         pc[Watched] # "idle" => call[Watched] # 0,
         \A d \in replies' : d \in replies \/ d.call # call[Watched],
         \A i \in 1 .. Len(sock') :
           \/ \E j \in 1 .. Len(sock) : sock'[i] = sock[j]
           \/ \E d \in replies : sock'[i].call = d.call /\ sock'[i].form = d.form
           \/ sock'[i].call = 0
  PROVE  Answers' \subseteq Answers
<1> SUFFICES ASSUME NEW pdu \in Answers'
             PROVE  pdu \in Answers
  OBVIOUS
<1>1. DOMAIN sock' = 1 .. Len(sock')
  BY LenProperties DEF UdpInv, TypeOK
<1>2. \/ \E d \in replies' : d.call = call[Watched] /\ pdu = d.form.content
      \/ \E i \in 1 .. Len(sock') : /\ pc[Watched] # "idle" /\ sock'[i].call = call[Watched]
                                    /\ pdu = sock'[i].form.content
  BY <1>1 DEF Answers
<1>3. CASE \E d \in replies' : d.call = call[Watched] /\ pdu = d.form.content
  BY <1>3, AnswersOwn
<1>4. CASE \E i \in 1 .. Len(sock') : /\ pc[Watched] # "idle" /\ sock'[i].call = call[Watched]
                                      /\ pdu = sock'[i].form.content
  <2>1. PICK i \in 1 .. Len(sock') : /\ pc[Watched] # "idle" /\ sock'[i].call = call[Watched]
                                     /\ pdu = sock'[i].form.content
    BY <1>4
  <2>2. \/ \E j \in 1 .. Len(sock) : sock'[i] = sock[j]
        \/ \E d \in replies : sock'[i].call = d.call /\ sock'[i].form = d.form
    BY <2>1
  <2> QED
    BY <2>1, <2>2, AnswersOwn
<1> QED
  BY <1>2, <1>3, <1>4

\* What RemoteMemory sees of a step that only loses what is in transit.
LEMMA NothingNew ==
  ASSUME job'[Watched] = job[Watched], memory' = memory, pc'[Watched] # "idle" <=> pc[Watched] # "idle",
         out'[Watched] = out[Watched], outcome'[Watched] = outcome[Watched],
         Found(job'[Watched], Answers') \subseteq Found(job[Watched], Answers),
         StillAsked' => StillAsked
  PROVE  Abstract!Next
<1> DEFINE earlier == call[Watched] \in requests \/ pc[Watched] \in {"drain", "send"}
           later == call'[Watched] \in requests' \/ pc'[Watched] \in {"drain", "send"}
<1>1. later => earlier
  BY DEF StillAsked
<1>2. later \in {FALSE, earlier}
  <2>1. CASE later
    BY <1>1, <2>1
  <2>2. CASE ~ later
    BY <2>2
  <2> QED
    BY <2>1, <2>2
<1>3. (pc'[Watched] # "idle") = (pc[Watched] # "idle")
  OBVIOUS
<1>4. Abstract!Forget
  BY <1>2, <1>3, Zenon DEF Abstract!Forget
<1> QED
  BY <1>4 DEF Abstract!Next

LEMMA LossIsForgotten ==
  ASSUME job'[Watched] = job[Watched], memory' = memory, pc'[Watched] # "idle" <=> pc[Watched] # "idle",
         out'[Watched] = out[Watched], outcome'[Watched] = outcome[Watched],
         Answers' \subseteq Answers, StillAsked' => StillAsked
  PROVE  Abstract!Next
<1>1. Found(job'[Watched], Answers') \subseteq Found(job[Watched], Answers)
  BY FoundIn
<1> QED
  BY <1>1, NothingNew

\* What RemoteMemory sees of a call that ends without an answer.
LEMMA EndIsFail ==
  ASSUME job'[Watched] = job[Watched], memory' = memory, out'[Watched] = out[Watched],
         pc[Watched] # "idle", pc'[Watched] = "idle", outcome'[Watched] \in ClientErrors,
         Answers' \subseteq Answers, StillAsked' => StillAsked
  PROVE  Abstract!Next
<1>1. Found(job'[Watched], Answers') \subseteq Found(job[Watched], Answers)
  BY FoundIn
<1> DEFINE earlier == call[Watched] \in requests \/ pc[Watched] \in {"drain", "send"}
           later == call'[Watched] \in requests' \/ pc'[Watched] \in {"drain", "send"}
<1>2. later => earlier
  BY DEF StillAsked
<1>3. later \in {FALSE, earlier}
  <2>1. CASE later
    BY <1>2, <2>1
  <2>2. CASE ~ later
    BY <2>2
  <2> QED
    BY <2>1, <2>2
<1>4. (pc'[Watched] # "idle") = FALSE
  OBVIOUS
<1>5. Abstract!Fail
  BY <1>1, <1>3, <1>4, Zenon DEF Abstract!Fail
<1> QED
  BY <1>5 DEF Abstract!Next

\* A call begins when nothing is left of the one before.
LEMMA BeginRemembers ==
  ASSUME Apart, UdpInv, UdpInv', OperationInv, WatchedInv, NEW op \in Uses[Watched],
         Begin(Watched, op) \/ Refuse(Watched, op)
  PROVE  Abstract!Next
<1> DEFINE W == Watched
<1>1. /\ W \in Callers /\ Quiet /\ pc \in [Callers -> {"idle", "drain", "send", "recv"}]
      /\ call \in [Callers -> 0 .. issued] /\ issued \in Nat
      /\ outcome \in [Callers -> Statuses \cup {"none", "pending"}]
  BY BoundsAssumption DEF Apart, UdpInv, TypeOK, OperationInv, SharedType
<1>2. pc[W] = "idle" /\ InTransit \cap Ended = {} /\ replies' = replies /\ requests' = requests
  BY <1>1 DEF Begin, Refuse, SendRawRequest, vars, netVars
<1>3. call[W] \notin InTransit
  BY <1>2, NothingLeft DEF WatchedInv
<1>4. ~ StillAsked /\ Answers = {}
  BY <1>2, <1>3 DEF StillAsked, Answers, InTransit
<1>5. Found(job[W], Answers) = {}
  BY <1>4, NothingFound
<1>6. out'[W] = Abstract!Buffer(op) /\ job'[W] = op /\ memory' = memory
  BY <1>1, EnterEffect DEF Begin, Refuse, WatchedInv, WatchedBuffer, Abstract!Buffer
<1>7. CASE Begin(W, op)
  <2>1. Sent(op) /\ issued' = issued + 1 /\ sock' = sock
    BY <1>1, <1>7, BeginEffect, UsesAreSent
  <2>2. pc' = [pc EXCEPT ![W] = "drain"] /\ call' = [call EXCEPT ![W] = issued + 1]
        /\ outcome' = [outcome EXCEPT ![W] = "none"]
    BY <1>7 DEF Begin, SendRawRequest
  <2>3. pc'[W] = "drain" /\ call'[W] = issued + 1 /\ outcome'[W] = "none"
    BY <1>1, <2>2
  <2>4. Answers' = {}
    <3>1. \A d \in replies : d.call # issued + 1
      BY <1>1, Origin
    <3>2. \A i \in 1 .. Len(sock) : sock[i].call # issued + 1
      BY <1>1, Origin
    <3>3. DOMAIN sock = 1 .. Len(sock)
      BY LenProperties DEF UdpInv, TypeOK
    <3> QED
      BY <1>2, <2>1, <2>3, <3>1, <3>2, <3>3 DEF Answers
  <2>5. Found(job'[W], Answers') = {}
    BY <2>4, NothingFound
  <2>6. op.quantity > 0 /\ (op.write \/ op.quantity <= op.room)
    BY <2>1, SentFits
  <2>7. outcome'[W] \notin ClientErrors
    BY <2>3 DEF ClientErrors
  <2>8. Abstract!Begin(op)
    BY <1>2, <1>4, <1>5, <1>6, <2>3, <2>5, <2>6, <2>7 DEF Abstract!Begin, StillAsked
  <2> QED
    BY <2>8 DEF Abstract!Next
<1>8. CASE Refuse(W, op)
  <2>1. UNCHANGED vars /\ outcome' = [outcome EXCEPT ![W] = Refusal(op)] /\ Refusal(op) # "none"
    BY <1>8 DEF Refuse
  <2>2. outcome'[W] \in ClientErrors
    BY <1>1, <2>1, RefusalIsFailure DEF ClientErrors
  <2>3. pc' = pc /\ ~ StillAsked' /\ Answers' = {}
    BY <1>4, <2>1 DEF vars, clientVars, netVars, StillAsked, Answers
  <2>4. Found(job'[W], Answers') = {}
    BY <2>3, NothingFound
  <2>5. Abstract!Refuse(op)
    BY <1>2, <1>4, <1>5, <1>6, <2>2, <2>3, <2>4 DEF Abstract!Refuse, StillAsked
  <2> QED
    BY <2>5 DEF Abstract!Next
<1> QED
  BY <1>7, <1>8

\* A call that goes on, or ends without an answer.
LEMMA ProceedRemembers ==
  ASSUME Apart, UdpInv, UdpInv', OperationInv, WatchedInv, NEW t \in Callers, Proceed(t)
  PROVE  Abstract!Next
<1> DEFINE W == Watched
<1>1. /\ pc[t] # "idle" /\ UNCHANGED <<job, memory, out, call, replies>>
      /\ \A u \in Callers \ {t} : pc'[u] = pc[u] /\ outcome'[u] = outcome[u]
      /\ pc'[t] # "idle" => outcome'[t] = outcome[t]
      /\ \A i \in 1 .. Len(sock') : \E j \in 1 .. Len(sock) : sock'[i] = sock[j]
  BY ProceedEffect DEF Proceed
<1>2. pc[W] # "idle" => call[W] # 0
  BY DEF UdpInv, TypeOK, CallsDistinct, Apart
<1>3. W \in Callers
  BY DEF Apart
<1>4. Answers' \subseteq Answers
  BY <1>1, <1>2, <1>3, AnswersStay
<1>5. CASE t # W
  <2>1. call[t] # call[W]
    BY <1>1, <1>5, OtherCall DEF WatchedInv
  <2>2. call[W] \in requests' => call[W] \in requests
    BY <2>1, ProceedSends
  <2>3. StillAsked' => StillAsked
    BY <1>1, <1>3, <1>5, <2>2 DEF StillAsked
  <2> QED
    BY <1>1, <1>3, <1>4, <1>5, <2>3, LossIsForgotten
<1>6. CASE t = W
  <2>1. StillAsked' => StillAsked
    BY <1>1, <1>6, ProceedSends DEF StillAsked
  <2>2. CASE pc'[W] # "idle"
    BY <1>1, <1>4, <1>6, <2>1, <2>2, LossIsForgotten
  <2>3. CASE pc'[W] = "idle"
    <3>1. outcome'[W] \in ClientErrors
      BY <1>6, <2>3, ProceedFails
    <3> QED
      BY <1>1, <1>4, <1>6, <2>1, <2>3, <3>1, EndIsFail
  <2> QED
    BY <2>2, <2>3
<1> QED
  BY <1>5, <1>6

\* A call that receives ends with what it takes, or fails.
LEMMA CompleteRemembers ==
  ASSUME Apart, UdpInv, UdpInv', OperationInv, WatchedInv, NEW t \in Callers, Complete(t)
  PROVE  Abstract!Next
<1> DEFINE W == Watched
<1>1. /\ pc[t] # "idle" /\ pc'[t] = "idle" /\ UNCHANGED <<job, memory, call, replies>>
      /\ \A u \in Callers \ {t} : pc'[u] = pc[u] /\ outcome'[u] = outcome[u]
      /\ \A i \in 1 .. Len(sock') : \E j \in 1 .. Len(sock) : sock'[i] = sock[j]
  BY CompleteEffect
<1>2. pc[t] = "recv" /\ requests' = requests
  BY CompleteEnds
<1>3. W \in Callers /\ (pc[W] # "idle" => call[W] # 0)
  BY DEF UdpInv, TypeOK, CallsDistinct, Apart
<1>4. Answers' \subseteq Answers
  BY <1>1, <1>3, AnswersStay
<1>5. CASE t # W
  <2>1. StillAsked' => StillAsked
    BY <1>1, <1>2, <1>3, <1>5 DEF StillAsked
  <2>2. out'[W] = out[W]
    BY <1>3, <1>5, CompleteBuffer DEF WatchedInv, WatchedBuffer
  <2> QED
    BY <1>1, <1>3, <1>4, <1>5, <2>1, <2>2, LossIsForgotten
<1>6. CASE t = W /\ outcome'[W] # "ok"
  <2>1. outcome'[W] \in ClientErrors /\ out'[W] = out[W]
    BY <1>3, <1>6, CompleteFails DEF WatchedInv
  <2>2. StillAsked' => StillAsked
    BY <1>1, <1>2, <1>6 DEF StillAsked
  <2> QED
    BY <1>1, <1>4, <1>6, <2>1, <2>2, EndIsFail
<1>7. CASE t = W /\ outcome'[W] = "ok"
  <2>1. \E values \in Found(job[W], Answers) :
          out'[W] = values \o SubSeq(out[W], Len(values) + 1, Len(out[W]))
    BY <1>7, CompleteTakes
  <2>2. Found(job'[W], Answers') \subseteq Found(job[W], Answers)
    BY <1>1, <1>4, FoundIn
  <2>3. outcome'[W] \notin ClientErrors
    BY <1>7 DEF ClientErrors
  <2>4. /\ pc[W] \notin {"drain", "send"} /\ pc'[W] \notin {"drain", "send"}
        /\ pc[W] # "idle" /\ pc'[W] = "idle"
    BY <1>1, <1>2, <1>7
  <2>5. Abstract!Succeed
    BY <1>1, <1>2, <1>7, <2>1, <2>2, <2>3, <2>4 DEF Abstract!Succeed
  <2> QED
    BY <2>5 DEF Abstract!Next
<1> QED
  BY <1>5, <1>6, <1>7

\* What serving a request means to the watched caller: of its own it gets the
\* answer, another's is a change of the memory.
LEMMA ExecuteRemembers ==
  ASSUME Apart, UdpInv, UdpInv', OperationInv, WatchedInv, NEW c \in requests, Execute(c)
  PROVE  Abstract!Next
<1> DEFINE W == Watched
           op == asked[c]
           done == Executed(memory, op.code, Created(op).value)
           reply == done.reply
<1>1. UNCHANGED <<pc, call, job, out, outcome, sock>>
  BY ExecuteEffect DEF clientVars, operationVars
<1>2. W \in Callers /\ (pc[W] # "idle" => call[W] # 0)
  BY DEF UdpInv, TypeOK, CallsDistinct, Apart
<1>3. op \in Operations /\ Refusal(op) = "none" /\ Sent(op)
  BY AskedIsSent, UsesAreSent
<1>4. memory' = done.tables
  BY DEF Execute
<1>5. MemoryType(memory)
  BY TablesAreMemory
<1>6. /\ requests' = requests \/ requests' = requests \ {c}
      /\ replies' = replies \cup {Reply(c, ReplyForm(reply))}
  BY DEF Execute, Serve
<1>7. Reply(c, ReplyForm(reply)).call = c /\ Reply(c, ReplyForm(reply)).form.content = reply
  BY DEF Reply, ReplyForm
<1> HIDE DEF op, done
<1>8. /\ MemoryType(done.tables)
      /\ Place(op) \subseteq Addresses =>
           /\ done.tables = WrittenTo(memory, op)
           /\ reply[1] = op.code
           /\ ~ op.write => Unpack(op.code, From(reply, 2), op.quantity) = AnswerFrom(memory, op)
      /\ ~ Place(op) \subseteq Addresses => done.tables = memory /\ reply[1] # op.code
  BY <1>3, <1>5, Served, Zenon DEF done
<1> HIDE DEF reply
<1>9. StillAsked' => StillAsked
  BY <1>1, <1>6 DEF StillAsked
<1>10. CASE c = call[W]
  <2>1. op = job[W]
    BY <1>10 DEF op, WatchedInv, WatchedAsked, InTransit
  <2>2. StillAsked
    BY <1>10 DEF StillAsked
  <2>3. Answers' = Answers \cup {reply}
    BY <1>1, <1>6, <1>7, <1>10 DEF Answers
  <2>4. CASE Place(op) \subseteq Addresses
    <3>1. Abstract!Place(job[W]) \subseteq Addresses
      BY <2>1, <2>4 DEF Place, Abstract!Place
    <3>2. memory' = Abstract!Written(job[W])
      BY <1>4, <1>8, <2>1, <2>4 DEF WrittenTo, Place, Abstract!Written, Abstract!Place
    <3>3. Abstract!Answer(job[W]) = AnswerFrom(memory, op)
      BY <2>1 DEF AnswerFrom, Abstract!Answer
    <3>4. Found(op, Answers \cup {reply}) =
            Found(op, Answers) \cup
              {IF op.write THEN <<>> ELSE Unpack(op.code, From(reply, 2), op.quantity)}
      BY <1>8, <2>4, FoundIn, Zenon
    <3>5. (IF op.write THEN <<>> ELSE Unpack(op.code, From(reply, 2), op.quantity))
            = AnswerFrom(memory, op)
      BY <1>8, <2>4 DEF AnswerFrom
    <3>6. Found(job'[W], Answers') = Found(job[W], Answers) \cup {Abstract!Answer(job[W])}
      BY <1>1, <2>1, <2>3, <3>3, <3>4, <3>5, Zenon
    <3>7. Abstract!TakeEffect
      BY <1>1, <2>2, <3>1, <3>2, <3>6 DEF Abstract!TakeEffect, StillAsked
    <3> QED
      BY <3>7 DEF Abstract!Next
  <2>5. CASE ~ Place(op) \subseteq Addresses
    <3>1. Found(op, Answers \cup {reply}) = Found(op, Answers)
      BY <1>8, <2>5, FoundIn, Zenon
    <3>2. Found(job'[W], Answers') = Found(job[W], Answers)
      BY <1>1, <2>1, <2>3, <3>1
    <3> QED
      BY <1>1, <1>4, <1>8, <1>9, <2>5, <3>2, NothingNew
  <2> QED
    BY <2>4, <2>5
<1>11. CASE c # call[W]
  <2>1. Answers' = Answers
    BY <1>1, <1>6, <1>7, <1>11 DEF Answers
  <2>2. CASE memory' = memory
    BY <1>1, <1>9, <2>1, <2>2, LossIsForgotten
  <2>3. CASE memory' # memory
    <3>1. memory' = WrittenTo(memory, op) /\ MemoryType(memory')
      BY <1>4, <1>8, <2>3
    <3>2. op.write
      BY <2>3, <3>1 DEF WrittenTo
    <3>3. op.table \in Tables
      BY <1>3, SentFields, Zenon
    <3>4. memory'[op.table] \in [Addresses -> Word] /\ memory \in [Tables -> [Addresses -> Word]]
      BY <1>5, <3>1, <3>3 DEF MemoryType
    <3>5. memory' = [memory EXCEPT ![op.table] = memory'[op.table]]
      BY <3>1, <3>2, <3>3, <3>4 DEF WrittenTo
    <3>6. call[W] \in requests' <=> call[W] \in requests
      BY <1>6, <1>11
    <3>7. Abstract!Change
      BY <1>1, <2>1, <3>3, <3>4, <3>5, <3>6 DEF Abstract!Change
    <3> QED
      BY <3>7 DEF Abstract!Next
  <2> QED
    BY <2>2, <2>3
<1> QED
  BY <1>10, <1>11

LEMMA NextRemembers ==
  ASSUME Apart, UdpInv, OperationInv, WatchedInv, [SharedNext]_sharedVars
  PROVE  [Abstract!Next]_(Abstract!vars)
<1> DEFINE W == Watched
<1>1. UdpInv'
  BY OperationInvNext
<1>2. W \in Callers /\ (pc[W] # "idle" => call[W] # 0)
  BY DEF UdpInv, TypeOK, CallsDistinct, Apart
\* The caller takes no part in the step.
<1>3. ASSUME UNCHANGED clientVars, job'[W] = job[W], out'[W] = out[W], outcome'[W] = outcome[W],
             memory' = memory, requests' \subseteq requests, replies' \subseteq replies,
             \A i \in 1 .. Len(sock') :
               \/ \E j \in 1 .. Len(sock) : sock'[i] = sock[j]
               \/ \E d \in replies : sock'[i].call = d.call /\ sock'[i].form = d.form
               \/ sock'[i].call = 0
      PROVE  Abstract!Next
  <2>1. pc' = pc /\ call' = call
    BY <1>3 DEF clientVars
  <2>2. Answers' \subseteq Answers
    BY <1>1, <1>2, <1>3, <2>1, AnswersStay
  <2>3. StillAsked' => StillAsked
    BY <1>3, <2>1 DEF StillAsked
  <2> QED
    BY <1>3, <2>1, <2>2, <2>3, LossIsForgotten
<1>4. ASSUME UNCHANGED vars, job'[W] = job[W], out'[W] = out[W], outcome'[W] = outcome[W],
             memory' = memory
      PROVE  Abstract!Next
  <2>1. UNCHANGED <<clientVars, requests, replies, sock>>
    BY <1>4 DEF vars, netVars
  <2>2. \A i \in 1 .. Len(sock') : \E j \in 1 .. Len(sock) : sock'[i] = sock[j]
    BY <2>1
  <2> QED
    BY <1>3, <1>4, <2>1, <2>2
<1>5. ASSUME NEW t \in Callers, NEW op \in Uses[t], Begin(t, op) \/ Refuse(t, op)
      PROVE  Abstract!Next
  <2>1. CASE t = W
    BY <1>1, <1>5, <2>1, BeginRemembers
  <2>2. CASE t # W
    <3>1. out'[W] = out[W] /\ job'[W] = job[W]
      BY <1>2, <1>5, <2>2, EnterEffect DEF Begin, Refuse, WatchedInv, WatchedBuffer
    <3>2. memory' = memory /\ outcome'[W] = outcome[W]
      BY <1>2, <1>5, <2>2 DEF Begin, Refuse, OperationInv, SharedType
    <3>3. CASE Refuse(t, op)
      BY <1>4, <3>1, <3>2, <3>3 DEF Refuse
    <3>4. CASE Begin(t, op)
      <4>1. pc'[W] = pc[W] /\ call'[W] = call[W] /\ replies' = replies /\ sock' = sock
        BY <1>2, <2>2, <3>4, BeginEffect
      <4>2. requests' = requests
        BY <3>4 DEF Begin, SendRawRequest, netVars
      <4>3. StillAsked' => StillAsked
        BY <4>1, <4>2 DEF StillAsked
      <4>4. Answers' \subseteq Answers
        BY <4>1 DEF Answers
      <4> QED
        BY <3>1, <3>2, <4>1, <4>3, <4>4, LossIsForgotten
    <3> QED
      BY <1>5, <3>3, <3>4
  <2> QED
    BY <2>1, <2>2
<1>6. ASSUME NEW t \in Callers, Proceed(t) \/ Complete(t)
      PROVE  Abstract!Next
  BY <1>1, <1>6, ProceedRemembers, CompleteRemembers
<1>7. ASSUME NEW c \in requests, Execute(c)
      PROVE  Abstract!Next
  BY <1>1, <1>7, ExecuteRemembers
<1>8. ASSUME Transit
      PROVE  Abstract!Next
  BY <1>3, <1>8, TransitLeaves, TransitEffect DEF operationVars
<1>9. ASSUME SharedFinished \/ UNCHANGED sharedVars
      PROVE  Abstract!Next
  BY <1>4, <1>9 DEF SharedFinished, Finished, sharedVars, operationVars
<1> QED
  BY <1>5, <1>6, <1>7, <1>8, <1>9 DEF SharedNext

(***************************************************************************)
(* A caller that leaves a quiet gap before its requests and shares no      *)
(* kindred calls with another cannot tell the shared client and its slave  *)
(* from a memory that the others change as well, however its calls and the *)
(* datagrams interleave with theirs and whatever the network loses,        *)
(* duplicates or delays: no answer to an earlier call of its own, and none *)
(* to another caller's, is taken for an answer to its current call.        *)
(***************************************************************************)
THEOREM WatchedHasMemory ==
  ASSUME Apart
  PROVE  SharedSpec => CallerHasMemory
<1>1. SharedInit => UdpInv /\ OperationInv /\ WatchedInv /\ Abstract!Init
  BY UdpInvInit, OperationInvInit, WatchedInvInit, InitRemembers DEF SharedInit, Apart
<1>2. UdpInv /\ OperationInv /\ WatchedInv /\ [SharedNext]_sharedVars
        => UdpInv' /\ OperationInv' /\ WatchedInv'
  BY OperationInvNext, WatchedInvNext
<1>3. UdpInv /\ OperationInv /\ WatchedInv /\ [SharedNext]_sharedVars
        => [Abstract!Next]_(Abstract!vars)
  BY NextRemembers
<1> QED
  BY <1>1, <1>2, <1>3, PTL DEF SharedSpec, CallerHasMemory, Abstract!Spec

----------------------------------------------------------------------------
(***************************************************************************)
(* What is written behind a caller's buffer came from another call.        *)
(***************************************************************************)

\* What a call leaves in its buffer when it accepts an answer to some call: the
\* buffer keeps its length, or it was a longer read of registers with its code.
LEMMA AnswerReaches ==
  ASSUME NEW a \in Operations, Refusal(a) = "none", NEW b \in Operations, Refusal(b) = "none",
         NEW pdu \in AnswersOf(b), ResponseOf(a, pdu).ok,
         NEW buffer \in Seq(Word \cup {Untouched}), Len(buffer) = a.room
  PROVE  \/ Len(Copied(a, buffer, ResponseOf(a, pdu))) = a.room
         \/ /\ b.code = a.code /\ a.code \in ReadCodes \ BitCodes
            /\ Len(Copied(a, buffer, ResponseOf(a, pdu))) = b.quantity
            /\ b.quantity > a.room
<1> DEFINE response == ResponseOf(a, pdu)
<1>1. Sent(a) /\ Sent(b) /\ AnswerTo(b, pdu)
  BY UsesAreSent, AnswersAnswer
<1>2. buffer \in Seq(Word \cup {Untouched})
  OBVIOUS
<1>3. CASE a.write
  BY <1>3 DEF Copied
<1>4. CASE ~ a.write
  <2>1. a.code \in ReadCodes /\ a.quantity \in Nat /\ a.quantity <= a.room /\ a.room \in Nat
    <3>1. a.code \in ReadCodes /\ a.quantity \in Nat /\ a.quantity <= a.room
      BY <1>1, <1>4, SentFields, SentFits, Zenon
    <3>2. a.room \in Nat
      BY UsesAssumption DEF Operations, OperationType
    <3> QED
      BY <3>1, <3>2
  <2>2. b.code = a.code
    BY <1>1, AcceptedIsKindred DEF Kindred
  <2>3. ~ b.write /\ b.quantity \in Nat
    BY <1>1, <2>1, <2>2, SentFields, Zenon
  <2>4. pdu[1] = a.code
    BY <1>1, <2>1, ResponseAccepted, Zenon DEF AnswerTo
  <2>5. PICK v : IsContent(b, v) /\ pdu = ValuesBytes(b.code, [values |-> v])
    BY <1>1, <2>2, <2>3, <2>4 DEF AnswerTo
  <2>6. ResponseOf(b, pdu) = Ok([values |-> v], <<>>) /\ pdu \in Seq(Byte)
    BY <1>1, <2>3, <2>5, AnswerCarries, ZenonT(30)
  <2>7. v \in Seq(Word) /\ Len(v) = b.quantity
    BY <2>5 DEF IsContent
  <2>8. ResponseKind(a.code) = "values"
    BY <2>1, CodeNumbers DEF ResponseKind
  <2>9. /\ response = DeserializeValues(a.code, pdu, a.quantity)
        /\ ResponseOf(b, pdu) = DeserializeValues(a.code, pdu, b.quantity)
    BY <2>2, <2>8 DEF ResponseOf, Deserialize
  <2> HIDE DEF response
\* Registers: what is read does not depend on what was asked for.
  <2>10. CASE a.code \notin BitCodes
    <3>1. response = ResponseOf(b, pdu)
      <4>1. \A n : DeserializeValues(a.code, pdu, n) = DeserializeRegisters(a.code, pdu, n)
        BY <2>10, Zenon DEF DeserializeValues
      <4>2. \A n : DeserializeRegisters(a.code, pdu, n) = DeserializeRegisters(a.code, pdu, 0)
        BY Zenon DEF DeserializeRegisters
      <4> QED
        BY <2>9, <4>1, <4>2
    <3>2. response.value.values = v /\ response.ok
      BY <2>6, <3>1 DEF Ok
    <3>3. Copied(a, buffer, response) = v \o SubSeq(buffer, Len(v) + 1, Len(buffer))
      BY <1>4, <3>2 DEF Copied
    <3>4. Len(v \o SubSeq(buffer, Len(v) + 1, Len(buffer)))
            = IF Len(v) <= Len(buffer) THEN Len(buffer) ELSE Len(v)
      BY <2>7, <1>2, CopyLength, ZenonT(30)
    <3>5. Len(Copied(a, buffer, response)) = IF b.quantity <= a.room THEN a.room ELSE b.quantity
      BY <2>7, <3>3, <3>4
    <3> QED
      BY <2>1, <2>2, <2>3, <2>10, <3>5 DEF response
\* Bits: what is read is what was asked for.
  <2>11. CASE a.code \in BitCodes
    <3>1. response.ok
      BY DEF response
    <3>2. PICK n \in Nat, size \in Nat : ValuesBegin(a.code, pdu, a.quantity, n, size)
      BY <2>1, <2>6, <2>9, <3>1, ValuesTaken
    <3>3. PICK w : w = Unpack(a.code, From(pdu, 2), n)
      OBVIOUS
    <3>4. ValuesOut(a.code, pdu, a.quantity, n, size, w)
      BY <2>6, <3>2, <3>3, ValuesAccepted, Zenon
    <3>5. w \in Seq(Word) /\ response.value.values = w /\ Len(w) = n
      BY <2>9, <3>4 DEF ValuesOut, Ok
    <3>6. a.quantity = n
      BY <2>11, <3>2 DEF ValuesBegin
    <3>7. Copied(a, buffer, response) = w \o SubSeq(buffer, Len(w) + 1, Len(buffer))
      BY <1>4, <3>1, <3>5 DEF Copied
    <3>8. Len(w \o SubSeq(buffer, Len(w) + 1, Len(buffer)))
            = IF Len(w) <= Len(buffer) THEN Len(buffer) ELSE Len(w)
      BY <3>5, <1>2, CopyLength, ZenonT(30)
    <3>9. Len(Copied(a, buffer, response)) = a.room
      BY <2>1, <3>5, <3>6, <3>7, <3>8
    <3> QED
      BY <3>9 DEF response
  <2> QED
    BY <2>10, <2>11
<1> QED
  BY <1>3, <1>4

\* A call that is not over is the caller's operation, and has a buffer of the length
\* its caller gave it.
RoomInv ==
  /\ out = [t \in Callers |-> out[t]]
  /\ \A t \in Callers : pc[t] # "idle" =>
       /\ asked[call[t]] = job[t]
       /\ out[t] \in Seq(Word \cup {Untouched}) /\ Len(out[t]) = job[t].room

\* A call that accepts an answer: it has room for it, or it is another call's.
LEMMA CompleteReaches ==
  ASSUME StraysRefused, UdpInv, OperationInv, RoomInv, NEW t \in Callers, Complete(t)
  PROVE  \/ Len(out'[t]) = job[t].room
         \/ LET from == result'[call[t]].from
            IN  /\ outcome'[t] = "ok" /\ from \in (1 .. issued) \ {call[t]}
                /\ asked[from].code = job[t].code /\ job[t].code \in ReadCodes \ BitCodes
                /\ asked[from].quantity = Len(out'[t])
<1> DEFINE d == Head(sock)
           op == job[t]
           response == ResponseOf(op, d.form.content)
           status == Verdict(Received(d.form), arg[call[t]].out)
           r == [status |-> status, from |-> d.call, at |-> d.at]
<1>1. pc[t] = "recv" /\ call[t] \in 1 .. issued
  BY CompleteEnds, CompleteEffect
<1>2. op \in Operations /\ Refusal(op) = "none"
  BY <1>1 DEF OperationInv, JobsSent
<1>3. /\ out[t] \in Seq(Word \cup {Untouched}) /\ Len(out[t]) = op.room
      /\ asked[call[t]] = op
  BY <1>1 DEF RoomInv
<1>4. PICK j \in 1 .. Len(sock) : d = sock[j]
  BY DequeueElements DEF UdpInv, Complete, Recv
<1>5. status = "ok" => IsFrame(Received(d.form)) /\ Received(d.form).slave = SlaveId
  BY AcceptedFrame
<1>6. result'[call[t]].status = status /\ result'[call[t]].from = d.call
  <2>1. Return(t, r)
    BY DEF Complete, Recv
  <2>2. r.status = status /\ r.from = d.call
    OBVIOUS
  <2> HIDE DEF r
  <2>3. result'[call[t]] = r
    BY <1>1, <2>1, ReturnEffect
  <2> QED
    BY <2>2, <2>3
<1> HIDE DEF status
<1>7. CASE ~ (status = "ok" /\ response.ok)
  <2>1. out' = [out EXCEPT ![t] = Copied(op, @, response)] \/ UNCHANGED out
    BY DEF Complete
  <2>2. status # "ok" => UNCHANGED out
    BY <1>6 DEF Complete
  <2>3. out'[t] = out[t]
    <3>1. CASE status # "ok"
      BY <2>2, <3>1
    <3>2. CASE ~ response.ok
      <4>1. Copied(op, out[t], response) = out[t]
        BY <3>2 DEF Copied
      <4> HIDE DEF response, op
      <4> QED
        BY <2>1, <4>1 DEF RoomInv
    <3> QED
      BY <1>7, <3>1, <3>2
  <2> QED
    BY <1>3, <2>3
<1>8. CASE status = "ok" /\ response.ok
  <2>1. outcome \in [Callers -> Statuses \cup {"none", "pending"}]
    BY DEF OperationInv, SharedType
  <2>2. outcome'[t] = "ok" /\ out'[t] = Copied(op, out[t], response)
    <3> HIDE DEF response, op
    <3>1. /\ outcome' = [outcome EXCEPT ![t] = IF Accepts(op, response) THEN "ok" ELSE "kInvalidResponse"]
          /\ out' = [out EXCEPT ![t] = Copied(op, @, response)]
      BY <1>6, <1>8 DEF Complete, op, response
    <3> QED
      BY <1>8, <2>1, <3>1 DEF Accepts, RoomInv
  <2>3. d.call \in 1 .. issued
    <3>1. d.call \in 1 .. issued \/ d.form \in StrayForms
      BY <1>4, Origin
    <3> QED
      BY <1>5, <1>8, <3>1 DEF StraysRefused
  <2> DEFINE b == asked[d.call]
  <2>4. d.form.content \in AnswersOf(b)
    BY <1>4, <2>3 DEF OperationInv, ContentsAnswer
  <2>5. b \in Operations /\ Refusal(b) = "none"
    BY <2>3 DEF OperationInv, AskedSent
  <2> HIDE DEF b, op, d
  <2>6. \/ Len(Copied(op, out[t], response)) = op.room
        \/ /\ b.code = op.code /\ op.code \in ReadCodes \ BitCodes
           /\ Len(Copied(op, out[t], response)) = b.quantity
           /\ b.quantity > op.room
    BY <1>2, <1>3, <1>8, <2>4, <2>5, AnswerReaches DEF response
  <2>7. op.code \in ReadCodes => ~ (op.quantity > op.room)
    <3>1. op.code \in ReadCodes => op.quantity <= op.room /\ op.quantity \in Nat
      BY <1>2, UsesAreSent, SentFields, SentFits, Zenon
    <3>2. op.room \in Nat
      BY <1>2, UsesAssumption DEF Operations, OperationType
    <3> QED
      BY <3>1, <3>2
  <2>8. d.call = call[t] => b = op
    BY <1>3 DEF b
  <2> QED
    BY <1>6, <2>2, <2>3, <2>6, <2>7, <2>8 DEF b, op
<1> QED
  BY <1>7, <1>8

\* What is true of a caller after a step.
LEMMA RoomNext ==
  ASSUME StraysRefused, UdpInv, OperationInv, SuccessIsKindred, RoomInv, OverrunIsKindreds,
         [SharedNext]_sharedVars
  PROVE  RoomInv' /\ OverrunIsKindreds'
<1> DEFINE S == Word \cup {Untouched}
           Lasting(u) == pc'[u] # "idle" =>
             asked'[call'[u]] = job'[u] /\ out'[u] \in Seq(S) /\ Len(out'[u]) = job'[u].room
           Foreign(u) == job'[u] # NoJob /\ Len(out'[u]) > job'[u].room =>
             LET from == result'[call'[u]].from
             IN  /\ outcome'[u] = "ok" /\ from \in (1 .. issued') \ {call'[u]}
                 /\ asked'[from].code = job'[u].code /\ job'[u].code \in ReadCodes \ BitCodes
                 /\ asked'[from].quantity = Len(out'[u])
           Kept(u) == /\ pc'[u] # "idle" => pc[u] # "idle"
                      /\ out'[u] = out[u] /\ job'[u] = job[u] /\ call'[u] = call[u]
                      /\ outcome'[u] = outcome[u] \/ pc[u] # "idle"
                      /\ \A c \in 1 .. issued : result[c].status = "ok" => result'[c] = result[c]
           Good(u) == Lasting(u) /\ Foreign(u)
<1>1. SUFFICES out' = [u \in Callers |-> out'[u]] /\ \A u \in Callers : Good(u)
  BY DEF RoomInv, OverrunIsKindreds
<1> HIDE DEF S
<1>2. /\ job \in [Callers -> Operations \cup {NoJob}]
      /\ outcome \in [Callers -> Statuses \cup {"none", "pending"}]
      /\ out = [u \in Callers |-> out[u]]
  BY DEF OperationInv, SharedType, RoomInv
<1>3. ASSUME NEW u \in Callers, job[u] \in Operations, Len(out[u]) = job[u].room
      PROVE  ~ (Len(out[u]) > job[u].room)
  <2>1. job[u].room \in Nat
    BY <1>3, UsesAssumption DEF Operations, OperationType
  <2> QED
    BY <1>3, <2>1
<1>4. ASSUME NEW u \in Callers, Kept(u)
      PROVE  Good(u)
  <2>1. Lasting(u)
    <3>1. SUFFICES ASSUME pc[u] # "idle"
                   PROVE  asked'[call[u]] = job[u] /\ out[u] \in Seq(S) /\ Len(out[u]) = job[u].room
      BY <1>4
    <3>2. call[u] \in 1 .. issued
      BY <3>1 DEF UdpInv, CallsDistinct
    <3>3. asked'[call[u]] = asked[call[u]]
      BY <3>2, CallsKept
    <3> QED
      BY <3>1, <3>3 DEF RoomInv, S
  <2>2. Foreign(u)
    <3>1. SUFFICES ASSUME job[u] # NoJob, Len(out[u]) > job[u].room
                   PROVE  LET from == result'[call[u]].from
                          IN  /\ outcome'[u] = "ok" /\ from \in (1 .. issued') \ {call[u]}
                              /\ asked'[from].code = job[u].code /\ job[u].code \in ReadCodes \ BitCodes
                              /\ asked'[from].quantity = Len(out[u])
      BY <1>4
    <3>2. pc[u] = "idle"
      <4>1. SUFFICES ASSUME pc[u] # "idle"
                     PROVE  FALSE
        OBVIOUS
      <4>2. job[u] \in Operations /\ Len(out[u]) = job[u].room
        BY <4>1 DEF OperationInv, JobsSent, RoomInv
      <4> QED
        BY <1>3, <3>1, <4>2
    <3>3. LET from == result[call[u]].from
          IN  /\ outcome[u] = "ok" /\ from \in (1 .. issued) \ {call[u]}
              /\ asked[from].code = job[u].code /\ job[u].code \in ReadCodes \ BitCodes
              /\ asked[from].quantity = Len(out[u])
      BY <3>1 DEF OverrunIsKindreds
    <3>4. call[u] \in 1 .. issued /\ result[call[u]].status = "ok"
      BY <3>3 DEF SuccessIsKindred
    <3>5. result'[call[u]] = result[call[u]] /\ outcome'[u] = "ok"
      BY <1>4, <3>2, <3>3, <3>4
    <3> QED
      BY <3>3, <3>5, CallsKept
  <2> QED
    BY <2>1, <2>2
<1>5. ASSUME NEW t \in Callers, NEW op \in Uses[t], Begin(t, op) \/ Refuse(t, op)
      PROVE  out' = [u \in Callers |-> out'[u]] /\ \A u \in Callers : Good(u)
  <2>1. /\ out' = [u \in Callers |-> out'[u]]
        /\ out'[t] = [i \in 1 .. op.room |-> Untouched] /\ job'[t] = op
        /\ \A u \in Callers \ {t} : out'[u] = out[u] /\ job'[u] = job[u]
    BY <1>2, <1>5, EnterEffect DEF Begin, Refuse
  <2>2. op.room \in Nat
    BY UsesAssumption DEF OperationType
  <2>3. [i \in 1 .. op.room |-> Untouched] \in Seq(S) /\ Len([i \in 1 .. op.room |-> Untouched]) = op.room
    <3>1. [i \in 1 .. op.room |-> Untouched] \in [1 .. op.room -> S]
      BY DEF S
    <3> QED
      BY <2>2, <3>1, ListIsSequence
  <2>4. Foreign(t)
    BY <2>1, <2>2, <2>3
  <2>5. CASE Begin(t, op)
    <3>1. /\ asked' = [asked EXCEPT ![issued + 1] = op] /\ issued + 1 \in Calls
          /\ outcome' = [outcome EXCEPT ![t] = "none"]
          /\ \A u \in Callers \ {t} : pc'[u] = pc[u] /\ call'[u] = call[u]
          /\ UNCHANGED result
      BY <2>5, BeginEffect
    <3>2. call'[t] = issued + 1
      <4>1. SendRawRequest(t, Len(RequestPdu(op).value), kMaxPduSize)
        BY <2>5 DEF Begin
      <4>2. call \in [Callers -> 0 .. issued]
        BY DEF UdpInv, TypeOK
      <4> QED
        BY <4>1, <4>2 DEF SendRawRequest
    <3>3. asked'[call'[t]] = op
      <4>1. asked \in [Calls -> Operations \cup {NoJob}]
        BY DEF OperationInv, SharedType
      <4> QED
        BY <3>1, <3>2, <4>1
    <3>4. Lasting(t)
      BY <2>1, <2>3, <3>3
    <3>5. \A u \in Callers \ {t} : Kept(u)
      BY <1>2, <2>1, <3>1
    <3> HIDE DEF Kept, Good
    <3>6. \A u \in Callers \ {t} : Good(u)
      BY <1>4, <3>5
    <3>7. Good(t)
      BY <2>4, <3>4 DEF Good
    <3> QED
      BY <2>1, <3>6, <3>7
  <2>6. CASE Refuse(t, op)
    <3>1. /\ pc[t] = "idle" /\ UNCHANGED vars
          /\ outcome' = [outcome EXCEPT ![t] = Refusal(op)]
      BY <2>6, RefuseEffect
    <3>2. UNCHANGED <<pc, call, result>>
      BY <3>1 DEF vars, clientVars
    <3>3. Lasting(t)
      BY <3>1, <3>2
    <3>4. \A u \in Callers \ {t} : Kept(u)
      BY <1>2, <2>1, <3>1, <3>2
    <3> HIDE DEF Kept, Good
    <3>5. \A u \in Callers \ {t} : Good(u)
      BY <1>4, <3>4
    <3>6. Good(t)
      BY <2>4, <3>3 DEF Good
    <3> QED
      BY <2>1, <3>5, <3>6
  <2> QED
    BY <1>5, <2>5, <2>6
<1>6. ASSUME NEW t \in Callers, Proceed(t)
      PROVE  out' = [u \in Callers |-> out'[u]] /\ \A u \in Callers : Good(u)
  <2>1. UNCHANGED out
    BY <1>6 DEF Proceed
  <2>2. \A u \in Callers : Kept(u)
    BY <1>6, <2>1, ProceedEffect
  <2> HIDE DEF Kept, Good
  <2> QED
    BY <1>2, <1>4, <2>1, <2>2
<1>7. ASSUME NEW t \in Callers, Complete(t)
      PROVE  out' = [u \in Callers |-> out'[u]] /\ \A u \in Callers : Good(u)
  <2>1. /\ out' = [u \in Callers |-> out'[u]]
        /\ \A u \in Callers \ {t} : out'[u] = out[u]
    BY <1>2, <1>7, CompleteBuffer
  <2>2. /\ pc[t] # "idle" /\ pc'[t] = "idle" /\ UNCHANGED <<job, asked, call, issued>>
        /\ \A u \in Callers \ {t} : pc'[u] = pc[u] /\ outcome'[u] = outcome[u]
        /\ \A c \in 1 .. issued : result[c].status = "ok" => result'[c] = result[c]
    BY <1>7, CompleteEffect
  <2>3. job[t].room \in Nat
    BY <2>2, UsesAssumption DEF OperationInv, JobsSent, Operations, OperationType
  <2>4. Good(t)
    BY <1>7, <2>2, <2>3, CompleteReaches
  <2>5. \A u \in Callers \ {t} : Kept(u)
    BY <2>1, <2>2
  <2> HIDE DEF Kept, Good
  <2>6. \A u \in Callers \ {t} : Good(u)
    BY <1>4, <2>5
  <2> QED
    BY <2>1, <2>4, <2>6
<1>8. ASSUME UNCHANGED <<clientVars, operationVars>>
      PROVE  out' = [u \in Callers |-> out'[u]] /\ \A u \in Callers : Good(u)
  <2>1. UNCHANGED <<pc, call, result, job, out, outcome>>
    BY <1>8 DEF clientVars, operationVars
  <2>2. \A u \in Callers : Kept(u)
    BY <2>1
  <2> HIDE DEF Kept, Good
  <2> QED
    BY <1>2, <1>4, <2>1, <2>2
<1>9. ASSUME NEW c \in requests, Execute(c)
      PROVE  UNCHANGED <<clientVars, operationVars>>
  BY <1>9, ExecuteEffect
<1>10. ASSUME Transit
       PROVE  UNCHANGED <<clientVars, operationVars>>
  BY <1>10, TransitEffect
<1>11. ASSUME SharedFinished \/ UNCHANGED sharedVars
       PROVE  UNCHANGED <<clientVars, operationVars>>
  BY <1>11 DEF SharedFinished, Finished, sharedVars, vars
<1> HIDE DEF Good
<1> QED
  BY <1>5, <1>6, <1>7, <1>8, <1>9, <1>10, <1>11 DEF SharedNext

\* However many callers share the client, whatever they read and write and however
\* late answers come: as long as no other endpoint forges frames, nothing is written
\* behind a caller's buffer but the answer to another call, a longer read of
\* registers with the same function code.
THEOREM OverrunsAreMixUps ==
  ASSUME StraysRefused
  PROVE  SharedSpec => []OverrunIsKindreds
<1>1. SharedInit => UdpInv /\ OperationInv /\ SuccessIsKindred /\ RoomInv /\ OverrunIsKindreds
  <2>1. SharedInit => SuccessIsKindred
    BY DEF SharedInit, SuccessIsKindred
  <2>2. SharedInit => RoomInv /\ OverrunIsKindreds
    BY DEF SharedInit, Init, RoomInv, OverrunIsKindreds
  <2> QED
    BY <2>1, <2>2, UdpInvInit, OperationInvInit DEF SharedInit
<1>2. UdpInv /\ OperationInv /\ SuccessIsKindred /\ RoomInv /\ OverrunIsKindreds
        /\ [SharedNext]_sharedVars
        => UdpInv' /\ OperationInv' /\ SuccessIsKindred' /\ RoomInv' /\ OverrunIsKindreds'
  BY OperationInvNext, SuccessNext, RoomNext
<1> QED
  BY <1>1, <1>2, PTL DEF SharedSpec
=============================================================================
