---------------------------- MODULE SharedClient ----------------------------
(***************************************************************************)
(* The whole client: the operations of ClientBase (Execution) on top of    *)
(* UdpClient, shared by several callers, over its network to one slave.    *)
(* Every step is a step of UdpClient together with what the operation      *)
(* around it does: a call turns its arguments into the request it gives to *)
(* SendRawRequest, and what comes back into its outcome and its buffer.    *)
(*                                                                         *)
(* The code of an operation waits nowhere but in SendRawRequest, so that   *)
(* it runs in the same step as the return.  That the slave reads in a      *)
(* request the arguments of the call is checked in ClientBase              *)
(* (RequestUnderstood); here it is given them.                             *)
(***************************************************************************)
EXTENDS UdpClient, Slave

CONSTANTS
  Uses,          \* operations each caller may call, with their arguments
  Watched,       \* the caller whose view CallerHasMemory takes
  Values,        \* contents of the slave's tables
  InitialMemory  \* and the contents in the beginning

\* The datagram that carries a PDU of the slave.
ReplyForm(pdu) ==
  [slave |-> SlaveId, crc |-> TRUE, size |-> Len(pdu) + kMinFrameSize, content |-> pdu]

\* All a slave may answer to a call.
AnswersOf(op) ==
  {IllegalDataAddress(op.code)} \cup
  CASE op.code \in ReadCodes ->
         {ValuesBytes(op.code, [values |-> v]) : v \in [1 .. op.quantity -> Values[op.table]]}
    [] op.code \in WriteSingleCodes ->
         {SingleBytes(op.code, [address |-> op.address, value |-> op.values[1]])}
    [] op.code \in WriteMultipleCodes ->
         {RangeBytes(op.code, [address |-> op.address, quantity |-> op.quantity])}

ASSUME UsesAssumption ==
  \A t \in Callers : \A op \in Uses[t] : OperationType(op)
ASSUME TablesAssumption ==
  /\ Addresses \subseteq Word
  /\ Values \in [Tables -> SUBSET Word]
  /\ \A t \in BitTables : Values[t] \subseteq Coil
  /\ InitialMemory \in [Tables -> [Addresses -> Word]]
  /\ \A t \in Tables : InitialMemory[t] \in [Addresses -> Values[t]]
\* What the callers send and the slave answers is among what UdpClient carries.
ASSUME CarriedAssumption ==
  /\ kMaxPduSize \in OutSizes
  /\ \A t \in Callers : \A op \in Uses[t] : Refusal(op) = "none" =>
       /\ Len(RequestPdu(op).value) \in RequestSizes
       /\ \A i \in DOMAIN op.values : op.values[i] \in Values[op.table]
       /\ \A pdu \in AnswersOf(op) : ReplyForm(pdu) \in ReplyForms
VARIABLES
  job,      \* the current or last operation of each caller
  out,      \* its buffer, and what was written behind it
  outcome,  \* how it ended, "none" until then
  asked,    \* the operation whose request each call of SendRawRequest sends
  memory    \* the slave's tables

operationVars == <<job, out, outcome, asked>>
sharedVars == <<vars, operationVars, memory>>

SharedInit ==
  /\ Init
  /\ job = [t \in Callers |-> NoJob]
  /\ out = [t \in Callers |-> <<>>]
  /\ outcome = [t \in Callers |-> "none"]
  /\ asked = [c \in Calls |-> NoJob]
  /\ memory = InitialMemory

----------------------------------------------------------------------------
(***************************************************************************)
(* The callers.                                                            *)
(***************************************************************************)

\* A caller hands its arguments and its buffer over.
Enter(t, op) ==
  /\ job' = [job EXCEPT ![t] = op]
  /\ out' = [out EXCEPT ![t] = [i \in 1 .. op.room |-> Untouched]]

\* Execute* up to SendRawRequest.
Begin(t, op) ==
  /\ SendRawRequest(t, Len(RequestPdu(op).value), kMaxPduSize)
  /\ Refusal(op) = "none"
  /\ Enter(t, op)
  /\ outcome' = [outcome EXCEPT ![t] = "none"]
  /\ asked' = [asked EXCEPT ![issued + 1] = op]
  /\ UNCHANGED memory

\* Execute* returns before SendRawRequest; MaxCalls bounds these calls as well.
Refuse(t, op) ==
  /\ pc[t] = "idle"
  /\ issued < MaxCalls
  /\ Quiet => InTransit \cap Ended = {}
  /\ Refusal(op) # "none"
  /\ Enter(t, op)
  /\ outcome' = [outcome EXCEPT ![t] = Refusal(op)]
  /\ UNCHANGED <<vars, asked, memory>>

\* A round of the drain, the send, or a failure that Execute* hands on.
Proceed(t) ==
  /\ DrainDatagram(t) \/ DrainDone(t) \/ DrainFault(t) \/ Send(t) \/ IoFails(t)
  /\ outcome' = IF pc'[t] = "idle"
                  THEN [outcome EXCEPT ![t] = result'[call[t]].status]
                  ELSE outcome
  /\ UNCHANGED <<job, out, asked, memory>>

\* SendRawRequest received a datagram: it returns, and the rest of Execute* runs.  A
\* longer answer than the buffer holds is written behind it; the program may also be
\* gone then, which is a behaviour that ends here.
Complete(t) ==
  /\ Recv(t)
  /\ LET status == result'[call[t]].status
         response == ResponseOf(job[t], Head(sock).form.content)
     IN  IF status = "ok"
           THEN /\ outcome' = [outcome EXCEPT ![t] =
                     IF Accepts(job[t], response) THEN "ok" ELSE "kInvalidResponse"]
                /\ out' = [out EXCEPT ![t] = Copied(job[t], @, response)]
           ELSE outcome' = [outcome EXCEPT ![t] = status] /\ UNCHANGED out
  /\ UNCHANGED <<job, asked, memory>>

----------------------------------------------------------------------------
(***************************************************************************)
(* The slave and the network (external).                                   *)
(***************************************************************************)

\* The slave does what a request asks for and answers it.
Execute(c) ==
  LET op == asked[c]
      done == Executed(memory, op.code, Created(op).value)
  IN  /\ Serve(c, ReplyForm(done.reply))
      /\ memory' = done.tables
      /\ UNCHANGED operationVars

Transit ==
  /\ \/ \E d \in replies : Deliver(d) \/ LoseReply(d)
     \/ \E c \in requests : LoseRequest(c)
     \/ \E f \in StrayForms : Stray(f)
  /\ UNCHANGED <<operationVars, memory>>

SharedFinished == Finished /\ UNCHANGED <<operationVars, memory>>

SharedNext ==
  \/ \E t \in Callers : \E op \in Uses[t] : Begin(t, op) \/ Refuse(t, op)
  \/ \E t \in Callers : Proceed(t) \/ Complete(t)
  \/ \E c \in requests : Execute(c)
  \/ Transit
  \/ SharedFinished

SharedSpec == SharedInit /\ [][SharedNext]_sharedVars

----------------------------------------------------------------------------
(***************************************************************************)
(* Properties.                                                             *)
(***************************************************************************)

\* Calls whose answers the client cannot tell apart: they have the same function
\* code and, when they read bits, answers of the same length.
Kindred(a, b) ==
  /\ a.code = b.code
  /\ a.code \in ReadCodes \cap BitCodes =>
       BitsToBytes(a.quantity) = BitsToBytes(b.quantity)

\* A call on a shared client that succeeds was answered by what the slave sent to
\* it or to a kindred call, one that had not ended when it began.
OnlyKindred ==
  Quiet => \A t \in Callers : outcome[t] = "ok" =>
    LET from == result[call[t]].from
    IN  /\ from \in (1 .. issued) \ before[call[t]]
        /\ Kindred(job[t], asked[from])

\* What a call writes behind its caller's buffer came as the answer to another call,
\* a longer read of registers with the same function code: bits and answers of its
\* own stay within the buffer.
OverrunIsKindreds ==
  \A t \in Callers : job[t] # NoJob /\ Len(out[t]) > job[t].room =>
    LET from == result[call[t]].from
    IN  /\ outcome[t] = "ok" /\ from \in (1 .. issued) \ {call[t]}
        /\ asked[from].code = job[t].code /\ job[t].code \in ReadCodes \ BitCodes
        /\ asked[from].quantity = Len(out[t])

\* Response PDUs that answer the watched caller's current or last call and are
\* not lost to it.
Answers ==
  {d.form.content : d \in {e \in replies : e.call = call[Watched]}} \cup
  {sock[i].form.content :
     i \in {j \in DOMAIN sock : pc[Watched] # "idle" /\ sock[j].call = call[Watched]}}

Abstract ==
  INSTANCE RemoteMemory WITH
    Operations <- Uses[Watched],
    Changing <- Tables,
    Values <- Word,
    job <- job[Watched],
    waiting <- pc[Watched] # "idle",
    asked <- call[Watched] \in requests \/ pc[Watched] \in {"drain", "send"},
    found <- Found(job[Watched], Answers),
    out <- out[Watched],
    outcome <- IF outcome[Watched] \in ClientErrors THEN "error" ELSE outcome[Watched]

\* A caller that shares no kindred calls with another and waits for quiet cannot
\* tell the shared client and its slave from a memory that others change as well:
\* a read gives the contents of one moment during the call, all it asked for, and
\* a write that succeeds took effect during it.
CallerHasMemory == Abstract!Spec

(***************************************************************************)
(* What keeps OnlyKindred and CallerHasMemory true between the steps that  *)
(* could break them: the parts of the inductive invariants of              *)
(* SharedClientProofs.                                                     *)
(***************************************************************************)

Operations == UNION {Uses[t] : t \in Callers}

SharedType ==
  /\ job \in [Callers -> Operations \cup {NoJob}]
  /\ outcome \in [Callers -> Statuses \cup {"none", "pending"}]
  /\ asked \in [Calls -> Operations \cup {NoJob}]
  /\ memory \in [Tables -> [Addresses -> Word]]
  /\ \A t \in Tables : memory[t] \in [Addresses -> Values[t]]

\* Only operations that were not refused reach SendRawRequest.
JobsSent ==
  \A t \in Callers : pc[t] # "idle" =>
    job[t] \in Operations /\ Refusal(job[t]) = "none" /\ outcome[t] = "none"

AskedSent ==
  \A c \in 1 .. issued : asked[c] \in Operations /\ Refusal(asked[c]) = "none"

\* A datagram of the slave carries an answer to the call it belongs to.
ContentsAnswer ==
  /\ \A d \in replies : d.form.content \in AnswersOf(asked[d.call])
  /\ \A i \in 1 .. Len(sock) : sock[i].call # 0 =>
       sock[i].form.content \in AnswersOf(asked[sock[i].call])

SuccessIsKindred ==
  \A t \in Callers : outcome[t] = "ok" =>
    /\ call[t] \in 1 .. issued /\ result[call[t]].status = "ok"
    /\ result[call[t]].from \in 1 .. issued
    /\ Kindred(job[t], asked[result[call[t]].from])

\* No other caller makes calls that are kindred to the watched caller's.
KindredToNone ==
  \A t \in Callers \ {Watched} : \A a \in Uses[Watched], b \in Uses[t] : ~ Kindred(a, b)

\* The watched caller's current call, and its last one as long as something of it
\* is in transit, is the operation it is at.
WatchedAsked ==
  /\ pc[Watched] # "idle" => job[Watched] \in Uses[Watched]
  /\ pc[Watched] # "idle" \/ call[Watched] \in InTransit => asked[call[Watched]] = job[Watched]

\* Its calls are over but for the current one, and they were over when that began;
\* so are all the calls whose answers it could take for its own.
WatchedAlone ==
  /\ pc[Watched] = "idle" /\ call[Watched] # 0 => call[Watched] \in Ended
  /\ \A c \in 1 .. issued : (\E a \in Uses[Watched] : Kindred(a, asked[c])) =>
       \/ c = call[Watched]
       \/ c \in Ended /\ (pc[Watched] # "idle" => c \in before[call[Watched]])

WatchedBuffer ==
  /\ out = [t \in Callers |-> out[t]]
  /\ out[Watched] \in Seq(Word \cup {Untouched})
=============================================================================
