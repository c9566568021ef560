----------------------------- MODULE ClientBase -----------------------------
(***************************************************************************)
(* The operations of ClientBase (client_base.cpp): ReadCoils to            *)
(* WriteHoldingRegisters, which are ExecuteRead, ExecuteWriteSingle and    *)
(* ExecuteWriteMultiple over SendPdu and the virtual SendRawRequest.       *)
(*                                                                         *)
(* One caller.  SendRawRequest keeps the promise of RequestReply to a      *)
(* caller that leaves quiet gaps: it fails, or returns what the slave      *)
(* answered to this call.  Requests and replies may be lost or duplicated, *)
(* so that a request may be served after its call has failed, or twice.    *)
(* What the slave does is in module Slave.                                 *)
(*                                                                         *)
(* The counters a call changes on its way are those of ClientMetrics.      *)
(***************************************************************************)
EXTENDS Slave

CONSTANTS
  Operations,    \* calls with their arguments
  Values,        \* contents its inputs may change to
  InitialMemory, \* contents of its tables in the beginning
  Forgeries,     \* responses it may send although they are not the answer
  MaxCalls,      \* bound: calls in a behaviour
  MaxChanges,    \* bound: changes of inputs
  MaxDups        \* bound: datagrams the network duplicates

\* Tables the slave itself changes.
Inputs == {"discrete inputs", "input registers"}

ASSUME OperationsAssumption == \A op \in Operations : OperationType(op)
ASSUME MemoryAssumption ==
  /\ Addresses \subseteq Word /\ Values \subseteq Word
  /\ MemoryType(InitialMemory)
  /\ Forgeries \subseteq Seq(Byte)
  /\ MaxCalls \in Nat /\ MaxChanges \in Nat /\ MaxDups \in Nat

VARIABLES
  job,       \* the current or last call
  waiting,   \* whether it is in SendRawRequest
  out,       \* the caller's buffer, and what was written behind it
  outcome,   \* how the last call ended
  requests,  \* request PDUs in transit
  replies,   \* response PDUs in transit
  memory,    \* the slave's tables
  calls,     \* calls made
  changes,   \* changes of inputs
  dups       \* datagrams duplicated

callVars == <<job, waiting, out, outcome, calls>>
netVars == <<requests, replies, dups>>
slaveVars == <<memory, changes>>
vars == <<callVars, netVars, slaveVars>>

TypeOK ==
  /\ job \in Operations \cup {NoJob}
  /\ waiting \in BOOLEAN
  /\ out \in Seq(Word \cup {Untouched})
  /\ job # NoJob => Len(out) >= job.room
  /\ outcome \in ClientErrors \cup {"ok", "none", "crashed"}
  /\ requests \subseteq Seq(Byte) /\ replies \subseteq Seq(Byte)
  /\ MemoryType(memory)
  /\ calls \in 0 .. MaxCalls /\ changes \in 0 .. MaxChanges /\ dups \in 0 .. MaxDups

Init ==
  /\ job = NoJob
  /\ waiting = FALSE
  /\ out = <<>>
  /\ outcome = "none"
  /\ requests = {}
  /\ replies = {}
  /\ memory = InitialMemory
  /\ calls = 0 /\ changes = 0 /\ dups = 0

----------------------------------------------------------------------------
(***************************************************************************)
(* The caller.                                                             *)
(***************************************************************************)

\* A call from its begin to SendRawRequest, or to its early return.  The caller
\* has waited until nothing of its last call is in transit.
Execute(op) ==
  /\ ~ waiting /\ requests = {} /\ replies = {}
  /\ outcome # "crashed"
  /\ calls < MaxCalls
  /\ calls' = calls + 1
  /\ job' = op
  /\ out' = [i \in 1 .. op.room |-> Untouched]
  /\ outcome' = Refusal(op)
  /\ IF Refusal(op) = "none"
       THEN waiting' = TRUE /\ requests' = {RequestPdu(op).value}
       ELSE UNCHANGED <<waiting, requests>>
  /\ UNCHANGED <<replies, dups, slaveVars>>

Duplicate == dups < MaxDups /\ dups' = dups + 1

\* How a call with a response ends.  To write behind the caller's buffer is
\* undefined: the program goes on, or it is gone.
Outcomes(op, response) ==
  IF ~ Accepts(op, response) THEN {"kInvalidResponse"}
  ELSE IF Overruns(op, response) THEN {"ok", "crashed"}
  ELSE {"ok"}

\* SendRawRequest returned a response: the rest of Execute*.
Answer(pdu) ==
  LET response == ResponseOf(job, pdu)
  IN  /\ waiting
      /\ pdu \in replies
      /\ waiting' = FALSE
      /\ outcome' \in Outcomes(job, response)
      /\ out' = Copied(job, out, response)
      /\ \/ replies' = replies \ {pdu} /\ UNCHANGED dups
         \/ Duplicate /\ UNCHANGED replies
      /\ UNCHANGED <<job, calls, requests, slaveVars>>

\* SendRawRequest returned an error or threw, at any time.
SendFails(error) ==
  /\ waiting
  /\ waiting' = FALSE
  /\ outcome' = error
  /\ UNCHANGED <<job, out, calls, netVars, slaveVars>>

----------------------------------------------------------------------------
(***************************************************************************)
(* The slave and the network (external).                                   *)
(***************************************************************************)

Serve(pdu) ==
  LET done == Executed(memory, pdu[1], Understood(pdu).value)
  IN  /\ pdu \in requests
      /\ replies' = replies \cup {done.reply}
      /\ memory' = done.tables
      /\ \/ requests' = requests \ {pdu} /\ UNCHANGED dups
         \/ Duplicate /\ UNCHANGED requests
      /\ UNCHANGED <<callVars, changes>>

\* The slave answers something else and does nothing.
Forge(pdu, forgery) ==
  /\ pdu \in requests
  /\ requests' = requests \ {pdu}
  /\ replies' = replies \cup {forgery}
  /\ UNCHANGED <<callVars, dups, slaveVars>>

LoseRequest(pdu) ==
  /\ pdu \in requests
  /\ requests' = requests \ {pdu}
  /\ UNCHANGED <<callVars, replies, dups, slaveVars>>

LoseReply(pdu) ==
  /\ pdu \in replies
  /\ replies' = replies \ {pdu}
  /\ UNCHANGED <<callVars, requests, dups, slaveVars>>

Change(t, a, v) ==
  /\ changes < MaxChanges
  /\ t \in BitTables => v \in Coil
  /\ changes' = changes + 1
  /\ memory' = [memory EXCEPT ![t][a] = v]
  /\ UNCHANGED <<callVars, netVars>>

Finished ==
  /\ calls = MaxCalls \/ outcome = "crashed"
  /\ ~ waiting /\ requests = {} /\ replies = {}
  /\ UNCHANGED vars

Next ==
  \/ \E op \in Operations : Execute(op)
  \/ \E pdu \in replies : Answer(pdu)
  \/ \E error \in ClientErrors : SendFails(error)
  \/ \E pdu \in requests : Serve(pdu)
  \/ \E pdu \in requests, forgery \in Forgeries : Forge(pdu, forgery)
  \/ \E pdu \in requests : LoseRequest(pdu)
  \/ \E pdu \in replies : LoseReply(pdu)
  \/ \E t \in Inputs, a \in Addresses, v \in Values : Change(t, a, v)
  \/ Finished

Spec == Init /\ [][Next]_vars

----------------------------------------------------------------------------
(***************************************************************************)
(* Properties.                                                             *)
(***************************************************************************)

\* What SendRawRequest is given is a PDU of legal size that the slave's class of
\* the same function code reads to its last byte as the arguments of the call.
RequestUnderstood ==
  \A pdu \in requests :
    LET r == Understood(pdu)
    IN  /\ Len(pdu) <= kMaxPduSize
        /\ r.ok /\ r.rest = <<>>
        /\ Covered(pdu[1], r.value) = job.address .. job.address + job.quantity - 1
        /\ job.code \in WriteSingleCodes => <<r.value.value>> = job.values
        /\ job.code \in WriteMultipleCodes => r.value.values = job.values

\* Whatever the slave answers, a call that fails has written nothing to the
\* caller's buffer.
FailureLeavesBuffer ==
  outcome \notin {"ok", "crashed"} => \A i \in DOMAIN out : out[i] = Untouched

\* Whatever the slave answers, writes and reads of bits stay within the caller's
\* buffer, and a read of registers writes at most what one response can bring:
\* only there the count comes from the response and is not compared with anything.
OnlyRegistersOverrun ==
  job # NoJob /\ Len(out) > job.room =>
    job.code \in ReadCodes \ BitCodes /\ Len(out) <= kMaxQuantity[job.code]

\* A slave that answers what it was asked never makes a call write behind the
\* caller's buffer: the room is compared with the quantity asked for.
BufferKept ==
  outcome # "crashed" /\ (job # NoJob => Len(out) = job.room)

\* A write that succeeded is in the slave's memory until the next call, although
\* requests may be served late or twice; an exception response is no success.
WriteHolds ==
  outcome = "ok" /\ job.write =>
    \A i \in DOMAIN job.values :
      /\ job.address + i - 1 \in Addresses
      /\ memory[job.table][job.address + i - 1] = job.values[i]

\* The caller cannot tell the operations from those of a memory: what the bytes
\* in transit mean is what RemoteMemory asks and finds.
Abstract ==
  INSTANCE RemoteMemory WITH
    Changing <- Inputs,
    Values <- Word,
    asked <- requests # {},
    found <- Found(job, replies),
    outcome <- IF outcome \in ClientErrors THEN "error" ELSE outcome

MemoryKept == Abstract!Spec
=============================================================================
