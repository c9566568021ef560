--------------------------- MODULE ClientMetrics ---------------------------
(***************************************************************************)
(* The statistics of a client: ScopeMetrics of client_base.cpp, which      *)
(* counts every request of the public operations, the byte counters of     *)
(* ClientBase::SendPdu, and DumpMetric and ResetMetric of                  *)
(* client_metrics.hpp.                                                     *)
(*                                                                         *)
(* Each counter is an atomic, but nothing makes two of them change or be   *)
(* read together: every increment, read and store is a step of its own,    *)
(* interleaved with those of the other tasks.  Between its steps a request *)
(* is where ClientBase leaves it: refused, in SendRawRequest, or answered. *)
(*                                                                         *)
(* The byte counters grow by the lengths of PDUs, the others by one.       *)
(***************************************************************************)
EXTENDS Constants, FiniteSets

CONSTANTS
  Tasks,        \* coroutines that issue requests
  NumTypes,     \* kMaxMessageType
  RequestSizes, \* how long the PDU of a request may be
  ResponseSizes, \* what SendRawRequest may return as the length of a response
  MaxRequests,  \* bound: requests in a behaviour
  MaxDumps,     \* bound: dumps in a behaviour
  MaxResets,    \* bound: resets in a behaviour
  ResetsApart   \* TRUE: a reset does not overlap requests or dumps

Types == 0 .. NumTypes - 1

\* A request is a function code, an address and a value or a quantity, at least.
kMinRequestSize == 5

\* The shortest response that is accepted: a function code, a byte count and one
\* byte of values.
kMinResponseSize == 3

ASSUME MetricsAssumption ==
  /\ IsFiniteSet(Tasks)
  /\ NumTypes \in Nat
  /\ RequestSizes \subseteq kMinRequestSize .. kMaxPduSize
  /\ ResponseSizes \subseteq 0 .. kMaxPduSize
  /\ MaxRequests \in Nat /\ MaxDumps \in Nat /\ MaxResets \in Nat
  /\ ResetsApart \in BOOLEAN

Kinds == {"total", "success", "errors"}

\* The counters of ClientMetrics: two of bytes, three for all requests (scope
\* NumTypes) and three for each message type.
All == NumTypes
Sent == <<All, "sent">>
Received == <<All, "received">>
Counters == {Sent, Received} \cup ((Types \cup {All}) \X Kinds)

VARIABLES
  pc,       \* where each task is in its request
  type,     \* message type of that request
  ok,       \* is_success_ of its ScopeMetrics
  counter,  \* the counters
  opened,   \* requests begun
  reader,   \* counters the dump in progress has read, from its start
  snap,     \* what that dump, or the last one, wrote
  dumps,    \* dumps begun
  eraser,   \* counters the reset in progress has stored to
  resets    \* resets begun

taskVars == <<pc, type, ok, opened>>
dumpVars == <<reader, snap, dumps>>
resetVars == <<eraser, resets>>
vars == <<taskVars, counter, dumpVars, resetVars>>

NumCounters == 5 + 3 * NumTypes

\* "idle" outside ScopeMetrics; "opening" in its constructor and "closing" in
\* its destructor; between them not yet sent, in SendRawRequest, or answered: with
\* a response too short to be accepted, or with one that may be.
Places == {"idle", "opening", "open", "sent", "short", "answered", "closing"}

TypeOK ==
  /\ pc \in [Tasks -> Places]
  /\ type \in [Tasks -> Types]
  /\ ok \in [Tasks -> BOOLEAN]
  /\ opened \in 0 .. MaxRequests
  /\ counter \in [Counters -> Nat]
  /\ reader \in 0 .. NumCounters - 1
  /\ snap \in [Counters -> Nat]
  /\ dumps \in 0 .. MaxDumps
  /\ eraser \in 0 .. NumCounters - 1
  /\ resets \in 0 .. MaxResets

Init ==
  /\ pc = [t \in Tasks |-> "idle"]
  /\ type \in [Tasks -> Types]
  /\ ok = [t \in Tasks |-> FALSE]
  /\ opened = 0
  /\ counter = [c \in Counters |-> 0]
  /\ reader = 0
  /\ snap = [c \in Counters |-> 0]
  /\ dumps = 0
  /\ eraser = 0
  /\ resets = 0

Dumping == reader > 0
Resetting == eraser > 0
At(places) == {t \in Tasks : pc[t] \in places}
AtOf(places, y) == {t \in At(places) : type[t] = y}

----------------------------------------------------------------------------
(***************************************************************************)
(* A request.                                                              *)
(***************************************************************************)

Add(c, n) == counter' = [counter EXCEPT ![c] = @ + n]

Increment(c) == Add(c, 1)

Move(t, from, to) ==
  /\ pc[t] = from
  /\ pc' = [pc EXCEPT ![t] = to]

\* ScopeMetrics::ScopeMetrics, first increment.
Open(t, y) ==
  /\ opened < MaxRequests
  /\ ResetsApart => ~ Resetting
  /\ Move(t, "idle", "opening")
  /\ opened' = opened + 1
  /\ type' = [type EXCEPT ![t] = y]
  /\ ok' = [ok EXCEPT ![t] = FALSE]
  /\ Increment(<<All, "total">>)
  /\ UNCHANGED <<dumpVars, resetVars>>

\* Its second increment.
OpenType(t) ==
  /\ Move(t, "opening", "open")
  /\ Increment(<<type[t], "total">>)
  /\ UNCHANGED <<type, ok, opened, dumpVars, resetVars>>

\* Variant: counts what is left of the buffer, not what was written to it.
SentRest(t) ==
  /\ Move(t, "open", "sent")
  /\ \E n \in RequestSizes : Add(Sent, kMaxPduSize - n)
  /\ UNCHANGED <<type, ok, opened, dumpVars, resetVars>>

\* SendPdu serialized the request: bytes_sent grows before the transport runs.
CountSent(t) ==
  /\ Move(t, "open", "sent")
  /\ \E n \in RequestSizes : Add(Sent, n)
  /\ UNCHANGED <<type, ok, opened, dumpVars, resetVars>>

\* SendRawRequest returned a size.
CountReceived(t) ==
  /\ \E n \in ResponseSizes :
       /\ Move(t, "sent", IF n < kMinResponseSize THEN "short" ELSE "answered")
       /\ Add(Received, n)
  /\ UNCHANGED <<type, ok, opened, dumpVars, resetVars>>

\* The answer was accepted: MarkSuccess, then the destructor's first increment.
CloseSuccess(t) ==
  /\ Move(t, "answered", "closing")
  /\ ok' = [ok EXCEPT ![t] = TRUE]
  /\ Increment(<<All, "success">>)
  /\ UNCHANGED <<type, opened, dumpVars, resetVars>>

\* Variant: a request refused before SendPdu is not counted as an error.
CloseErrorIfSent(t) ==
  /\ \E from \in {"open", "sent", "short", "answered"} :
       /\ Move(t, from, "closing")
       /\ IF from = "open" THEN UNCHANGED counter ELSE Increment(<<All, "errors">>)
  /\ UNCHANGED <<type, ok, opened, dumpVars, resetVars>>

\* An early return of Execute*, or an exception that leaves SendRawRequest: the
\* destructor finds is_success_ unset.
CloseError(t) ==
  /\ \E from \in {"open", "sent", "short", "answered"} : Move(t, from, "closing")
  /\ Increment(<<All, "errors">>)
  /\ UNCHANGED <<type, ok, opened, dumpVars, resetVars>>

\* The destructor's second increment.
CloseType(t) ==
  /\ Move(t, "closing", "idle")
  /\ Increment(<<type[t], IF ok[t] THEN "success" ELSE "errors">>)
  /\ UNCHANGED <<type, ok, opened, dumpVars, resetVars>>

Request(t) ==
  \/ \E y \in Types : Open(t, y)
  \/ OpenType(t)
  \/ CountSent(t)
  \/ CountReceived(t)
  \/ CloseSuccess(t)
  \/ CloseError(t)
  \/ CloseType(t)

----------------------------------------------------------------------------
(***************************************************************************)
(* Dumps and resets walk over the counters in the order of declaration.    *)
(***************************************************************************)

\* Variant: outcomes first, then the total.
TotalLastTriple(s, i) == <<s, <<"success", "errors", "total">>[i + 1]>>

Triple(s, i) == <<s, <<"total", "success", "errors">>[i + 1]>>

\* The i-th counter, from 1: bytes, all requests, then type by type.
CounterAt(i) ==
  IF i <= 2 THEN <<Sent, Received>>[i]
  ELSE IF i <= 5 THEN Triple(All, i - 3)
  ELSE Triple((i - 6) \div 3, i % 3)

\* Variant: the loop over by_message_type runs up to kMaxMessageType.
EndPastTypes(i) == IF i = NumCounters + 3 THEN 0 ELSE i

EndOfWalk(i) == IF i = NumCounters THEN 0 ELSE i

\* One assignment of DumpMetric: read a counter, write it out.
DumpStep ==
  /\ ~ Dumping => dumps < MaxDumps /\ (ResetsApart => ~ Resetting)
  /\ dumps' = IF Dumping THEN dumps ELSE dumps + 1
  /\ snap' = [snap EXCEPT ![CounterAt(reader + 1)] = counter[CounterAt(reader + 1)]]
  /\ reader' = EndOfWalk(reader + 1)
  /\ UNCHANGED <<taskVars, counter, resetVars>>

\* Variant: the per-type counters are left out of the reset.
ResetStepOfAll ==
  /\ ~ Resetting =>
       /\ resets < MaxResets
       /\ ResetsApart => ~ Dumping /\ At(Places \ {"idle"}) = {}
  /\ resets' = IF Resetting THEN resets ELSE resets + 1
  /\ counter' = [counter EXCEPT ![CounterAt(eraser + 1)] = 0]
  /\ eraser' = IF eraser + 1 = 5 THEN 0 ELSE eraser + 1
  /\ UNCHANGED <<taskVars, dumpVars>>

\* One ResetMetric of a counter.
ResetStep ==
  /\ ~ Resetting =>
       /\ resets < MaxResets
       /\ ResetsApart => ~ Dumping /\ At(Places \ {"idle"}) = {}
  /\ resets' = IF Resetting THEN resets ELSE resets + 1
  /\ counter' = [counter EXCEPT ![CounterAt(eraser + 1)] = 0]
  /\ eraser' = EndOfWalk(eraser + 1)
  /\ UNCHANGED <<taskVars, dumpVars>>

Done ==
  /\ opened = MaxRequests /\ dumps = MaxDumps /\ resets = MaxResets
  /\ ~ Dumping /\ ~ Resetting /\ At({"idle"}) = Tasks
  /\ UNCHANGED vars

Next ==
  \/ \E t \in Tasks : Request(t)
  \/ DumpStep
  \/ ResetStep
  \/ Done

Spec == Init /\ [][Next]_vars

----------------------------------------------------------------------------
(***************************************************************************)
(* Properties.                                                             *)
(***************************************************************************)

\* Every request begun is counted exactly once as a success or an error, or is
\* inside its scope: for all requests together ...
AllConserved ==
  counter[<<All, "total">>] =
    counter[<<All, "success">>] + counter[<<All, "errors">>]
      + Cardinality(At({"opening", "open", "sent", "short", "answered"}))

\* ... and for each message type.
TypesConserved ==
  \A y \in Types :
    counter[<<y, "total">>] =
      counter[<<y, "success">>] + counter[<<y, "errors">>]
        + Cardinality(AtOf({"open", "sent", "short", "answered", "closing"}, y))

\* The counters balance whenever no reset is running, before and after it.
Conserved == ResetsApart /\ ~ Resetting => AllConserved /\ TypesConserved

\* The bytes counted agree with the requests counted: every success has brought
\* at least the bytes of the shortest request and of the shortest response, and
\* nothing was sent that was not begun, nor received that was not sent.
BytesMatchRequests ==
  ResetsApart /\ ~ Resetting =>
    /\ kMinRequestSize * counter[<<All, "success">>] <= counter[Sent]
    /\ kMinResponseSize * counter[<<All, "success">>] <= counter[Received]
    /\ counter[Sent] <= kMaxPduSize * counter[<<All, "total">>]
    /\ kMinRequestSize * counter[Received] <= kMaxPduSize * counter[Sent]

\* Although a dump is not atomic, the requests it shows as neither succeeded nor
\* failed are at most those that can be in flight: it reads totals first.
Backlog(s) == snap[<<s, "success">>] + snap[<<s, "errors">>] + Cardinality(Tasks)

BacklogBounded ==
  ResetsApart /\ ~ Dumping =>
    \A s \in Types \cup {All} : snap[<<s, "total">>] <= Backlog(s)

\* What all message types have counted together.
SumOver(c, kind) ==
  LET sum[n \in 0 .. NumTypes] ==
        IF n = 0 THEN 0 ELSE sum[n - 1] + c[<<n - 1, kind>>]
  IN  sum[NumTypes]

Closing(b) == {t \in At({"closing"}) : ok[t] = b}

AddUp ==
  /\ SumOver(counter, "total") + Cardinality(At({"opening"})) = counter[<<All, "total">>]
  /\ SumOver(counter, "success") + Cardinality(Closing(TRUE)) = counter[<<All, "success">>]
  /\ SumOver(counter, "errors") + Cardinality(Closing(FALSE)) = counter[<<All, "errors">>]

\* The counters of the message types add up to those of all requests, but for
\* requests between the two increments of a constructor or a destructor.
TypesAddUp == ResetsApart /\ ~ Resetting => AddUp

(***************************************************************************)
(* What keeps the properties true between the steps that could break them: *)
(* the parts of the inductive invariants of ClientMetricsProofs.           *)
(***************************************************************************)

\* A reset that does not overlap requests finds every task idle, and what it has
\* walked over stays zero.
ResetAlone ==
  ResetsApart /\ Resetting =>
    /\ \A t \in Tasks : pc[t] = "idle"
    /\ \A i \in 1 .. eraser : counter[CounterAt(i)] = 0

\* Each counter on the way of a request is ahead of the next one by what the
\* requests between the two can still add to it.
InOrder ==
  /\ kMinRequestSize
       * (counter[<<All, "success">>] + Cardinality(At({"sent", "answered"}))) <= counter[Sent]
  /\ kMinResponseSize
       * (counter[<<All, "success">>] + Cardinality(At({"answered"}))) <= counter[Received]
  /\ counter[Sent] + kMaxPduSize * Cardinality(At({"opening", "open"}))
       <= kMaxPduSize * counter[<<All, "total">>]
  /\ kMinRequestSize * (counter[Received] + kMaxPduSize * Cardinality(At({"sent"})))
       <= kMaxPduSize * counter[Sent]

\* A request is marked a success in the step in which it ends, and by no other.
MarkedAtEnd == \A t \in Tasks : pc[t] \in {"opening", "open", "sent", "short", "answered"} => ~ ok[t]
=============================================================================
