----------------------------- MODULE UdpClient -----------------------------
(***************************************************************************)
(* The UDP transport of the Modbus client: UdpClient::SendRawRequest and   *)
(* UdpClient::DrainSocket over one unconnected datagram socket that every  *)
(* caller of the same Client object shares.                                *)
(*                                                                         *)
(* A call drains the socket, frames and sends one request, receives ONE    *)
(* datagram under the same deadline and judges it; nothing in the frame    *)
(* names the request it answers.  The kernel receive queue, the network    *)
(* and the slave are outside the repository: they are modelled from how    *)
(* udp_client.cpp and the UdpServer of udp_client_test.cpp use them.       *)
(*                                                                         *)
(* A PDU is reduced to its size and a datagram to what RtuFrame and the    *)
(* slave check look at; the id of the call a datagram answers is a ghost   *)
(* that no guard of the client reads.                                      *)
(***************************************************************************)
EXTENDS Naturals, Sequences, FiniteSets, Constants

CONSTANTS
  Callers,       \* coroutines that share the client (ClientComponent::GetClient)
  MaxCalls,      \* bound: calls to SendRawRequest in a behaviour
  SlaveId,       \* slave_id_ of the client
  RequestSizes,  \* sizes of request_pdu
  OutSizes,      \* sizes of response_pdu_out
  Contents,      \* PDUs of datagrams, which the transport does not look into
  ReplyForms,    \* what a slave may put in a datagram
  StrayForms,    \* what another endpoint may send to the socket
  MaxDups,       \* bound: datagrams the network duplicates
  MaxStrays,     \* bound: datagrams from other endpoints
  Quiet          \* TRUE: a caller starts a call only when nothing of an ended
                 \* call is still in transit

kMinFrameSize == 3
kMaxFrameSize == 256

Calls == 1 .. MaxCalls

\* What the client can tell about a datagram: RtuFrame's slave id, whether the
\* CRC matches the bytes before it, and the number of bytes; and what it hands on.
Forms == [slave : Nat, crc : BOOLEAN, size : Nat, content : Contents]

ASSUME BoundsAssumption ==
  /\ MaxCalls \in Nat
  /\ MaxDups \in Nat
  /\ MaxStrays \in Nat
  /\ Quiet \in BOOLEAN
ASSUME DataAssumption ==
  /\ SlaveId \in Nat
  /\ RequestSizes \subseteq Nat
  /\ OutSizes \subseteq Nat
  /\ ReplyForms \subseteq Forms
  /\ StrayForms \subseteq Forms

\* The ClientError values SendRawRequest can end with, "ok", and an exception
\* that leaves the function.
Statuses == {"ok", "kBufferTooSmall", "kInvalidRequest", "kInvalidResponse",
             "kTransportError", "kTimeout", "exception"}

Pending == [status |-> "pending", from |-> 0, at |-> 0]

Results == [status : Statuses \cup {"pending"}, from : Nat, at : Nat]

\* A datagram in transit, and one in the receive queue with its arrival number.
Reply(c, f) == [call |-> c, form |-> f]

Replies == [call : Calls, form : Forms]
Arrived == [call : Calls \cup {0}, form : Forms, at : Nat]

VARIABLES
  pc,        \* where each caller is in SendRawRequest
  call,      \* the id of each caller's current (or last) call, 0 before the first
  arg,       \* sizes of the two spans of each call
  sock,      \* receive queue of socket_, oldest datagram first
  requests,  \* calls whose request datagram is in transit or with the slave
  replies,   \* reply datagrams in transit
  dups,      \* duplications used
  strays,    \* strays used
  issued,    \* ghost: calls begun
  arrivals,  \* ghost: datagrams that ever entered sock
  mark,      \* ghost: arrivals when the drain of a call ended
  before,    \* ghost: calls that had ended when a call began
  result     \* ghost: outcome of each call, the call its datagram answers and
             \* that datagram's arrival number (0: none consumed)

clientVars == <<pc, call, arg, issued, mark, before, result>>
netVars == <<sock, requests, replies, dups, strays, arrivals>>
vars == <<clientVars, netVars>>

TypeOK ==
  /\ pc \in [Callers -> {"idle", "drain", "send", "recv"}]
  /\ issued \in 0 .. MaxCalls
  /\ call \in [Callers -> 0 .. issued]
  /\ arg \in [Calls -> [req : Nat, out : Nat]]
  /\ sock \in Seq(Arrived)
  /\ requests \subseteq Calls
  /\ replies \subseteq Replies
  /\ dups \in 0 .. MaxDups
  /\ strays \in 0 .. MaxStrays
  /\ arrivals \in Nat
  /\ mark \in [Calls -> Nat]
  /\ before \in [Calls -> SUBSET Calls]
  /\ result \in [Calls -> Results]

Init ==
  /\ pc = [t \in Callers |-> "idle"]
  /\ call = [t \in Callers |-> 0]
  /\ arg = [c \in Calls |-> [req |-> 0, out |-> 0]]
  /\ sock = <<>>
  /\ requests = {}
  /\ replies = {}
  /\ dups = 0
  /\ strays = 0
  /\ issued = 0
  /\ arrivals = 0
  /\ mark = [c \in Calls |-> 0]
  /\ before = [c \in Calls |-> {}]
  /\ result = [c \in Calls |-> Pending]

Ended == {c \in 1 .. issued : result[c].status # "pending"}

\* Calls something of which is still between the client's send and its queue.
InTransit == requests \cup {d.call : d \in replies}

----------------------------------------------------------------------------
(***************************************************************************)
(* RtuFrame, as far as the transport depends on it.                        *)
(***************************************************************************)

\* RtuFrame::Create refuses a PDU above kMaxPduSize.
CanFrame(size) == size <= kMaxPduSize

\* RtuFrame::Deserialize: minimum size, maximum PDU, matching CRC.
IsFrame(f) ==
  /\ f.size >= kMinFrameSize
  /\ f.size - kMinFrameSize <= kMaxPduSize
  /\ f.crc

\* RecvSome copies at most kMaxFrameSize bytes; a datagram cut short no longer
\* ends in its CRC.
Received(f) ==
  IF f.size <= kMaxFrameSize THEN f
  ELSE [f EXCEPT !.crc = FALSE, !.size = kMaxFrameSize]

\* Variant: the parse error of RtuFrame handed on instead of a ClientError.
VerdictLeaksRtuError(f, out) ==
  CASE ~ IsFrame(f) -> "kInvalidCrc"
    [] IsFrame(f) /\ f.slave # SlaveId -> "kInvalidResponse"
    [] IsFrame(f) /\ f.slave = SlaveId /\ out < f.size - kMinFrameSize ->
         "kBufferTooSmall"
    [] OTHER -> "ok"

\* What SendRawRequest makes of the bytes it received, in the code's order.
Verdict(f, out) ==
  CASE ~ IsFrame(f) -> "kInvalidResponse"
    [] IsFrame(f) /\ f.slave # SlaveId -> "kInvalidResponse"
    [] IsFrame(f) /\ f.slave = SlaveId /\ out < f.size - kMinFrameSize ->
         "kBufferTooSmall"
    [] OTHER -> "ok"

----------------------------------------------------------------------------
(***************************************************************************)
(* The caller: one SendRawRequest call.                                    *)
(***************************************************************************)

Return(t, r) ==
  /\ pc' = [pc EXCEPT ![t] = "idle"]
  /\ result' = [result EXCEPT ![call[t]] = r]

Failure(status) == [Pending EXCEPT !.status = status]

\* A caller enters SendRawRequest.  Under Quiet it first waits until nothing of
\* an ended call is in transit, as the test DrainStalePackets sleeps between
\* its two calls.
SendRawRequest(t, req, out) ==
  /\ pc[t] = "idle"
  /\ issued < MaxCalls
  /\ Quiet => InTransit \cap Ended = {}
  /\ issued' = issued + 1
  /\ pc' = [pc EXCEPT ![t] = "drain"]
  /\ call' = [call EXCEPT ![t] = issued + 1]
  /\ arg' = [arg EXCEPT ![issued + 1] = [req |-> req, out |-> out]]
  /\ before' = [before EXCEPT ![issued + 1] = Ended]
  /\ UNCHANGED <<mark, result, netVars>>

\* One round of the DrainSocket loop: RecvNoblock took the oldest datagram.
DrainDatagram(t) ==
  /\ pc[t] = "drain"
  /\ sock # <<>>
  /\ sock' = Tail(sock)
  /\ UNCHANGED <<clientVars, requests, replies, dups, strays, arrivals>>

\* Variant: the drain is one RecvNoblock instead of a loop, so that datagrams
\* behind the first one stay queued.
DrainOnce(t) ==
  /\ pc[t] = "drain"
  /\ sock' = IF sock = <<>> THEN sock ELSE Tail(sock)
  /\ mark' = [mark EXCEPT ![call[t]] = arrivals]
  /\ IF CanFrame(arg[call[t]].req)
       THEN pc' = [pc EXCEPT ![t] = "send"] /\ UNCHANGED result
       ELSE Return(t, Failure("kInvalidRequest"))
  /\ UNCHANGED <<call, arg, issued, before, requests, replies, dups, strays, arrivals>>

\* RecvNoblock found the queue empty: the loop ends.  Only then is the request
\* framed; an oversized PDU ends the call here, after the drain.
DrainDone(t) ==
  /\ pc[t] = "drain"
  /\ sock = <<>>
  /\ mark' = [mark EXCEPT ![call[t]] = arrivals]
  /\ IF CanFrame(arg[call[t]].req)
       THEN pc' = [pc EXCEPT ![t] = "send"] /\ UNCHANGED result
       ELSE Return(t, Failure("kInvalidRequest"))
  /\ UNCHANGED <<call, arg, issued, before, netVars>>

\* RecvNoblock failed.  DrainSocket runs outside the try block, so the
\* IoException leaves SendRawRequest.
DrainFault(t) ==
  /\ pc[t] = "drain"
  /\ Return(t, Failure("exception"))
  /\ UNCHANGED <<call, arg, issued, mark, before, netVars>>

\* SendAllTo wrote the whole ADU.
Send(t) ==
  /\ pc[t] = "send"
  /\ pc' = [pc EXCEPT ![t] = "recv"]
  /\ requests' = requests \cup {call[t]}
  /\ UNCHANGED <<call, arg, issued, mark, before, result,
                 sock, replies, dups, strays, arrivals>>

\* Variant: RecvSome waits without a deadline and only SendAllTo can fail.
IoFailsOnlyInSend(t) ==
  /\ pc[t] = "send"
  /\ \E status \in {"kTimeout", "kTransportError"} : Return(t, Failure(status))
  /\ UNCHANGED <<call, arg, issued, mark, before, netVars>>

\* SendAllTo or RecvSome gave up: the deadline both share passed (IoTimeout), a
\* short write, or any other IoException, cancellation of the task included.
IoFails(t) ==
  /\ pc[t] \in {"send", "recv"}
  /\ \E status \in {"kTimeout", "kTransportError"} : Return(t, Failure(status))
  /\ UNCHANGED <<call, arg, issued, mark, before, netVars>>

\* RecvSome took the oldest datagram; judging it touches nothing shared.
Recv(t) ==
  /\ pc[t] = "recv"
  /\ sock # <<>>
  /\ LET d == Head(sock)
     IN  Return(t, [status |-> Verdict(Received(d.form), arg[call[t]].out),
                    from |-> d.call, at |-> d.at])
  /\ sock' = Tail(sock)
  /\ UNCHANGED <<call, arg, issued, mark, before,
                 requests, replies, dups, strays, arrivals>>

Step(t) ==
  \/ DrainDatagram(t)
  \/ DrainDone(t)
  \/ DrainFault(t)
  \/ Send(t)
  \/ Recv(t)
  \/ IoFails(t)

----------------------------------------------------------------------------
(***************************************************************************)
(* The network and the slave (external).                                   *)
(***************************************************************************)

\* The network may hand over a datagram and keep a copy of it.
Duplicate == dups < MaxDups /\ dups' = dups + 1

\* The slave takes a request and answers it.
Serve(c, f) ==
  /\ c \in requests
  /\ replies' = replies \cup {Reply(c, f)}
  /\ \/ requests' = requests \ {c} /\ UNCHANGED dups
     \/ Duplicate /\ UNCHANGED requests
  /\ UNCHANGED <<clientVars, sock, strays, arrivals>>

Enqueue(c, f) ==
  /\ arrivals' = arrivals + 1
  /\ sock' = Append(sock, [call |-> c, form |-> f, at |-> arrivals + 1])

Deliver(d) ==
  /\ d \in replies
  /\ Enqueue(d.call, d.form)
  /\ \/ replies' = replies \ {d} /\ UNCHANGED dups
     \/ Duplicate /\ UNCHANGED replies
  /\ UNCHANGED <<clientVars, requests, strays>>

\* A request that never reaches the slave, or that it does not answer.
LoseRequest(c) ==
  /\ c \in requests
  /\ requests' = requests \ {c}
  /\ UNCHANGED <<clientVars, sock, replies, dups, strays, arrivals>>

LoseReply(d) ==
  /\ d \in replies
  /\ replies' = replies \ {d}
  /\ UNCHANGED <<clientVars, sock, requests, dups, strays, arrivals>>

\* RecvSome takes datagrams from any endpoint.
Stray(f) ==
  /\ strays < MaxStrays
  /\ strays' = strays + 1
  /\ Enqueue(0, f)
  /\ UNCHANGED <<clientVars, requests, replies, dups>>

Network ==
  \/ \E c \in requests, f \in ReplyForms : Serve(c, f)
  \/ \E d \in replies : Deliver(d)
  \/ \E c \in requests : LoseRequest(c)
  \/ \E d \in replies : LoseReply(d)
  \/ \E f \in StrayForms : Stray(f)

\* All the calls of the bound have been made and have returned.
Finished ==
  /\ issued = MaxCalls
  /\ \A t \in Callers : pc[t] = "idle"
  /\ UNCHANGED vars

Next ==
  \/ \E t \in Callers, req \in RequestSizes, out \in OutSizes :
       SendRawRequest(t, req, out)
  \/ \E t \in Callers : Step(t)
  \/ Network
  \/ Finished

Spec == Init /\ [][Next]_vars

\* Each call runs on: RecvNoblock never blocks and SendAllTo and RecvSome end
\* at their deadline.  Neither the network nor a new call is promised.
Fairness == \A t \in Callers : WF_vars(Step(t))

FairSpec == Spec /\ Fairness

----------------------------------------------------------------------------
(***************************************************************************)
(* Properties.                                                             *)
(***************************************************************************)

\* The datagram a call judges entered the socket after that call's drain had
\* found the socket empty, whatever the other callers and the network did in
\* between: what DrainSocket at the head of SendRawRequest is for.
OnlyAfterDrain ==
  \A c \in Calls : result[c].at # 0 => result[c].at > mark[c]

\* When callers leave a quiet gap, a call that succeeds took the answer of a
\* call it overlapped (or of no call), never that of a call that had returned
\* before it began.
NeverFromEndedCall ==
  Quiet => \A c \in Calls : result[c].status = "ok" => result[c].from \notin before[c]

\* A successful call returned the answer to its own request.
OwnReply ==
  \A c \in Calls : result[c].status = "ok" => result[c].from = c

\* A call to SendRawRequest returns, with or without an answer: the deadline
\* bounds it and the drain ends once no more datagrams arrive.
EveryCallReturns ==
  \A t \in Callers : pc[t] # "idle" ~> pc[t] = "idle"

(***************************************************************************)
(* What keeps the properties true between the steps that could break them: *)
(* the parts of the inductive invariants of UdpClientProofs.               *)
(***************************************************************************)

\* Callers are inside calls of their own, which have no outcome yet; ids above
\* issued are fresh.
CallsDistinct ==
  /\ \A t \in Callers : pc[t] # "idle" =>
       call[t] \in 1 .. issued /\ result[call[t]] = Pending
  /\ \A t, u \in Callers :
       t # u /\ pc[t] # "idle" /\ pc[u] # "idle" => call[t] # call[u]
  /\ \A c \in Calls : c > issued => result[c] = Pending

\* Arrival numbers are behind the counter, and once a call has drained, what is
\* queued arrived after its drain, whoever else drains or receives.
QueueIsFresh ==
  /\ \A c \in Calls : mark[c] <= arrivals
  /\ \A i \in 1 .. Len(sock) : sock[i].at \in 1 .. arrivals
  /\ \A t \in Callers : pc[t] \in {"send", "recv"} =>
       \A i \in 1 .. Len(sock) : sock[i].at > mark[call[t]]

\* Only ended calls are earlier than another.
EarlierEnded == \A c \in Calls : before[c] \subseteq Ended

\* Under Quiet nothing of an earlier call is in transit during a call, nor
\* queued once that call has drained.
EarlierIsGone ==
  Quiet =>
    /\ \A t \in Callers : pc[t] # "idle" =>
         InTransit \cap before[call[t]] = {}
    /\ \A t \in Callers : pc[t] \in {"send", "recv"} =>
         \A i \in 1 .. Len(sock) : sock[i].call \notin before[call[t]]

\* Every datagram answers a call that was made, or came from another endpoint.
DatagramsHaveOrigin ==
  /\ InTransit \subseteq 1 .. issued
  /\ \A i \in 1 .. Len(sock) :
       \/ sock[i].call \in 1 .. issued
       \/ sock[i].call = 0 /\ sock[i].form \in StrayForms

\* No other endpoint sends what the client would take for a reply.
StraysRefused ==
  \A f \in StrayForms : ~ (IsFrame(Received(f)) /\ Received(f).slave = SlaveId)

\* The socket client keeps the promise of Client::SendRawRequest when callers
\* leave a quiet gap and no other endpoint forges replies.
Promise ==
  INSTANCE RequestReply WITH
    began <- issued,
    active <- [t \in Callers |-> IF pc[t] = "idle" THEN 0 ELSE call[t]],
    earlier <- before,
    status <- [c \in Calls |-> result[c].status],
    answerOf <- [c \in Calls |->
                  IF result[c].status = "ok" THEN result[c].from ELSE 0]

PromiseKept == Promise!Spec
=============================================================================
