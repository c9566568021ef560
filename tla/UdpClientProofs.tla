-------------------------- MODULE UdpClientProofs --------------------------
(***************************************************************************)
(* Proofs about UdpClient for any number of callers and calls, any bounds, *)
(* any forms of datagrams and any buffer sizes.                            *)
(***************************************************************************)
EXTENDS UdpClient, SequenceTheorems, TLAPS

(***************************************************************************)
(* Lemmas about the operators.                                             *)
(***************************************************************************)

\* SendRawRequest ends only with a ClientError or a size.
LEMMA VerdictIsStatus ==
  ASSUME NEW f, NEW out
  PROVE  Verdict(f, out) \in Statuses
BY DEF Verdict, Statuses

\* Only a whole frame from this client's slave is accepted.
LEMMA AcceptedFrame ==
  ASSUME NEW f, NEW out, Verdict(f, out) = "ok"
  PROVE  IsFrame(f) /\ f.slave = SlaveId
<1>1. CASE ~ IsFrame(f)
  BY <1>1 DEF Verdict
<1>2. CASE IsFrame(f) /\ f.slave # SlaveId
  BY <1>2 DEF Verdict
<1> QED
  BY <1>1, <1>2

\* What a call that ends without an answer leaves in result.
LEMMA FailureIsResult ==
  ASSUME NEW status \in Statuses
  PROVE  /\ Failure(status) \in Results
         /\ Failure(status).status = status
         /\ Failure(status).from = 0
         /\ Failure(status).at = 0
BY DEF Failure, Pending, Results

----------------------------------------------------------------------------
(***************************************************************************)
(* Types.                                                                  *)
(***************************************************************************)

LEMMA InitType == Init => TypeOK
<1> SUFFICES ASSUME Init PROVE TypeOK
  OBVIOUS
<1>1. sock \in Seq(Arrived)
  BY EmptySeq DEF Init
<1>2. result \in [Calls -> Results]
  BY DEF Init, Pending, Results
<1> QED
  BY <1>1, <1>2, BoundsAssumption DEF Init, TypeOK

\* A call that returns leaves pc and result well typed.
LEMMA ReturnType ==
  ASSUME TypeOK, NEW t \in Callers, NEW r \in Results, Return(t, r)
  PROVE  /\ pc' \in [Callers -> {"idle", "drain", "send", "recv"}]
         /\ result' \in [Calls -> Results]
BY DEF TypeOK, Return

\* A datagram that enters the queue leaves it well typed.
LEMMA EnqueueType ==
  ASSUME TypeOK, NEW c \in Calls \cup {0}, NEW f \in Forms, Enqueue(c, f)
  PROVE  sock' \in Seq(Arrived) /\ arrivals' \in Nat
<1>1. [call |-> c, form |-> f, at |-> arrivals + 1] \in Arrived
  BY DEF TypeOK, Arrived
<1> QED
  BY <1>1, AppendProperties DEF Enqueue, TypeOK

LEMMA DuplicateType ==
  ASSUME TypeOK, Duplicate \/ UNCHANGED dups
  PROVE  dups' \in 0 .. MaxDups
BY BoundsAssumption DEF TypeOK, Duplicate

\* A datagram taken from the queue was well typed and leaves a queue.
LEMMA DequeueType ==
  ASSUME TypeOK, sock # <<>>
  PROVE  Head(sock) \in Arrived /\ Tail(sock) \in Seq(Arrived)
BY HeadTailProperties DEF TypeOK

\* CallsDistinct is needed because Send puts the current call in transit.
LEMMA NextType == TypeOK /\ CallsDistinct /\ [Next]_vars => TypeOK'
<1> SUFFICES ASSUME TypeOK, CallsDistinct, [Next]_vars PROVE TypeOK'
  OBVIOUS
<1> USE BoundsAssumption, DataAssumption
<1>1. ASSUME NEW t \in Callers, NEW req \in RequestSizes, NEW out \in OutSizes,
             SendRawRequest(t, req, out)
      PROVE  TypeOK'
  <2>1. issued' \in 0 .. MaxCalls /\ issued' \in Calls
    BY <1>1 DEF SendRawRequest, TypeOK, Calls
  <2>2. call' \in [Callers -> 0 .. issued']
    BY <1>1 DEF SendRawRequest, TypeOK
  <2>3. arg' \in [Calls -> [req : Nat, out : Nat]]
    BY <1>1, <2>1 DEF SendRawRequest, TypeOK
  <2>4. Ended \subseteq Calls
    BY DEF Ended, Calls, TypeOK
  <2>5. before' \in [Calls -> SUBSET Calls]
    BY <1>1, <2>4 DEF SendRawRequest, TypeOK
  <2> QED
    BY <1>1, <2>1, <2>2, <2>3, <2>5 DEF SendRawRequest, TypeOK, netVars
<1>2. ASSUME NEW t \in Callers, Step(t)
      PROVE  TypeOK'
  <2>1. CASE DrainDatagram(t)
    BY <2>1, DequeueType DEF DrainDatagram, TypeOK, clientVars
  <2>2. CASE DrainDone(t)
    <3>1. mark' \in [Calls -> Nat]
      BY <2>2 DEF DrainDone, TypeOK
    <3>2. /\ pc' \in [Callers -> {"idle", "drain", "send", "recv"}]
          /\ result' \in [Calls -> Results]
      <4>1. CASE CanFrame(arg[call[t]].req)
        BY <2>2, <4>1 DEF DrainDone, TypeOK
      <4>2. CASE ~ CanFrame(arg[call[t]].req)
        <5>1. Failure("kInvalidRequest") \in Results
          BY FailureIsResult DEF Statuses
        <5> QED
          BY <2>2, <4>2, <5>1, ReturnType DEF DrainDone
      <4> QED
        BY <4>1, <4>2
    <3> QED
      BY <2>2, <3>1, <3>2 DEF DrainDone, TypeOK, netVars
  <2>3. CASE DrainFault(t)
    <3>1. Failure("exception") \in Results
      BY FailureIsResult DEF Statuses
    <3> QED
      BY <2>3, <3>1, ReturnType DEF DrainFault, TypeOK, netVars
  <2>4. CASE Send(t)
    <3>1. call[t] \in Calls
      BY <2>4 DEF Send, TypeOK, CallsDistinct, Calls
    <3>2. pc' \in [Callers -> {"idle", "drain", "send", "recv"}]
      BY <2>4 DEF Send, TypeOK
    <3> QED
      BY <2>4, <3>1, <3>2 DEF Send, TypeOK
  <2>5. CASE Recv(t)
    <3> DEFINE d == Head(sock)
               r == [status |-> Verdict(Received(d.form), arg[call[t]].out),
                     from |-> d.call, at |-> d.at]
    <3>1. d \in Arrived /\ Tail(sock) \in Seq(Arrived)
      BY <2>5, DequeueType DEF Recv
    <3>2. d.call \in Nat /\ d.at \in Nat
      BY <3>1 DEF Arrived, Calls
    <3>3. r \in Results
      BY <3>2, VerdictIsStatus DEF Results
    <3>4. Return(t, r)
      BY <2>5 DEF Recv
    <3>5. /\ pc' \in [Callers -> {"idle", "drain", "send", "recv"}]
          /\ result' \in [Calls -> Results]
      BY <3>3, <3>4, ReturnType
    <3> QED
      BY <2>5, <3>1, <3>5 DEF Recv, TypeOK
  <2>6. CASE IoFails(t)
    <3>1. PICK status \in {"kTimeout", "kTransportError"} :
            Return(t, Failure(status))
      BY <2>6 DEF IoFails
    <3>2. Failure(status) \in Results
      BY FailureIsResult DEF Statuses
    <3> QED
      BY <2>6, <3>1, <3>2, ReturnType DEF IoFails, TypeOK, netVars
  <2> QED
    BY <1>2, <2>1, <2>2, <2>3, <2>4, <2>5, <2>6 DEF Step
<1>3. ASSUME NEW c \in requests, NEW f \in ReplyForms, Serve(c, f)
      PROVE  TypeOK'
  <2>1. Reply(c, f) \in Replies
    BY DEF Reply, Replies, TypeOK
  <2>2. dups' \in 0 .. MaxDups
    BY <1>3, DuplicateType DEF Serve
  <2> QED
    BY <1>3, <2>1, <2>2 DEF Serve, TypeOK, clientVars
<1>4. ASSUME NEW d \in replies, Deliver(d)
      PROVE  TypeOK'
  <2>1. d.call \in Calls /\ d.form \in Forms
    BY DEF TypeOK, Replies
  <2>2. sock' \in Seq(Arrived) /\ arrivals' \in Nat
    BY <1>4, <2>1, EnqueueType DEF Deliver
  <2>3. dups' \in 0 .. MaxDups
    BY <1>4, DuplicateType DEF Deliver
  <2> QED
    BY <1>4, <2>2, <2>3 DEF Deliver, TypeOK, clientVars
<1>5. ASSUME NEW c \in requests, LoseRequest(c)
      PROVE  TypeOK'
  BY <1>5 DEF LoseRequest, TypeOK, clientVars
<1>6. ASSUME NEW d \in replies, LoseReply(d)
      PROVE  TypeOK'
  BY <1>6 DEF LoseReply, TypeOK, clientVars
<1>7. ASSUME NEW f \in StrayForms, Stray(f)
      PROVE  TypeOK'
  <2>1. sock' \in Seq(Arrived) /\ arrivals' \in Nat
    BY <1>7, EnqueueType DEF Stray
  <2> QED
    BY <1>7, <2>1 DEF Stray, TypeOK, clientVars
<1>8. CASE UNCHANGED vars
  BY <1>8 DEF vars, clientVars, netVars, TypeOK
<1> QED
  BY <1>1, <1>2, <1>3, <1>4, <1>5, <1>6, <1>7, <1>8 DEF Next, Network, Finished

----------------------------------------------------------------------------
(***************************************************************************)
(* Calls are distinct.                                                     *)
(***************************************************************************)

LEMMA InitCalls == Init => CallsDistinct
BY DEF Init, CallsDistinct

\* A call that ends, and one that goes on, disturbs no other call.
LEMMA ReturnKeepsCalls ==
  ASSUME TypeOK, CallsDistinct, NEW t \in Callers, pc[t] # "idle", NEW r,
         Return(t, r), UNCHANGED <<call, issued>>
  PROVE  CallsDistinct'
<1>1. call[t] \in 1 .. issued
  BY DEF CallsDistinct
<1>2. \A u \in Callers : pc'[u] # "idle" => u # t /\ pc[u] # "idle"
  BY DEF Return, TypeOK
<1>3. \A c \in Calls : c # call[t] => result'[c] = result[c]
  BY DEF Return, TypeOK
<1>4. \A u \in Callers : pc'[u] # "idle" =>
        call'[u] \in 1 .. issued' /\ result'[call'[u]] = Pending
  <2> SUFFICES ASSUME NEW u \in Callers, pc'[u] # "idle"
               PROVE  call[u] \in 1 .. issued /\ result'[call[u]] = Pending
    OBVIOUS
  <2>1. u # t /\ pc[u] # "idle"
    BY <1>2
  <2>2. call[u] \in 1 .. issued /\ call[u] # call[t] /\ result[call[u]] = Pending
    BY <2>1 DEF CallsDistinct
  <2>3. call[u] \in Calls
    BY <2>2, BoundsAssumption DEF TypeOK, Calls
  <2> QED
    BY <1>3, <2>2, <2>3
<1>5. \A u, v \in Callers :
        u # v /\ pc'[u] # "idle" /\ pc'[v] # "idle" => call'[u] # call'[v]
  BY <1>2 DEF CallsDistinct
<1>6. \A c \in Calls : c > issued' => result'[c] = Pending
  BY <1>1, <1>3 DEF CallsDistinct, TypeOK
<1> QED
  BY <1>4, <1>5, <1>6 DEF CallsDistinct

LEMMA MoveKeepsCalls ==
  ASSUME TypeOK, CallsDistinct, NEW t \in Callers, pc[t] # "idle", NEW label,
         pc' = [pc EXCEPT ![t] = label], UNCHANGED <<call, issued, result>>
  PROVE  CallsDistinct'
<1>1. \A u \in Callers : pc'[u] # "idle" => pc[u] # "idle"
  BY DEF TypeOK
<1> QED
  BY <1>1 DEF CallsDistinct

LEMMA NextCalls == TypeOK /\ CallsDistinct /\ [Next]_vars => CallsDistinct'
<1> SUFFICES ASSUME TypeOK, CallsDistinct, [Next]_vars PROVE CallsDistinct'
  OBVIOUS
<1>1. ASSUME NEW t \in Callers, NEW req \in RequestSizes, NEW out \in OutSizes,
             SendRawRequest(t, req, out)
      PROVE  CallsDistinct'
  <2>1. issued + 1 \in Calls
    BY <1>1, BoundsAssumption DEF SendRawRequest, TypeOK, Calls
  <2>2. result[issued + 1] = Pending
    BY <2>1 DEF CallsDistinct, TypeOK
  <2>3. call'[t] = issued + 1 /\ pc'[t] = "drain"
    BY <1>1 DEF SendRawRequest, TypeOK
  <2>4. \A u \in Callers : u # t => call'[u] = call[u] /\ pc'[u] = pc[u]
    BY <1>1 DEF SendRawRequest, TypeOK
  <2>5. issued' = issued + 1 /\ result' = result /\ issued \in Nat
    BY <1>1 DEF SendRawRequest, TypeOK
  <2>6. \A u \in Callers : u # t /\ pc[u] # "idle" => call[u] < issued + 1
    BY <2>5 DEF CallsDistinct
  <2>7. \A u \in Callers : pc'[u] # "idle" =>
          call'[u] \in 1 .. issued' /\ result'[call'[u]] = Pending
    BY <2>2, <2>3, <2>4, <2>5 DEF CallsDistinct
  <2>8. \A u, v \in Callers :
          u # v /\ pc'[u] # "idle" /\ pc'[v] # "idle" => call'[u] # call'[v]
    BY <2>3, <2>4, <2>5, <2>6 DEF CallsDistinct
  <2>9. \A c \in Calls : c > issued' => result'[c] = Pending
    BY <2>5 DEF CallsDistinct, Calls
  <2> QED
    BY <2>7, <2>8, <2>9 DEF CallsDistinct
<1>2. ASSUME NEW t \in Callers, Step(t)
      PROVE  CallsDistinct'
  <2>1. CASE DrainDatagram(t)
    BY <2>1 DEF DrainDatagram, clientVars, CallsDistinct
  <2>2. CASE DrainDone(t)
    BY <2>2, ReturnKeepsCalls, MoveKeepsCalls DEF DrainDone
  <2>3. CASE DrainFault(t)
    BY <2>3, ReturnKeepsCalls DEF DrainFault
  <2>4. CASE Send(t)
    BY <2>4, MoveKeepsCalls DEF Send
  <2>5. CASE Recv(t)
    BY <2>5, ReturnKeepsCalls DEF Recv
  <2>6. CASE IoFails(t)
    BY <2>6, ReturnKeepsCalls DEF IoFails
  <2> QED
    BY <1>2, <2>1, <2>2, <2>3, <2>4, <2>5, <2>6 DEF Step
<1>3. CASE Network
  <2>1. UNCHANGED clientVars
    BY <1>3 DEF Network, Serve, Deliver, LoseRequest, LoseReply, Stray
  <2> QED
    BY <2>1 DEF clientVars, CallsDistinct
<1>4. CASE UNCHANGED vars
  BY <1>4 DEF vars, clientVars, CallsDistinct
<1> QED
  BY <1>1, <1>2, <1>3, <1>4 DEF Next, Finished

\* Every variable keeps its type in every behaviour of the socket client.
THEOREM TypeCorrect == Spec => []TypeOK
<1>1. Init => TypeOK /\ CallsDistinct
  BY InitType, InitCalls
<1>2. TypeOK /\ CallsDistinct /\ [Next]_vars => (TypeOK /\ CallsDistinct)'
  BY NextType, NextCalls
<1> QED
  BY <1>1, <1>2, PTL DEF Spec

----------------------------------------------------------------------------
(***************************************************************************)
(* A call judges only what arrived after its drain.                        *)
(***************************************************************************)

\* The queue without its oldest datagram holds nothing new.
LEMMA DequeueElements ==
  ASSUME TypeOK, sock # <<>>, sock' = Tail(sock)
  PROVE  /\ \A i \in 1 .. Len(sock') : \E j \in 1 .. Len(sock) : sock'[i] = sock[j]
         /\ \E j \in 1 .. Len(sock) : Head(sock) = sock[j]
<1>1. /\ Len(sock') = Len(sock) - 1
      /\ \A i \in 1 .. Len(sock') : sock'[i] = sock[i + 1]
  BY HeadTailProperties DEF TypeOK
<1>2. Len(sock) \in Nat \ {0}
  BY EmptySeq DEF TypeOK
<1>3. \A i \in 1 .. Len(sock') : i + 1 \in 1 .. Len(sock)
  BY <1>1, <1>2
<1> QED
  BY <1>1, <1>2, <1>3

\* The queue with one more datagram holds only that one more.
LEMMA EnqueueElements ==
  ASSUME TypeOK, NEW c \in Calls \cup {0}, NEW f \in Forms, Enqueue(c, f)
  PROVE  \A i \in 1 .. Len(sock') :
           \/ \E j \in 1 .. Len(sock) : sock'[i] = sock[j]
           \/ sock'[i] = [call |-> c, form |-> f, at |-> arrivals + 1]
<1> DEFINE e == [call |-> c, form |-> f, at |-> arrivals + 1]
<1>1. e \in Arrived
  BY DEF TypeOK, Arrived
<1>2. Len(sock) \in Nat /\ sock' = Append(sock, e)
  BY LenProperties DEF TypeOK, Enqueue
<1> HIDE DEF e
<1>3. /\ Len(sock') = Len(sock) + 1
      /\ \A i \in 1 .. Len(sock) : sock'[i] = sock[i]
      /\ sock'[Len(sock) + 1] = e
  BY <1>1, <1>2, AppendProperties DEF TypeOK
<1>4. \A i \in 1 .. Len(sock') :
        (\E j \in 1 .. Len(sock) : sock'[i] = sock[j]) \/ sock'[i] = e
  BY <1>2, <1>3
<1> QED
  BY <1>4 DEF e

LEMMA InitFresh == Init => QueueIsFresh /\ OnlyAfterDrain
<1> SUFFICES ASSUME Init PROVE QueueIsFresh /\ OnlyAfterDrain
  OBVIOUS
<1>1. Len(sock) = 0
  BY EmptySeq DEF Init
<1> QED
  BY <1>1 DEF Init, QueueIsFresh, OnlyAfterDrain, Pending

\* A step of a caller that is past its drain, or leaves, and takes datagrams
\* from the queue without touching mark.
LEMMA ShrinkKeepsFresh ==
  ASSUME TypeOK, QueueIsFresh, UNCHANGED <<mark, call, arrivals>>,
         \A i \in 1 .. Len(sock') : \E j \in 1 .. Len(sock) : sock'[i] = sock[j],
         \A u \in Callers : pc'[u] \in {"send", "recv"} => pc[u] \in {"send", "recv"}
  PROVE  QueueIsFresh'
BY DEF QueueIsFresh

LEMMA EnqueueKeepsFresh ==
  ASSUME TypeOK, CallsDistinct, QueueIsFresh, NEW c \in Calls \cup {0},
         NEW f \in Forms, Enqueue(c, f), UNCHANGED clientVars
  PROVE  QueueIsFresh'
<1>1. \A i \in 1 .. Len(sock') :
        \/ \E j \in 1 .. Len(sock) : sock'[i] = sock[j]
        \/ sock'[i].at = arrivals + 1
  <2>1. \A i \in 1 .. Len(sock') :
          \/ \E j \in 1 .. Len(sock) : sock'[i] = sock[j]
          \/ sock'[i] = [call |-> c, form |-> f, at |-> arrivals + 1]
    BY EnqueueElements
  <2> QED
    BY <2>1
<1>2. arrivals' = arrivals + 1 /\ arrivals \in Nat
  BY DEF Enqueue, TypeOK
<1>3. \A u \in Callers : pc[u] # "idle" => call[u] \in Calls
  BY BoundsAssumption DEF CallsDistinct, TypeOK, Calls
<1>4. mark \in [Calls -> Nat] /\ mark' = mark /\ pc' = pc /\ call' = call
  BY DEF TypeOK, clientVars
<1>5. \A d \in Calls : mark'[d] <= arrivals'
  BY <1>2, <1>4 DEF QueueIsFresh
<1>6. \A i \in 1 .. Len(sock') : sock'[i].at \in 1 .. arrivals'
  BY <1>1, <1>2 DEF QueueIsFresh
<1>7. ASSUME NEW u \in Callers, pc[u] \in {"send", "recv"},
             NEW i \in 1 .. Len(sock')
      PROVE  sock'[i].at > mark[call[u]]
  <2>1. call[u] \in Calls /\ mark[call[u]] <= arrivals /\ mark[call[u]] \in Nat
    BY <1>3, <1>4, <1>7 DEF QueueIsFresh
  <2> QED
    BY <1>1, <1>2, <1>7, <2>1 DEF QueueIsFresh
<1> QED
  BY <1>4, <1>5, <1>6, <1>7 DEF QueueIsFresh

LEMMA NextFresh ==
  TypeOK /\ CallsDistinct /\ QueueIsFresh /\ [Next]_vars => QueueIsFresh'
<1> SUFFICES ASSUME TypeOK, CallsDistinct, QueueIsFresh, [Next]_vars
             PROVE  QueueIsFresh'
  OBVIOUS
<1>1. ASSUME NEW t \in Callers, NEW req \in RequestSizes, NEW out \in OutSizes,
             SendRawRequest(t, req, out)
      PROVE  QueueIsFresh'
  <2>1. \A u \in Callers : pc'[u] \in {"send", "recv"} =>
          pc[u] \in {"send", "recv"} /\ call'[u] = call[u]
    BY <1>1 DEF SendRawRequest, TypeOK
  <2> QED
    BY <1>1, <2>1 DEF SendRawRequest, netVars, QueueIsFresh
<1>2. ASSUME NEW t \in Callers, Step(t)
      PROVE  QueueIsFresh'
  <2>1. CASE DrainDatagram(t)
    <3>1. \A i \in 1 .. Len(sock') : \E j \in 1 .. Len(sock) : sock'[i] = sock[j]
      BY <2>1, DequeueElements DEF DrainDatagram
    <3> QED
      BY <2>1, <3>1, ShrinkKeepsFresh DEF DrainDatagram, clientVars
  <2>2. CASE DrainDone(t)
    <3>1. Len(sock') = 0 /\ arrivals' = arrivals /\ arrivals \in Nat
      BY <2>2, EmptySeq DEF DrainDone, netVars, TypeOK
    <3>2. \A c \in Calls : mark'[c] <= arrivals'
      BY <2>2, <3>1 DEF DrainDone, QueueIsFresh, TypeOK
    <3> QED
      BY <3>1, <3>2 DEF QueueIsFresh
  <2>3. CASE DrainFault(t) \/ IoFails(t)
    <3>1. /\ \A u \in Callers :
               pc'[u] \in {"send", "recv"} => pc[u] \in {"send", "recv"}
          /\ UNCHANGED <<mark, call, arrivals, sock>>
      BY <2>3 DEF DrainFault, IoFails, Return, netVars, TypeOK
    <3> QED
      BY <3>1 DEF QueueIsFresh
  <2>4. CASE Send(t)
    <3>1. /\ \A u \in Callers :
               pc'[u] \in {"send", "recv"} => pc[u] \in {"send", "recv"}
          /\ UNCHANGED <<mark, call, arrivals, sock>>
      BY <2>4 DEF Send, TypeOK
    <3> QED
      BY <3>1 DEF QueueIsFresh
  <2>5. CASE Recv(t)
    <3>1. \A i \in 1 .. Len(sock') : \E j \in 1 .. Len(sock) : sock'[i] = sock[j]
      BY <2>5, DequeueElements DEF Recv
    <3>2. \A u \in Callers :
            pc'[u] \in {"send", "recv"} => pc[u] \in {"send", "recv"}
      BY <2>5 DEF Recv, Return, TypeOK
    <3> QED
      BY <2>5, <3>1, <3>2, ShrinkKeepsFresh DEF Recv
  <2> QED
    BY <1>2, <2>1, <2>2, <2>3, <2>4, <2>5 DEF Step
<1>3. ASSUME NEW d \in replies, Deliver(d)
      PROVE  QueueIsFresh'
  <2>1. d.call \in Calls /\ d.form \in Forms
    BY DEF TypeOK, Replies
  <2> QED
    BY <1>3, <2>1, EnqueueKeepsFresh DEF Deliver
<1>4. ASSUME NEW f \in StrayForms, Stray(f)
      PROVE  QueueIsFresh'
  BY <1>4, EnqueueKeepsFresh, DataAssumption DEF Stray
<1>5. CASE UNCHANGED <<pc, call, mark, sock, arrivals>>
  BY <1>5 DEF QueueIsFresh
<1>6. ASSUME NEW c \in requests, NEW f \in ReplyForms, Serve(c, f)
      PROVE  UNCHANGED <<pc, call, mark, sock, arrivals>>
  BY <1>6 DEF Serve, clientVars
<1>7. ASSUME NEW c \in requests, LoseRequest(c)
      PROVE  UNCHANGED <<pc, call, mark, sock, arrivals>>
  BY <1>7 DEF LoseRequest, clientVars
<1>8. ASSUME NEW d \in replies, LoseReply(d)
      PROVE  UNCHANGED <<pc, call, mark, sock, arrivals>>
  BY <1>8 DEF LoseReply, clientVars
<1>9. CASE UNCHANGED vars
  BY <1>5, <1>9 DEF vars, clientVars, netVars
<1> QED
  BY <1>1, <1>2, <1>3, <1>4, <1>5, <1>6, <1>7, <1>8, <1>9
  DEF Next, Network, Finished

LEMMA NextOrder ==
  TypeOK /\ CallsDistinct /\ QueueIsFresh /\ OnlyAfterDrain /\ [Next]_vars
    => OnlyAfterDrain'
<1> SUFFICES ASSUME TypeOK, CallsDistinct, QueueIsFresh, OnlyAfterDrain, [Next]_vars
             PROVE  OnlyAfterDrain'
  OBVIOUS
<1>1. CASE UNCHANGED <<mark, result>>
  BY <1>1 DEF OnlyAfterDrain
\* A call that ends without a datagram has nothing to compare.
<1>2. ASSUME NEW t \in Callers, NEW r, Return(t, r), r.at = 0, UNCHANGED mark
      PROVE  OnlyAfterDrain'
  BY <1>2 DEF Return, OnlyAfterDrain, TypeOK
<1>3. ASSUME NEW t \in Callers, Step(t)
      PROVE  OnlyAfterDrain'
  <2>1. CASE DrainDatagram(t)
    BY <1>1, <2>1 DEF DrainDatagram, clientVars
  <2>2. CASE DrainDone(t)
    <3>1. call[t] \in Calls /\ result[call[t]].at = 0
      BY <2>2, BoundsAssumption DEF DrainDone, CallsDistinct, TypeOK, Calls, Pending
    <3>2. \A c \in Calls : c # call[t] => mark'[c] = mark[c] /\ result'[c] = result[c]
      BY <2>2 DEF DrainDone, Return, TypeOK
    <3>3. result'[call[t]].at = 0
      <4>1. CASE UNCHANGED result
        BY <3>1, <4>1
      <4>2. CASE Return(t, Failure("kInvalidRequest"))
        BY <3>1, <4>2, FailureIsResult DEF Return, Statuses, TypeOK
      <4> QED
        BY <2>2, <4>1, <4>2 DEF DrainDone
    <3> QED
      BY <3>2, <3>3 DEF OnlyAfterDrain
  <2>3. CASE DrainFault(t)
    <3>1. Failure("exception").at = 0
      BY FailureIsResult DEF Statuses
    <3> QED
      BY <1>2, <2>3, <3>1 DEF DrainFault
  <2>4. CASE Send(t)
    BY <1>1, <2>4 DEF Send
  <2>5. CASE Recv(t)
    <3>1. call[t] \in Calls
      BY <2>5, BoundsAssumption DEF Recv, CallsDistinct, TypeOK, Calls
    <3>2. PICK j \in 1 .. Len(sock) : Head(sock) = sock[j]
      BY <2>5, DequeueElements DEF Recv
    <3>3. Head(sock).at > mark[call[t]]
      BY <2>5, <3>2 DEF Recv, QueueIsFresh
    <3>4. result'[call[t]].at = Head(sock).at
      BY <2>5, <3>1 DEF Recv, Return, TypeOK
    <3>5. \A c \in Calls : c # call[t] => result'[c] = result[c]
      BY <2>5 DEF Recv, Return, TypeOK
    <3>6. mark' = mark
      BY <2>5 DEF Recv
    <3> QED
      BY <3>3, <3>4, <3>5, <3>6 DEF OnlyAfterDrain
  <2>6. CASE IoFails(t)
    <3>1. PICK status \in {"kTimeout", "kTransportError"} :
            Return(t, Failure(status))
      BY <2>6 DEF IoFails
    <3>2. Failure(status).at = 0
      BY FailureIsResult DEF Statuses
    <3> QED
      BY <1>2, <2>6, <3>1, <3>2 DEF IoFails
  <2> QED
    BY <1>3, <2>1, <2>2, <2>3, <2>4, <2>5, <2>6 DEF Step
<1>4. ASSUME NEW t \in Callers, NEW req \in RequestSizes, NEW out \in OutSizes,
             SendRawRequest(t, req, out)
      PROVE  OnlyAfterDrain'
  BY <1>1, <1>4 DEF SendRawRequest
<1>5. CASE Network
  <2>1. UNCHANGED clientVars
    BY <1>5 DEF Network, Serve, Deliver, LoseRequest, LoseReply, Stray
  <2> QED
    BY <1>1, <2>1 DEF clientVars
<1>6. CASE UNCHANGED vars
  BY <1>1, <1>6 DEF vars, clientVars
<1> QED
  BY <1>3, <1>4, <1>5, <1>6 DEF Next, Finished

\* Whatever the callers that share the socket and the network do, no call
\* judges a datagram that its own DrainSocket should have discarded.
THEOREM DrainDiscardsTheOld == Spec => []OnlyAfterDrain
<1> DEFINE Inv == TypeOK /\ CallsDistinct /\ QueueIsFresh /\ OnlyAfterDrain
<1>1. Init => Inv
  BY InitType, InitCalls, InitFresh
<1>2. Inv /\ [Next]_vars => Inv'
  BY NextType, NextCalls, NextFresh, NextOrder
<1> QED
  BY <1>1, <1>2, PTL DEF Spec

----------------------------------------------------------------------------
(***************************************************************************)
(* Under Quiet, no answer of an ended call reaches a later one.            *)
(***************************************************************************)

LEMMA InitEarlier ==
  Init => EarlierEnded /\ EarlierIsGone /\ NeverFromEndedCall
BY DEF Init, EarlierEnded, EarlierIsGone, NeverFromEndedCall, Pending

\* A call that has ended stays ended.
LEMMA EndedGrows ==
  TypeOK /\ CallsDistinct /\ [Next]_vars => Ended \subseteq Ended'
<1> SUFFICES ASSUME TypeOK, CallsDistinct, [Next]_vars, NEW c \in Ended
             PROVE  c \in Ended'
  OBVIOUS
<1>1. c \in 1 .. issued /\ c \in Calls /\ result[c].status # "pending"
  BY BoundsAssumption DEF Ended, TypeOK, Calls
<1>2. CASE UNCHANGED <<issued, result>>
  BY <1>1, <1>2 DEF Ended
<1>3. ASSUME NEW t \in Callers, NEW r, pc[t] # "idle", Return(t, r), UNCHANGED issued
      PROVE  c \in Ended'
  <2>1. c # call[t]
    BY <1>1, <1>3 DEF CallsDistinct, Pending
  <2>2. result'[c] = result[c]
    BY <1>1, <1>3, <2>1 DEF Return, TypeOK
  <2> QED
    BY <1>1, <1>3, <2>2 DEF Ended
<1>4. ASSUME NEW t \in Callers, Step(t)
      PROVE  c \in Ended'
  <2>1. CASE DrainDatagram(t) \/ Send(t)
    BY <1>2, <2>1 DEF DrainDatagram, Send, clientVars
  <2>2. CASE DrainDone(t)
    BY <1>2, <1>3, <2>2 DEF DrainDone
  <2>3. CASE DrainFault(t)
    BY <1>3, <2>3 DEF DrainFault
  <2>4. CASE Recv(t)
    BY <1>3, <2>4 DEF Recv
  <2>5. CASE IoFails(t)
    BY <1>3, <2>5 DEF IoFails
  <2> QED
    BY <1>4, <2>1, <2>2, <2>3, <2>4, <2>5 DEF Step
<1>5. ASSUME NEW t \in Callers, NEW req \in RequestSizes, NEW out \in OutSizes,
             SendRawRequest(t, req, out)
      PROVE  c \in Ended'
  BY <1>1, <1>5 DEF SendRawRequest, Ended, TypeOK
<1>6. CASE Network
  <2>1. UNCHANGED clientVars
    BY <1>6 DEF Network, Serve, Deliver, LoseRequest, LoseReply, Stray
  <2> QED
    BY <1>2, <2>1 DEF clientVars
<1>7. CASE UNCHANGED vars
  BY <1>2, <1>7 DEF vars, clientVars
<1> QED
  BY <1>4, <1>5, <1>6, <1>7 DEF Next, Finished

\* before is written when a call begins and never again.
LEMMA BeforeKept ==
  [Next]_vars =>
    \/ UNCHANGED before
    \/ \E t \in Callers, req \in RequestSizes, out \in OutSizes :
         SendRawRequest(t, req, out)
<1> SUFFICES ASSUME [Next]_vars,
                    ~ \E t \in Callers, req \in RequestSizes, out \in OutSizes :
                        SendRawRequest(t, req, out)
             PROVE  UNCHANGED before
  OBVIOUS
<1>1. ASSUME NEW t \in Callers, Step(t)
      PROVE  UNCHANGED before
  BY <1>1 DEF Step, DrainDatagram, DrainDone, DrainFault, Send, Recv, IoFails, clientVars
<1>2. CASE Network
  BY <1>2 DEF Network, Serve, Deliver, LoseRequest, LoseReply, Stray, clientVars
<1>3. CASE UNCHANGED vars
  BY <1>3 DEF vars, clientVars
<1> QED
  BY <1>1, <1>2, <1>3 DEF Next, Finished

LEMMA NextEarlierEnded ==
  TypeOK /\ CallsDistinct /\ EarlierEnded /\ [Next]_vars => EarlierEnded'
<1> SUFFICES ASSUME TypeOK, CallsDistinct, EarlierEnded, [Next]_vars
             PROVE  EarlierEnded'
  OBVIOUS
<1>1. Ended \subseteq Ended'
  BY EndedGrows
<1>2. CASE UNCHANGED before
  BY <1>1, <1>2 DEF EarlierEnded
<1>3. ASSUME NEW t \in Callers, NEW req \in RequestSizes, NEW out \in OutSizes,
             SendRawRequest(t, req, out)
      PROVE  EarlierEnded'
  <2>1. \A c \in Calls : before'[c] = before[c] \/ before'[c] = Ended
    BY <1>3 DEF SendRawRequest, TypeOK
  <2> QED
    BY <1>1, <2>1 DEF EarlierEnded
<1> QED
  BY <1>2, <1>3, BeforeKept

\* A datagram that enters the queue of a call other than an earlier one.
LEMMA EnqueueKeepsGone ==
  ASSUME TypeOK, Quiet, EarlierIsGone, NEW c \in Calls \cup {0}, NEW f \in Forms,
         Enqueue(c, f), UNCHANGED clientVars, InTransit' \subseteq InTransit,
         \A t \in Callers : pc[t] # "idle" => c \notin before[call[t]]
  PROVE  EarlierIsGone'
<1>1. pc' = pc /\ call' = call /\ before' = before
  BY DEF clientVars
<1>2. \A i \in 1 .. Len(sock') :
        \/ \E j \in 1 .. Len(sock) : sock'[i] = sock[j]
        \/ sock'[i] = [call |-> c, form |-> f, at |-> arrivals + 1]
  BY EnqueueElements
<1>3. ASSUME NEW t \in Callers, pc[t] \in {"send", "recv"}, NEW i \in 1 .. Len(sock')
      PROVE  sock'[i].call \notin before[call[t]]
  <2>1. CASE \E j \in 1 .. Len(sock) : sock'[i] = sock[j]
    BY <1>3, <2>1 DEF EarlierIsGone
  <2>2. CASE sock'[i] = [call |-> c, form |-> f, at |-> arrivals + 1]
    BY <1>3, <2>2
  <2> QED
    BY <1>2, <2>1, <2>2
<1>4. \A t \in Callers : pc[t] # "idle" => InTransit' \cap before[call[t]] = {}
  BY DEF EarlierIsGone
<1> QED
  BY <1>1, <1>3, <1>4 DEF EarlierIsGone

LEMMA NextEarlierIsGone ==
  TypeOK /\ CallsDistinct /\ EarlierEnded /\ EarlierIsGone /\ [Next]_vars
    => EarlierIsGone'
<1> SUFFICES ASSUME TypeOK, CallsDistinct, EarlierEnded, EarlierIsGone, [Next]_vars,
                    Quiet
             PROVE  EarlierIsGone'
  BY DEF EarlierIsGone
<1> DEFINE Past(label) == label \in {"send", "recv"}
\* Nothing new in transit or queued, and nobody passes the drain.
<1>1. ASSUME UNCHANGED <<call, before>>, InTransit' \subseteq InTransit,
             \A i \in 1 .. Len(sock') : \E j \in 1 .. Len(sock) : sock'[i] = sock[j],
             \A u \in Callers : /\ pc'[u] # "idle" => pc[u] # "idle"
                                /\ Past(pc'[u]) => Past(pc[u])
      PROVE  EarlierIsGone'
  <2>1. \A u \in Callers : pc'[u] # "idle" => InTransit' \cap before'[call'[u]] = {}
    BY <1>1 DEF EarlierIsGone
  <2>2. ASSUME NEW u \in Callers, Past(pc'[u]), NEW i \in 1 .. Len(sock')
        PROVE  sock'[i].call \notin before'[call'[u]]
    <3>1. PICK j \in 1 .. Len(sock) : sock'[i] = sock[j]
      BY <1>1
    <3>2. Past(pc[u]) /\ before'[call'[u]] = before[call[u]]
      BY <1>1, <2>2
    <3> QED
      BY <3>1, <3>2 DEF EarlierIsGone
  <2> QED
    BY <2>1, <2>2 DEF EarlierIsGone
<1>2. ASSUME NEW t \in Callers, NEW req \in RequestSizes, NEW out \in OutSizes,
             SendRawRequest(t, req, out)
      PROVE  EarlierIsGone'
  <2>1. issued + 1 \in Calls /\ call'[t] = issued + 1 /\ ~ Past(pc'[t])
    BY <1>2, BoundsAssumption DEF SendRawRequest, TypeOK, Calls
  <2>2. before'[call'[t]] = Ended
    <3>1. Ended \subseteq Calls
      BY BoundsAssumption DEF Ended, TypeOK, Calls
    <3> QED
      BY <1>2, <2>1, <3>1 DEF SendRawRequest, TypeOK
  <2>3. InTransit' = InTransit /\ sock' = sock
    BY <1>2 DEF SendRawRequest, InTransit, netVars
  <2>4. InTransit \cap Ended = {}
    BY <1>2 DEF SendRawRequest
  <2>5. ASSUME NEW u \in Callers, u # t, pc[u] # "idle"
        PROVE  call'[u] = call[u] /\ before'[call[u]] = before[call[u]]
    <3>1. call[u] \in 1 .. issued /\ issued \in Nat
      BY <2>5 DEF CallsDistinct, TypeOK
    <3>2. call[u] # issued + 1
      BY <3>1
    <3> QED
      BY <1>2, <2>5, <3>2 DEF SendRawRequest, TypeOK
  <2>6. \A u \in Callers : u # t => pc'[u] = pc[u]
    BY <1>2 DEF SendRawRequest, TypeOK
  <2>7. \A u \in Callers : pc'[u] # "idle" => InTransit' \cap before'[call'[u]] = {}
    BY <2>2, <2>3, <2>4, <2>5, <2>6 DEF EarlierIsGone
  <2>8. \A u \in Callers : Past(pc'[u]) =>
          \A i \in 1 .. Len(sock') : sock'[i].call \notin before'[call'[u]]
    BY <2>1, <2>3, <2>5, <2>6 DEF EarlierIsGone
  <2> QED
    BY <2>7, <2>8 DEF EarlierIsGone
<1>3. ASSUME NEW t \in Callers, Step(t)
      PROVE  EarlierIsGone'
  <2>1. CASE DrainDatagram(t)
    <3>1. \A i \in 1 .. Len(sock') : \E j \in 1 .. Len(sock) : sock'[i] = sock[j]
      BY <2>1, DequeueElements DEF DrainDatagram
    <3> QED
      BY <1>1, <2>1, <3>1 DEF DrainDatagram, clientVars, InTransit
  <2>2. CASE DrainDone(t)
    <3>1. Len(sock') = 0 /\ InTransit' = InTransit /\ UNCHANGED <<call, before>>
      BY <2>2, EmptySeq DEF DrainDone, netVars, InTransit
    <3>2. \A u \in Callers : pc'[u] # "idle" => pc[u] # "idle"
      BY <2>2 DEF DrainDone, Return, TypeOK
    <3> QED
      BY <3>1, <3>2 DEF EarlierIsGone
  <2>3. CASE DrainFault(t) \/ IoFails(t)
    <3>1. /\ UNCHANGED <<call, before, sock>>
          /\ InTransit' = InTransit
          /\ \A u \in Callers : /\ pc'[u] # "idle" => pc[u] # "idle"
                                /\ Past(pc'[u]) => Past(pc[u])
      BY <2>3 DEF DrainFault, IoFails, Return, netVars, InTransit, TypeOK
    <3> QED
      BY <1>1, <3>1
  <2>4. CASE Send(t)
    <3>1. /\ UNCHANGED <<call, before, sock>>
          /\ InTransit' = InTransit \cup {call[t]}
          /\ \A u \in Callers : /\ pc'[u] # "idle" => pc[u] # "idle"
                                /\ Past(pc'[u]) => Past(pc[u])
      BY <2>4 DEF Send, InTransit, TypeOK
    <3>2. call[t] \notin Ended
      BY <2>4 DEF Send, CallsDistinct, Ended, Pending
    <3>3. \A u \in Callers : pc[u] # "idle" => call[u] \in Calls
      BY BoundsAssumption DEF CallsDistinct, TypeOK, Calls
    <3>4. \A u \in Callers : pc[u] # "idle" => call[t] \notin before[call[u]]
      BY <3>2, <3>3 DEF EarlierEnded
    <3>5. \A u \in Callers : pc'[u] # "idle" => InTransit' \cap before'[call'[u]] = {}
      BY <3>1, <3>4 DEF EarlierIsGone
    <3>6. \A u \in Callers : Past(pc'[u]) =>
            \A i \in 1 .. Len(sock') : sock'[i].call \notin before'[call'[u]]
      BY <3>1 DEF EarlierIsGone
    <3> QED
      BY <3>5, <3>6 DEF EarlierIsGone
  <2>5. CASE Recv(t)
    <3>1. \A i \in 1 .. Len(sock') : \E j \in 1 .. Len(sock) : sock'[i] = sock[j]
      BY <2>5, DequeueElements DEF Recv
    <3>2. \A u \in Callers : /\ pc'[u] # "idle" => pc[u] # "idle"
                             /\ Past(pc'[u]) => Past(pc[u])
      BY <2>5 DEF Recv, Return, TypeOK
    <3> QED
      BY <1>1, <2>5, <3>1, <3>2 DEF Recv, InTransit
  <2> QED
    BY <1>3, <2>1, <2>2, <2>3, <2>4, <2>5 DEF Step
<1>4. ASSUME NEW c \in requests, NEW f \in ReplyForms, Serve(c, f)
      PROVE  EarlierIsGone'
  <2>1. InTransit' \subseteq InTransit
    BY <1>4 DEF Serve, InTransit, Reply
  <2> QED
    BY <1>1, <1>4, <2>1 DEF Serve, clientVars
<1>5. ASSUME NEW d \in replies, Deliver(d)
      PROVE  EarlierIsGone'
  <2>1. d.call \in Calls /\ d.form \in Forms
    BY DEF TypeOK, Replies
  <2>2. InTransit' \subseteq InTransit
    BY <1>5 DEF Deliver, InTransit
  <2>3. \A t \in Callers : pc[t] # "idle" => d.call \notin before[call[t]]
    BY DEF EarlierIsGone, InTransit
  <2>4. Enqueue(d.call, d.form) /\ UNCHANGED clientVars
    BY <1>5 DEF Deliver
  <2> QED
    BY <2>1, <2>2, <2>3, <2>4, EnqueueKeepsGone
<1>6. ASSUME NEW c \in requests, LoseRequest(c)
      PROVE  EarlierIsGone'
  BY <1>1, <1>6 DEF LoseRequest, clientVars, InTransit
<1>7. ASSUME NEW d \in replies, LoseReply(d)
      PROVE  EarlierIsGone'
  BY <1>1, <1>7 DEF LoseReply, clientVars, InTransit
<1>8. ASSUME NEW f \in StrayForms, Stray(f)
      PROVE  EarlierIsGone'
  <2>1. f \in Forms
    BY DataAssumption
  <2>2. \A t \in Callers : pc[t] # "idle" => call[t] \in Calls
    BY BoundsAssumption DEF CallsDistinct, TypeOK, Calls
  <2>3. \A t \in Callers : pc[t] # "idle" => 0 \notin before[call[t]]
    BY <2>2 DEF TypeOK, Calls
  <2>4. Enqueue(0, f) /\ UNCHANGED clientVars /\ InTransit' = InTransit
    BY <1>8 DEF Stray, InTransit
  <2> QED
    BY <2>1, <2>3, <2>4, EnqueueKeepsGone
<1>9. CASE UNCHANGED vars
  BY <1>1, <1>9 DEF vars, clientVars, netVars, InTransit
<1> QED
  BY <1>2, <1>3, <1>4, <1>5, <1>6, <1>7, <1>8, <1>9 DEF Next, Network, Finished

LEMMA NextAnswer ==
  TypeOK /\ CallsDistinct /\ EarlierIsGone /\ NeverFromEndedCall /\ [Next]_vars
    => NeverFromEndedCall'
<1> SUFFICES ASSUME TypeOK, CallsDistinct, EarlierIsGone, NeverFromEndedCall,
                    [Next]_vars, Quiet
             PROVE  NeverFromEndedCall'
  BY DEF NeverFromEndedCall
<1>1. CASE UNCHANGED <<before, result>>
  BY <1>1 DEF NeverFromEndedCall
<1>2. ASSUME NEW t \in Callers, NEW r, Return(t, r), r.status # "ok", UNCHANGED before
      PROVE  NeverFromEndedCall'
  <2>1. \A c \in Calls : result'[c] = result[c] \/ result'[c] = r
    BY <1>2 DEF Return, TypeOK
  <2> QED
    BY <1>2, <2>1 DEF NeverFromEndedCall
<1>3. ASSUME NEW t \in Callers, NEW status \in Statuses \ {"ok"},
             Return(t, Failure(status)), UNCHANGED before
      PROVE  NeverFromEndedCall'
  <2>1. Failure(status).status # "ok"
    BY FailureIsResult
  <2> QED
    BY <1>2, <1>3, <2>1
<1>4. ASSUME NEW t \in Callers, Step(t)
      PROVE  NeverFromEndedCall'
  <2>1. CASE DrainDatagram(t) \/ Send(t)
    BY <1>1, <2>1 DEF DrainDatagram, Send, clientVars
  <2>2. CASE DrainDone(t)
    BY <1>1, <1>3, <2>2 DEF DrainDone, Statuses
  <2>3. CASE DrainFault(t)
    BY <1>3, <2>3 DEF DrainFault, Statuses
  <2>4. CASE Recv(t)
    <3>1. call[t] \in Calls
      BY <2>4, BoundsAssumption DEF Recv, CallsDistinct, TypeOK, Calls
    <3>2. PICK j \in 1 .. Len(sock) : Head(sock) = sock[j]
      BY <2>4, DequeueElements DEF Recv
    <3>3. Head(sock).call \notin before[call[t]]
      BY <2>4, <3>2 DEF Recv, EarlierIsGone
    <3>4. result'[call[t]].from = Head(sock).call
      BY <2>4, <3>1 DEF Recv, Return, TypeOK
    <3>5. \A c \in Calls : c # call[t] => result'[c] = result[c]
      BY <2>4 DEF Recv, Return, TypeOK
    <3> QED
      BY <2>4, <3>3, <3>4, <3>5 DEF Recv, NeverFromEndedCall
  <2>5. CASE IoFails(t)
    BY <1>3, <2>5 DEF IoFails, Statuses
  <2> QED
    BY <1>4, <2>1, <2>2, <2>3, <2>4, <2>5 DEF Step
<1>5. ASSUME NEW t \in Callers, NEW req \in RequestSizes, NEW out \in OutSizes,
             SendRawRequest(t, req, out)
      PROVE  NeverFromEndedCall'
  <2>1. issued + 1 \in Calls /\ issued + 1 > issued
    BY <1>5, BoundsAssumption DEF SendRawRequest, TypeOK, Calls
  <2>2. result[issued + 1].status # "ok"
    BY <2>1 DEF CallsDistinct, Pending
  <2>3. \A c \in Calls : c # issued + 1 => before'[c] = before[c]
    BY <1>5 DEF SendRawRequest, TypeOK
  <2> QED
    BY <1>5, <2>2, <2>3 DEF SendRawRequest, NeverFromEndedCall
<1>6. CASE Network
  <2>1. UNCHANGED clientVars
    BY <1>6 DEF Network, Serve, Deliver, LoseRequest, LoseReply, Stray
  <2> QED
    BY <1>1, <2>1 DEF clientVars
<1>7. CASE UNCHANGED vars
  BY <1>1, <1>7 DEF vars, clientVars
<1> QED
  BY <1>4, <1>5, <1>6, <1>7 DEF Next, Finished

\* Everything about ended calls that a step preserves.
LEMMA NextQuiet ==
  TypeOK /\ CallsDistinct /\ EarlierEnded /\ EarlierIsGone /\ NeverFromEndedCall
  /\ [Next]_vars
    => (TypeOK /\ CallsDistinct /\ EarlierEnded /\ EarlierIsGone /\ NeverFromEndedCall)'
BY NextType, NextCalls, NextEarlierEnded, NextEarlierIsGone, NextAnswer

\* When callers wait until the network is quiet, a successful call never took
\* the answer of a call that had ended before it began, however many callers
\* share the socket and whatever the network duplicates or reorders.
THEOREM NoAnswerFromThePast == Spec => []NeverFromEndedCall
<1>1. Init => TypeOK /\ CallsDistinct /\ EarlierEnded /\ EarlierIsGone
                /\ NeverFromEndedCall
  BY InitType, InitCalls, InitEarlier
<1> QED
  BY <1>1, NextQuiet, PTL DEF Spec

----------------------------------------------------------------------------
(***************************************************************************)
(* The socket client implements RequestReply.                              *)
(***************************************************************************)

LEMMA InitOrigin == Init => DatagramsHaveOrigin
<1> SUFFICES ASSUME Init PROVE DatagramsHaveOrigin
  OBVIOUS
<1>1. Len(sock) = 0 /\ InTransit = {}
  BY EmptySeq DEF Init, InTransit
<1> QED
  BY <1>1 DEF DatagramsHaveOrigin

LEMMA NextOrigin ==
  TypeOK /\ CallsDistinct /\ DatagramsHaveOrigin /\ [Next]_vars => DatagramsHaveOrigin'
<1> SUFFICES ASSUME TypeOK, CallsDistinct, DatagramsHaveOrigin, [Next]_vars
             PROVE  DatagramsHaveOrigin'
  OBVIOUS
<1>1. ASSUME issued' \in Nat, issued' >= issued, InTransit' \subseteq 1 .. issued',
             \A i \in 1 .. Len(sock') :
               \/ \E j \in 1 .. Len(sock) : sock'[i] = sock[j]
               \/ sock'[i].call \in 1 .. issued
               \/ sock'[i].call = 0 /\ sock'[i].form \in StrayForms
      PROVE  DatagramsHaveOrigin'
  <2>1. 1 .. issued \subseteq 1 .. issued'
    BY <1>1 DEF TypeOK
  <2>2. \A i \in 1 .. Len(sock') :
          \/ sock'[i].call \in 1 .. issued'
          \/ sock'[i].call = 0 /\ sock'[i].form \in StrayForms
    BY <1>1, <2>1 DEF DatagramsHaveOrigin
  <2> QED
    BY <1>1, <2>2 DEF DatagramsHaveOrigin
<1>2. /\ issued \in Nat
      /\ InTransit \subseteq 1 .. issued
      /\ \A i \in 1 .. Len(sock) : \E j \in 1 .. Len(sock) : sock[i] = sock[j]
  BY DEF TypeOK, DatagramsHaveOrigin
<1>3. ASSUME NEW t \in Callers, NEW req \in RequestSizes, NEW out \in OutSizes,
             SendRawRequest(t, req, out)
      PROVE  DatagramsHaveOrigin'
  <2>1. issued' = issued + 1 /\ InTransit' = InTransit /\ sock' = sock
    BY <1>3 DEF SendRawRequest, netVars, InTransit
  <2> QED
    BY <1>1, <1>2, <2>1
<1>4. ASSUME NEW t \in Callers, Step(t)
      PROVE  DatagramsHaveOrigin'
  <2>1. issued' = issued
    BY <1>4 DEF Step, DrainDatagram, DrainDone, DrainFault, Send, Recv, IoFails,
                clientVars
  <2>2. InTransit' \subseteq 1 .. issued'
    <3>1. CASE Send(t)
      <4>1. call[t] \in 1 .. issued
        BY <3>1 DEF Send, CallsDistinct
      <4> QED
        BY <1>2, <2>1, <3>1, <4>1 DEF Send, InTransit
    <3>2. CASE UNCHANGED <<requests, replies>>
      BY <1>2, <2>1, <3>2 DEF InTransit
    <3> QED
      BY <1>4, <3>1, <3>2 DEF Step, DrainDatagram, DrainDone, DrainFault, Recv,
                              IoFails, netVars
  <2>3. \A i \in 1 .. Len(sock') : \E j \in 1 .. Len(sock) : sock'[i] = sock[j]
    <3>1. CASE DrainDatagram(t) \/ Recv(t)
      BY <3>1, DequeueElements DEF DrainDatagram, Recv
    <3>2. CASE UNCHANGED sock
      BY <1>2, <3>2
    <3> QED
      BY <1>4, <3>1, <3>2 DEF Step, DrainDone, DrainFault, Send, IoFails, netVars
  <2> QED
    BY <1>1, <1>2, <2>1, <2>2, <2>3
<1>5. ASSUME NEW c \in requests, NEW f \in ReplyForms, Serve(c, f)
      PROVE  DatagramsHaveOrigin'
  <2>1. issued' = issued /\ InTransit' \subseteq InTransit /\ sock' = sock
    BY <1>5 DEF Serve, InTransit, Reply, clientVars
  <2> QED
    BY <1>1, <1>2, <2>1
<1>6. ASSUME NEW d \in replies, Deliver(d)
      PROVE  DatagramsHaveOrigin'
  <2>1. d.call \in Calls /\ d.form \in Forms /\ d.call \in 1 .. issued
    BY <1>2 DEF TypeOK, Replies, InTransit
  <2>2. issued' = issued /\ InTransit' \subseteq InTransit
    BY <1>6 DEF Deliver, InTransit, clientVars
  <2>3. \A i \in 1 .. Len(sock') :
          \/ \E j \in 1 .. Len(sock) : sock'[i] = sock[j]
          \/ sock'[i] = [call |-> d.call, form |-> d.form, at |-> arrivals + 1]
    BY <1>6, <2>1, EnqueueElements DEF Deliver
  <2>4. \A i \in 1 .. Len(sock') :
          (\E j \in 1 .. Len(sock) : sock'[i] = sock[j]) \/ sock'[i].call \in 1 .. issued
    BY <2>1, <2>3
  <2> QED
    BY <1>1, <1>2, <2>2, <2>4
<1>7. ASSUME NEW f \in StrayForms, Stray(f)
      PROVE  DatagramsHaveOrigin'
  <2>1. f \in Forms
    BY DataAssumption
  <2>2. issued' = issued /\ InTransit' = InTransit
    BY <1>7 DEF Stray, InTransit, clientVars
  <2>3. \A i \in 1 .. Len(sock') :
          \/ \E j \in 1 .. Len(sock) : sock'[i] = sock[j]
          \/ sock'[i] = [call |-> 0, form |-> f, at |-> arrivals + 1]
    BY <1>7, <2>1, EnqueueElements DEF Stray
  <2>4. \A i \in 1 .. Len(sock') :
          \/ \E j \in 1 .. Len(sock) : sock'[i] = sock[j]
          \/ sock'[i].call = 0 /\ sock'[i].form \in StrayForms
    BY <2>3
  <2>5. \A i \in 1 .. Len(sock') :
          \/ \E j \in 1 .. Len(sock) : sock'[i] = sock[j]
          \/ sock'[i].call \in 1 .. issued
          \/ sock'[i].call = 0 /\ sock'[i].form \in StrayForms
    BY <2>4
  <2>6. issued' \in Nat /\ issued' >= issued /\ InTransit' \subseteq 1 .. issued'
    BY <1>2, <2>2
  <2> QED
    BY <1>1, <2>5, <2>6
<1>8. ASSUME issued' = issued, InTransit' \subseteq InTransit, sock' = sock
      PROVE  DatagramsHaveOrigin'
  BY <1>1, <1>2, <1>8
<1>9. ASSUME NEW c \in requests, LoseRequest(c)
      PROVE  DatagramsHaveOrigin'
  BY <1>8, <1>9 DEF LoseRequest, InTransit, clientVars
<1>10. ASSUME NEW d \in replies, LoseReply(d)
       PROVE  DatagramsHaveOrigin'
  BY <1>8, <1>10 DEF LoseReply, InTransit, clientVars
<1>11. CASE UNCHANGED vars
  BY <1>8, <1>11 DEF vars, clientVars, netVars, InTransit
<1> QED
  BY <1>3, <1>4, <1>5, <1>6, <1>7, <1>9, <1>10, <1>11 DEF Next, Network, Finished

\* The variables of RequestReply, seen from here.
Active == [t \in Callers |-> IF pc[t] = "idle" THEN 0 ELSE call[t]]
StatusOf == [c \in Calls |-> result[c].status]
AnswerOf == [c \in Calls |-> IF result[c].status = "ok" THEN result[c].from ELSE 0]

LEMMA InitPromise == Init => Promise!Init
BY DEF Init, Promise!Init, Promise!Calls, Calls, Pending

\* A call that returns is one End of the contract.
LEMMA ReturnIsEnd ==
  ASSUME TypeOK, CallsDistinct, NEW t \in Callers, pc[t] # "idle",
         NEW r \in Results, Return(t, r), UNCHANGED <<call, issued, before>>,
         NEW from, from = IF r.status = "ok" THEN r.from ELSE 0
  PROVE  Promise!End(t, r.status, from)
<1>1. call[t] \in Calls /\ call[t] # 0 /\ Active[t] = call[t]
  BY BoundsAssumption, SMTT(30) DEF CallsDistinct, TypeOK, Calls, Active
<1>2. Active' = [Active EXCEPT ![t] = 0]
  BY DEF Active, Return, TypeOK
<1>3. StatusOf' = [StatusOf EXCEPT ![Active[t]] = r.status]
  BY <1>1 DEF StatusOf, Return, TypeOK
<1>4. AnswerOf' = [AnswerOf EXCEPT ![Active[t]] = from]
  BY <1>1 DEF AnswerOf, Return, TypeOK
<1> QED
  BY <1>1, <1>2, <1>3, <1>4 DEF Promise!End, Active, StatusOf, AnswerOf

LEMMA FailureIsFail ==
  ASSUME TypeOK, CallsDistinct, NEW t \in Callers, pc[t] # "idle",
         NEW status \in Promise!Failures, Return(t, Failure(status)),
         UNCHANGED <<call, issued, before>>
  PROVE  Promise!Next
<1>1. status \in Statuses /\ status # "ok"
  BY DEF Promise!Failures, Statuses
<1>2. Promise!End(t, Failure(status).status, 0)
  BY <1>1, FailureIsResult, ReturnIsEnd
<1>3. Promise!End(t, status, 0)
  BY <1>1, <1>2, FailureIsResult
<1> QED
  BY <1>3 DEF Promise!Next, Promise!Fail

\* Every step of the socket client is a step of the contract or changes none
\* of its variables.
LEMMA NextPromise ==
  ASSUME Quiet, StraysRefused, TypeOK, CallsDistinct, EarlierIsGone,
         DatagramsHaveOrigin, [Next]_vars
  PROVE  [Promise!Next]_Promise!vars
<1>1. CASE UNCHANGED <<pc, call, issued, before, result>>
  BY <1>1 DEF Promise!vars
<1>2. ASSUME NEW t \in Callers, NEW req \in RequestSizes, NEW out \in OutSizes,
             SendRawRequest(t, req, out)
      PROVE  Promise!Begin(t)
  <2>1. Active[t] = 0 /\ issued < MaxCalls /\ issued' = issued + 1
    BY <1>2 DEF SendRawRequest, Active
  <2>2. Active' = [Active EXCEPT ![t] = issued + 1]
    BY <1>2 DEF SendRawRequest, Active, TypeOK
  <2>3. Ended = {c \in 1 .. issued : StatusOf[c] # "pending"}
    BY BoundsAssumption, SMTT(30) DEF Ended, StatusOf, TypeOK, Calls
  <2>4. before' = [before EXCEPT ![issued + 1] =
                     {c \in 1 .. issued : StatusOf[c] # "pending"}]
    BY <1>2, <2>3 DEF SendRawRequest
  <2>5. UNCHANGED result
    BY <1>2 DEF SendRawRequest
  <2> QED
    BY <2>1, <2>2, <2>4, <2>5 DEF Promise!Begin, Active, StatusOf
<1>3. ASSUME NEW t \in Callers, Step(t)
      PROVE  [Promise!Next]_Promise!vars
  <2>1. CASE DrainDatagram(t)
    BY <1>1, <2>1 DEF DrainDatagram, clientVars
  <2>2. ASSUME pc[t] # "idle", UNCHANGED <<call, issued, before, result>>,
               NEW label, label # "idle", pc' = [pc EXCEPT ![t] = label]
        PROVE  [Promise!Next]_Promise!vars
    <3>1. Active' = Active
      BY <2>2 DEF Active, TypeOK
    <3> QED
      BY <2>2, <3>1 DEF Promise!vars, Active
  <2>3. CASE DrainDone(t)
    <3>1. CASE CanFrame(arg[call[t]].req)
      BY <2>2, <2>3, <3>1 DEF DrainDone
    <3>2. CASE ~ CanFrame(arg[call[t]].req)
      BY <2>3, <3>2, FailureIsFail DEF DrainDone, Promise!Failures
    <3> QED
      BY <3>1, <3>2
  <2>4. CASE DrainFault(t)
    BY <2>4, FailureIsFail DEF DrainFault, Promise!Failures
  <2>5. CASE Send(t)
    BY <2>2, <2>5 DEF Send
  <2>6. CASE Recv(t)
    <3> DEFINE d == Head(sock)
               s == Verdict(Received(d.form), arg[call[t]].out)
               r == [status |-> s, from |-> d.call, at |-> d.at]
    <3>1. d \in Arrived /\ s \in Statuses
      BY <2>6, DequeueType, VerdictIsStatus DEF Recv
    <3>2. r \in Results /\ r.status = s /\ r.from = d.call
      BY <3>1 DEF Arrived, Results, Calls
    <3>3. pc[t] # "idle" /\ Return(t, r) /\ UNCHANGED <<call, issued, before>>
      BY <2>6 DEF Recv
    <3> HIDE DEF r
    <3>4. CASE s = "ok"
      <4>1. PICK j \in 1 .. Len(sock) : d = sock[j]
        BY <2>6, DequeueElements DEF Recv
      <4>2. IsFrame(Received(d.form)) /\ Received(d.form).slave = SlaveId
        BY <3>4, AcceptedFrame
      <4>3. d.call \in 1 .. issued
        BY <4>1, <4>2 DEF DatagramsHaveOrigin, StraysRefused
      <4>4. d.call \notin before[call[t]]
        BY <2>6, <4>1 DEF Recv, EarlierIsGone
      <4>5. PICK from \in 1 .. issued : from = d.call
        BY <4>3
      <4>6. from \notin before[call[t]] /\ r.from = from
        BY <3>2, <4>4, <4>5
      <4>7. Promise!End(t, "ok", from)
        <5>1. from = IF r.status = "ok" THEN r.from ELSE 0
          BY <3>2, <3>4, <4>6
        <5>2. Promise!End(t, r.status, from)
          BY <3>2, <3>3, <5>1, ReturnIsEnd
        <5> QED
          BY <3>2, <3>4, <5>2
      <4>8. Active[t] = call[t] /\ call[t] # 0
        BY <3>3, BoundsAssumption DEF Active, CallsDistinct
      <4>9. Promise!Succeed(t)
        BY <4>6, <4>7, <4>8 DEF Promise!Succeed, Active
      <4> QED
        BY <4>9 DEF Promise!Next
    <3>5. CASE s # "ok"
      <4>1. Promise!End(t, s, 0)
        <5>1. 0 = IF r.status = "ok" THEN r.from ELSE 0
          BY <3>2, <3>5
        <5>2. Promise!End(t, r.status, 0)
          BY <3>2, <3>3, <5>1, ReturnIsEnd
        <5> QED
          BY <3>2, <5>2
      <4>2. s \in Promise!Failures
        BY <3>1, <3>5 DEF Statuses, Promise!Failures
      <4> QED
        BY <4>1, <4>2 DEF Promise!Next, Promise!Fail
    <3> QED
      BY <3>4, <3>5
  <2>7. CASE IoFails(t)
    BY <2>7, FailureIsFail DEF IoFails, Promise!Failures
  <2> QED
    BY <1>3, <2>1, <2>3, <2>4, <2>5, <2>6, <2>7 DEF Step
<1>4. CASE Network
  <2>1. UNCHANGED clientVars
    BY <1>4 DEF Network, Serve, Deliver, LoseRequest, LoseReply, Stray
  <2> QED
    BY <1>1, <2>1 DEF clientVars
<1>5. CASE UNCHANGED vars
  BY <1>1, <1>5 DEF vars, clientVars
<1> QED
  BY <1>2, <1>3, <1>4, <1>5 DEF Next, Finished, Promise!Next

\* With quiet gaps between calls and no forged replies, the socket client
\* implements the contract of Client::SendRawRequest.
THEOREM SocketKeepsPromise ==
  ASSUME Quiet, StraysRefused
  PROVE  Spec => PromiseKept
<1> DEFINE Inv == /\ TypeOK /\ CallsDistinct /\ EarlierEnded /\ EarlierIsGone
                  /\ NeverFromEndedCall
                  /\ DatagramsHaveOrigin
<1>1. Init => Inv
  BY InitType, InitCalls, InitEarlier, InitOrigin
<1>2. Inv /\ [Next]_vars => Inv'
  BY NextQuiet, NextOrigin
<1>3. Inv /\ [Next]_vars => [Promise!Next]_Promise!vars
  BY NextPromise
<1>4. Init => Promise!Init
  BY InitPromise
<1> QED
  BY <1>1, <1>2, <1>3, <1>4, PTL DEF Spec, PromiseKept, Promise!Spec
=============================================================================
