---------------------------- MODULE RequestReply ----------------------------
(***************************************************************************)
(* What Client::SendRawRequest promises to the callers that share a client *)
(* (client.hpp: a raw request PDU in, its response PDU or a ClientError    *)
(* out): a call begins and ends once, and one that ends with an answer     *)
(* ends with the answer to a call it overlapped, never with that of a call *)
(* that had ended before it began.  With one caller that is its own        *)
(* answer.  Sockets, frames and deadlines do not appear here.              *)
(***************************************************************************)
EXTENDS Naturals

CONSTANTS
  Callers,   \* who shares the client
  MaxCalls   \* bound: calls in a behaviour

Calls == 1 .. MaxCalls

\* How a call can end without an answer.
Failures == {"kBufferTooSmall", "kInvalidRequest", "kInvalidResponse",
             "kTransportError", "kTimeout", "exception"}

VARIABLES
  began,     \* calls begun
  active,    \* the call each caller is in, 0: none
  earlier,   \* calls that had ended when a call began
  status,    \* how each call ended: "pending" until then
  answerOf   \* the call whose answer a call received, 0: none

vars == <<began, active, earlier, status, answerOf>>

Init ==
  /\ began = 0
  /\ active = [t \in Callers |-> 0]
  /\ earlier = [c \in Calls |-> {}]
  /\ status = [c \in Calls |-> "pending"]
  /\ answerOf = [c \in Calls |-> 0]

Begin(t) ==
  /\ active[t] = 0
  /\ began < MaxCalls
  /\ began' = began + 1
  /\ active' = [active EXCEPT ![t] = began + 1]
  /\ earlier' = [earlier EXCEPT ![began + 1] =
                   {c \in 1 .. began : status[c] # "pending"}]
  /\ UNCHANGED <<status, answerOf>>

End(t, how, from) ==
  /\ active[t] # 0
  /\ active' = [active EXCEPT ![t] = 0]
  /\ status' = [status EXCEPT ![active[t]] = how]
  /\ answerOf' = [answerOf EXCEPT ![active[t]] = from]
  /\ UNCHANGED <<began, earlier>>

Succeed(t) ==
  /\ active[t] # 0
  /\ \E from \in (1 .. began) \ earlier[active[t]] : End(t, "ok", from)

Fail(t) == \E how \in Failures : End(t, how, 0)

Next == \E t \in Callers : Begin(t) \/ Succeed(t) \/ Fail(t)

Spec == Init /\ [][Next]_vars
=============================================================================
