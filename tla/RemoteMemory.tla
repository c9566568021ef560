---------------------------- MODULE RemoteMemory ----------------------------
(***************************************************************************)
(* What the operations of Client (client.hpp) promise to one caller: the   *)
(* slave is a memory of four tables, a read that succeeds gives values the *)
(* memory held at one moment during the call, a write that succeeds took   *)
(* effect during the call, and one that fails took effect once, repeatedly *)
(* or not at all, but no later than the next call begins.  A failed call   *)
(* leaves the caller's buffer alone.                                       *)
(*                                                                         *)
(* Messages, byte order, function codes and transport do not appear here.  *)
(***************************************************************************)
EXTENDS Naturals, Sequences

CONSTANTS
  Operations,    \* calls: [table, write, address, quantity, values, room, ...]
  Addresses,     \* addresses the slave has, in every table
  Values,        \* contents of an address
  InitialMemory, \* its contents in the beginning
  Changing       \* tables that change otherwise than by this caller

\* What a buffer holds where nothing has been copied to.
CONSTANT Untouched

VARIABLES
  memory,   \* contents of each table
  job,      \* the current or last call
  waiting,  \* whether that call is going on
  asked,    \* whether its request may still take effect
  found,    \* answers of the memory the caller may still learn of
  out,      \* the caller's buffer
  outcome   \* how the last call ended

vars == <<memory, job, waiting, asked, found, out, outcome>>

NoJob == [table |-> "none"]

Place(op) == op.address .. op.address + op.quantity - 1

Buffer(op) == [i \in 1 .. op.room |-> Untouched]

\* The memory after a write, and the answer to a call.
Written(op) ==
  IF ~ op.write THEN memory
  ELSE [memory EXCEPT ![op.table] =
          [a \in Addresses |-> IF a \in Place(op) THEN op.values[a - op.address + 1] ELSE @[a]]]

Answer(op) ==
  IF op.write THEN <<>>
  ELSE [i \in 1 .. op.quantity |-> memory[op.table][op.address + i - 1]]

Init ==
  /\ memory = InitialMemory
  /\ job = NoJob
  /\ waiting = FALSE /\ asked = FALSE
  /\ found = {}
  /\ out = <<>>
  /\ outcome = "none"

Begin(op) ==
  /\ ~ waiting /\ waiting' = TRUE
  /\ ~ asked /\ asked' = TRUE
  /\ found = {}
  /\ op.quantity > 0
  /\ op.write \/ op.quantity <= op.room
  /\ job' = op
  /\ out' = Buffer(op)
  /\ outcome' = "none"
  /\ UNCHANGED <<memory, found>>

\* The memory was never asked.
Refuse(op) ==
  /\ ~ waiting /\ ~ asked
  /\ job' = op
  /\ out' = Buffer(op)
  /\ outcome' = "error"
  /\ found = {}
  /\ UNCHANGED <<memory, waiting, asked, found>>

\* The request takes effect, and may do so again.
TakeEffect ==
  /\ asked
  /\ Place(job) \subseteq Addresses
  /\ memory' = Written(job)
  /\ found' = found \cup {Answer(job)}
  /\ asked' \in BOOLEAN
  /\ UNCHANGED <<job, waiting, out, outcome>>

\* The request, or answers to it, are lost.
Forget ==
  /\ UNCHANGED <<memory, job, waiting, out, outcome>>
  /\ asked' \in {FALSE, asked}
  /\ found' \subseteq found

Change ==
  /\ \E t \in Changing :
       /\ memory'[t] \in [Addresses -> Values]
       /\ memory' = [memory EXCEPT ![t] = memory'[t]]
  /\ UNCHANGED <<job, waiting, asked, found, out, outcome>>

Succeed ==
  /\ waiting
  /\ waiting' = FALSE
  /\ \E values \in found :
       /\ out' = values \o SubSeq(out, Len(values) + 1, Len(out))
  /\ found' \subseteq found
  /\ outcome' = "ok"
  /\ UNCHANGED <<memory, job, asked>>

Fail ==
  /\ waiting
  /\ waiting' = FALSE
  /\ asked' \in {FALSE, asked}
  /\ found' \subseteq found
  /\ outcome' = "error"
  /\ UNCHANGED <<memory, job, out>>

Next ==
  \/ Forget
  \/ TakeEffect \/ Change
  \/ \E op \in Operations : Begin(op) \/ Refuse(op)
  \/ Succeed \/ Fail

Spec == Init /\ [][Next]_vars
=============================================================================
