------------------------------- MODULE Codec -------------------------------
(***************************************************************************)
(* Messages of several kinds written one behind the other into a buffer    *)
(* and read back from it, as the tests of request/ and response/ do with   *)
(* the buffer each Serialize returns and each Deserialize advances.  The   *)
(* buffer may be cut short, as a datagram may.                             *)
(***************************************************************************)
EXTENDS Messages, SequencesExt

CONSTANTS
  Samples,   \* messages that may be written: [kind, code, content]
  Room,      \* bytes the writer has
  Losses,    \* how many bytes may be cut off
  MaxWrites  \* bound: messages written

ASSUME CodecAssumption ==
  Room \in Nat /\ MaxWrites \in Nat /\ Losses \subseteq Nat \ {0}

\* The only messages there are to write: those a Create has made.
Creatable(x) ==
  \/ /\ x.kind = "range" /\ x.code \in CodesOf("range")
     /\ x.content \in [address : Word, quantity : Word]
     /\ CreateRange(x.code, x.content.address, x.content.quantity, <<>>).ok
  \/ /\ x.kind = "single" /\ x.code \in CodesOf("single")
     /\ x.content \in [address : Word, value : Word]
     /\ CreateSingle(x.code, x.content.address, x.content.value, <<>>).ok
  \/ /\ x.kind = "write" /\ x.code \in CodesOf("write")
     /\ x.content \in [address : Word, values : Seq(Word)]
     /\ CreateWrite(x.code, x.content.address, x.content.values, <<>>).ok
  \/ /\ x.kind = "values" /\ x.code \in CodesOf("values")
     /\ x.content \in [values : Seq(IF x.code \in BitCodes THEN Coil ELSE Word)]
     /\ CreateValues(x.code, x.content.values, <<>>).ok
  \/ /\ x.kind = "error"
     /\ x.content \in [code : ReadCodes \cup WriteSingleCodes \cup WriteMultipleCodes,
                        exception : ExceptionCodes]

ASSUME SamplesAssumption == \A x \in Samples : Creatable(x)

Encoded(x) == EncodingOf(x.kind, x.code, x.content)

\* The bytes of messages behind each other.
BytesOfAll(messages) == FlattenSeq([i \in 1 .. Len(messages) |-> Encoded(messages[i])])

Expected(x) == IF x.kind = "values" THEN Len(x.content.values) ELSE 0

VARIABLES
  stream,     \* bytes written and not yet read
  queue,   \* the messages they encode
  last,    \* the last read: the message wanted and what came out
  cut,     \* whether the end of the buffer was lost
  writes   \* messages written

vars == <<stream, queue, last, cut, writes>>

NoRead == [done |-> FALSE]

CodecInit ==
  /\ stream = <<>>
  /\ queue = <<>>
  /\ last = NoRead
  /\ cut = FALSE
  /\ writes = 0

Write(x) ==
  /\ ~ cut
  /\ writes < MaxWrites
  /\ writes' = writes + 1
  /\ LET s == Serialize(Encoded(x), Room - Len(stream))
     IN  IF s.ok THEN stream' = stream \o s.value /\ queue' = Append(queue, x)
         ELSE UNCHANGED <<stream, queue>>
  /\ UNCHANGED <<last, cut>>

Read ==
  /\ queue # <<>>
  /\ LET x == Head(queue)
         r == Deserialize(x.kind, x.code, Expected(x), stream)
     IN  /\ last' = [done |-> TRUE, want |-> x, got |-> r]
         /\ IF r.ok THEN stream' = r.rest /\ queue' = Tail(queue)
            ELSE stream' = <<>> /\ queue' = <<>>
  /\ UNCHANGED <<cut, writes>>

\* The buffer loses its last n bytes, at most the last message.
Cut(n) ==
  /\ ~ cut
  /\ queue # <<>>
  /\ n < Len(Encoded(Last(queue)))
  /\ cut' = TRUE
  /\ stream' = SubSeq(stream, 1, Len(stream) - n)
  /\ UNCHANGED <<queue, last, writes>>

CodecNext ==
  \/ \E x \in Samples : Write(x)
  \/ Read
  \/ \E n \in Losses : Cut(n)

CodecSpec == CodecInit /\ [][CodecNext]_vars

----------------------------------------------------------------------------
\* Every message comes back as it was written, whatever was written before and
\* behind it; only a message that lost its end is refused, as too short.
ReadBack ==
  last.done =>
    IF last.got.ok THEN last.got.value = last.want.content
    ELSE cut /\ last.got.error = "kBufferTooShort" /\ queue = <<>>

\* What a read leaves in the buffer is the messages not yet read, none of their
\* bytes taken and no byte of the message read left.
TailPreserved ==
  ~ cut => stream = BytesOfAll(queue)
=============================================================================
