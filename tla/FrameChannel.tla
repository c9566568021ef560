---------------------------- MODULE FrameChannel ----------------------------
(***************************************************************************)
(* A frame on its way from Serialize to Deserialize, as between the client *)
(* and a slave: bytes beside each other may be damaged.                    *)
(***************************************************************************)
EXTENDS RtuFrame, FiniteSets

CONSTANTS
  Slaves,     \* slave ids
  Pdus,       \* PDUs to send
  Damages,    \* bytes a damaged byte may turn into
  Spots,      \* positions where a byte may be damaged
  MaxDamaged  \* bound: damaged bytes, no more than the CRC has

ASSUME ChannelAssumption ==
  /\ Slaves \subseteq Byte /\ Damages \subseteq Byte /\ Pdus \subseteq Seq(Byte)
  /\ Spots \subseteq Nat \ {0} /\ MaxDamaged \in 0 .. 2

VARIABLES
  sent,      \* the frame Create made, or why it made none
  wire,      \* its bytes in transit
  damaged,   \* positions of the bytes that were overwritten
  got        \* what Deserialize made of the bytes

vars == <<sent, wire, damaged, got>>

NotYet == NoFrame("notYet")

Init ==
  /\ sent = NotYet
  /\ wire = <<>>
  /\ damaged = {}
  /\ got = NotYet

Send(slave, pdu) ==
  /\ sent = NotYet
  /\ sent' = Create(slave, pdu)
  /\ wire' = IF sent'.error = "none" THEN Serialized(sent') ELSE <<>>
  /\ UNCHANGED <<damaged, got>>

\* A byte is overwritten; another one only beside it.
Damage(i, b) ==
  /\ got = NotYet
  /\ i <= Len(wire) /\ i \notin damaged /\ wire[i] # b
  /\ Cardinality(damaged) < MaxDamaged
  /\ damaged # {} => (i - 1 \in damaged \/ i + 1 \in damaged)
  /\ damaged' = damaged \cup {i}
  /\ wire' = [wire EXCEPT ![i] = b]
  /\ UNCHANGED <<sent, got>>

Receive ==
  /\ sent.error = "none"
  /\ got = NotYet
  /\ got' = Deserialize(wire)
  /\ UNCHANGED <<sent, wire, damaged>>

Next ==
  \/ \E slave \in Slaves, pdu \in Pdus : Send(slave, pdu)
  \/ \E i \in Spots, b \in Damages : Damage(i, b)
  \/ Receive

Spec == Init /\ [][Next]_vars

----------------------------------------------------------------------------
\* A frame nothing happened to arrives as it was made, up to the largest PDU:
\* Deserialize finds the CRC where and in the byte order Serialize put it.
FrameReadBack == got # NotYet /\ damaged = {} => got = sent

\* A frame damaged in one byte or in two beside each other, the CRC's own bytes
\* included, is refused for its CRC: no damaged PDU ever reaches the client.
DamageRefused == got # NotYet /\ damaged # {} => got.error = "kInvalidCrc"

\* The frame rtu_frame_test.cpp reads has the CRC bytes it has there: the CRC is
\* the one of the Modbus standard and not only one both ends agree on.
StandardCrc ==
  sent = Frame(17, <<3, 0, 107, 0, 3>>) /\ damaged = {} =>
    wire = <<17, 3, 0, 107, 0, 3, 118, 135>>
=============================================================================
