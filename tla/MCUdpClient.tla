---------------------------- MODULE MCUdpClient ----------------------------
(***************************************************************************)
(* Data for model checking UdpClient.  Sizes are those of whole ADUs: the  *)
(* frame adds three bytes to a PDU.                                        *)
(***************************************************************************)
EXTENDS UdpClient

MCSlaveId == 17

Form(slave, crc, size) == [slave |-> slave, crc |-> crc, size |-> size, content |-> "PDU"]

GoodReply == Form(MCSlaveId, TRUE, 8)

\* A reply that fits one of the two buffers and one that fits only the larger.
SizedReplies == {GoodReply, Form(MCSlaveId, TRUE, 20)}

\* One datagram for every way RtuFrame or the slave check can refuse it: cut
\* short, damaged, from another slave, longer than the receive buffer.
BadForms == {Form(MCSlaveId, TRUE, 2), Form(MCSlaveId, FALSE, 8),
             Form(MCSlaveId + 1, TRUE, 8), Form(MCSlaveId, TRUE, 300)}

OneGoodForm == {GoodReply}

\* 5 bytes hold a PDU of 5 (frame of 8) but not one of 17 (frame of 20).
TwoOutSizes == {5, kMaxPduSize}

OneOutSize == {kMaxPduSize}

\* The largest PDU that can be framed and the first that cannot.
BoundarySizes == {kMaxPduSize, kMaxPduSize + 1}

OneRequestSize == {5}

NoForms == {}
=============================================================================
