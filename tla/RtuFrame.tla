------------------------------ MODULE RtuFrame ------------------------------
(****************************************************************************)
(* RtuFrame of rtu_frame.hpp: slave id, PDU and CRC in one datagram.        *)
(****************************************************************************)
EXTENDS Naturals, Sequences, Constants, Crc

Byte == 0 .. 255
Word == 0 .. 65535

kMinFrameSize == 3

Frame(slave, pdu) == [error |-> "none", slave |-> slave, pdu |-> pdu]
NoFrame(error) == [error |-> error, slave |-> 0, pdu |-> <<>>]

Create(slave, pdu) ==
  IF Len(pdu) > kMaxPduSize THEN NoFrame("kPduTooLarge") ELSE Frame(slave, pdu)

\* Variant: the CRC goes out high byte first.
SerializedHighFirst(frame) ==
  LET body == <<frame.slave>> \o frame.pdu
      crc == CalcCrc(body)
  IN  body \o <<crc \div 256, crc % 256>>

\* The bytes Serialize writes: the CRC's low byte first.  UdpClient, the only caller,
\* gives it 256 bytes, which every frame fits: kBufferTooShort is left out.
Serialized(frame) ==
  LET body == <<frame.slave>> \o frame.pdu
      crc == CalcCrc(body)
  IN  body \o <<crc % 256, crc \div 256>>

\* Variant: the CRC is not compared.
DeserializeUnchecked(bytes) ==
  LET size == Len(bytes) - kMinFrameSize
  IN  IF Len(bytes) < kMinFrameSize THEN NoFrame("kBufferTooShort")
      ELSE Create(bytes[1], SubSeq(bytes, 2, 1 + size))

Deserialize(bytes) ==
  LET size == Len(bytes) - kMinFrameSize
      crc == bytes[2 + size] + 256 * bytes[3 + size]
  IN  IF Len(bytes) < kMinFrameSize THEN NoFrame("kBufferTooShort")
      ELSE IF size > kMaxPduSize THEN NoFrame("kPduTooLarge")
      ELSE IF CalcCrc(SubSeq(bytes, 1, Len(bytes) - 2)) # crc THEN NoFrame("kInvalidCrc")
      ELSE Create(bytes[1], SubSeq(bytes, 2, 1 + size))
=============================================================================
