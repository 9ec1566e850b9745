------------------------------- MODULE MCCodec -------------------------------
(* Bytes of two bits.  The payloads are the token, the two bytes that the  *)
(* checksum takes for one, and a whole packet.                             *)
EXTENDS Codec

MCToken == <<1, 2>>
Empty(s, type) == Packet(s, 0, type, <<>>)
MCPackets ==
    { Empty(0, 1), Empty(3, 0) }
      \cup { Packet(s, 1, 1, bytes) : s \in {1, 3}, bytes \in {MCToken, <<0, 3, 0>>} }
      \cup { Packet(2, 1, 0, Encode(Empty(1, 1))) }
MCStreams ==
    { <<p>> : p \in MCPackets } \cup { <<p, q>> : p \in MCPackets, q \in MCPackets }
=============================================================================
