-------------------------------- MODULE Codec --------------------------------
(***************************************************************************)
(* The packet codec of src/codec.rs on bytes of any base: Fletcher-16,     *)
(* encode and decode; and a receiver in the manner of FakeDevice::feed and *)
(* examples/inspect.rs, which collects what the line brings, decodes from  *)
(* the front, waits while a packet is incomplete, and drops one byte where *)
(* there is no packet.                                                     *)
(*                                                                         *)
(* The arithmetic is the code's with 256 replaced by Base, 255 by Base - 1 *)
(* and 16, the values of a nibble, by Nibble.  No sum of the code          *)
(* overflows its u16.  Offsets count from 1.                               *)
(***************************************************************************)
EXTENDS Naturals, Sequences

CONSTANTS
    Nibble,      \* 16 in the code
    Token,       \* the two bytes of PACKET_TOKEN, low one first
    Streams      \* sequences of packets a sender may write

Base == Nibble * Nibble
Byte == 0 .. (Base - 1)
HeaderLen == 8
MaxPayload == Base * Base - 1

ASSUME CodecAssumption ==
    /\ Nibble \in Nat \ {0, 1}
    /\ Token \in Byte \X Byte

(* u16::to_le_bytes and u16::from_le_bytes *)
ToLe(n) == <<n % Base, n \div Base>>
FromLe(low, high) == low + Base * high

(* fletcher16: the two running sums after the first i bytes, in one u16.   *)
Fletcher(buf) ==
    LET cs[i \in 0 .. Len(buf)] ==
            IF i = 0 THEN 0
            ELSE LET low  == ((cs[i - 1] % Base) + buf[i]) % (Base - 1)
                     high == ((cs[i - 1] \div Base) + low) % (Base - 1)
                 IN  high * Base + low
    IN  cs[Len(buf)]

(* struct Packet, and what Packet::new and encode refuse. *)
AnyPacket == [sync : Byte, protocol : Byte, packet_type : Byte, payload : Seq(Byte)]

Packet(s, proto, type, bytes) ==
    [sync |-> s, protocol |-> proto, packet_type |-> type, payload |-> bytes]

Encodable(packet) ==
    /\ packet.protocol < Nibble /\ packet.packet_type < Nibble
    /\ Len(packet.payload) <= MaxPayload

ASSUME StreamsAssumption ==
    \A packets \in Streams :
        /\ packets \in Seq(AnyPacket)
        /\ \A i \in 1 .. Len(packets) : Encodable(packets[i])

WireLen(packet) ==
    IF packet.payload = <<>> THEN HeaderLen ELSE HeaderLen + Len(packet.payload) + 2

Header(packet) ==
    LET fields == <<packet.sync, packet.protocol * Nibble + packet.packet_type>>
                      \o ToLe(Len(packet.payload))
    IN  fields \o ToLe(Fletcher(fields))

Encode(packet) ==
    LET body == Header(packet) \o packet.payload
    IN  Token \o (IF packet.payload = <<>> THEN body ELSE body \o ToLe(Fletcher(body)))

(* decode: the verdict on the bytes at the front of buf.                   *)
(* (Mutant_ operators are faulty variants of what follows them.)           *)
Mutant_Incomplete(need) == [verdict |-> "Incomplete", need |-> HeaderLen]

Incomplete(need) == [verdict |-> "Incomplete", need |-> need]
Bad(why) == [verdict |-> why]
Decoded(packet, consumed) == [verdict |-> "Ok", packet |-> packet, consumed |-> consumed]

HeaderFits(buf) ==
    FromLe(buf[7], buf[8]) = Fletcher(SubSeq(buf, 3, 6))

Mutant_BodyFits(buf, len) == TRUE

BodyFits(buf, len) ==
    LET end == HeaderLen + len
    IN  FromLe(buf[end + 1], buf[end + 2]) = Fletcher(SubSeq(buf, 3, end))

Mutant_PacketAt(buf, len) ==
    Packet(buf[3], buf[4], buf[4] % Nibble, SubSeq(buf, HeaderLen + 1, HeaderLen + len))

PacketAt(buf, len) ==
    Packet(buf[3], buf[4] \div Nibble, buf[4] % Nibble,
           SubSeq(buf, HeaderLen + 1, HeaderLen + len))

Total(len) == HeaderLen + len + 2

Decode(buf) ==
    IF Len(buf) < HeaderLen THEN Incomplete(HeaderLen)
    ELSE IF <<buf[1], buf[2]>> # Token THEN Bad("BadToken")
    ELSE IF ~HeaderFits(buf) THEN Bad("HeaderChecksum")
    ELSE LET len == FromLe(buf[5], buf[6])
         IN  IF len = 0 THEN Decoded(PacketAt(buf, 0), HeaderLen)
             ELSE IF Len(buf) < Total(len) THEN Incomplete(Total(len))
             ELSE IF ~BodyFits(buf, len) THEN Bad("PayloadChecksum")
             ELSE Decoded(PacketAt(buf, len), Total(len))

-----------------------------------------------------------------------------
VARIABLES
    stream,      \* the packets the sender writes
    wire,        \* bytes that have not arrived
    inbound,     \* bytes that have arrived and are not decoded
    delivered,   \* history: packets decoded, each with the offset it began at
    consumed,    \* history: bytes decoded or dropped
    draining,    \* the receiver's loop runs
    damaged      \* history: the line has changed a byte

codecVars == <<stream, wire, inbound, delivered, consumed, draining, damaged>>

(* Where the packets of a stream begin, and the whole of its bytes. *)
Start(packets, i) ==
    LET at[n \in 1 .. i] == IF n = 1 THEN 0 ELSE at[n - 1] + WireLen(packets[n - 1])
    IN  at[i]

Bytes(packets) ==
    LET upto[n \in 0 .. Len(packets)] ==
            IF n = 0 THEN <<>> ELSE upto[n - 1] \o Encode(packets[n])
    IN  upto[Len(packets)]

(* FakeDevice::feed is given the next bytes, as few or many as a read has. *)
Arrive ==
    /\ ~draining /\ wire # <<>>
    /\ \E n \in 1 .. Len(wire) :
          /\ inbound' = inbound \o SubSeq(wire, 1, n)
          /\ wire' = SubSeq(wire, n + 1, Len(wire))
    /\ draining' = TRUE
    /\ UNCHANGED <<stream, delivered, consumed, damaged>>

Mutant_Consume(n) == inbound' = <<>> /\ consumed' = consumed + n

Consume(n) ==
    /\ inbound' = SubSeq(inbound, n + 1, Len(inbound))
    /\ consumed' = consumed + n

Deliver ==
    /\ draining /\ Decode(inbound).verdict = "Ok"
    /\ delivered' = Append(delivered, [at |-> consumed, packet |-> Decode(inbound).packet])
    /\ Consume(Decode(inbound).consumed)
    /\ UNCHANGED <<stream, wire, draining, damaged>>

Await ==
    /\ draining /\ Decode(inbound).verdict = "Incomplete"
    /\ draining' = FALSE
    /\ UNCHANGED <<stream, wire, inbound, delivered, consumed, damaged>>

Skip ==
    /\ draining /\ Decode(inbound).verdict \notin {"Ok", "Incomplete"}
    /\ Consume(1)
    /\ UNCHANGED <<stream, wire, delivered, draining, damaged>>

(* The line changes one byte, by anything but a multiple of Base - 1: the  *)
(* checksum does not tell 0 from Base - 1.                                 *)
Blind(a, b) == {a, b} = {0, Base - 1}

Damage ==
    /\ ~draining /\ ~damaged /\ wire # <<>>
    /\ \E i \in 1 .. Len(wire), b \in Byte :
          /\ b # wire[i] /\ ~Blind(b, wire[i])
          /\ wire' = [wire EXCEPT ![i] = b]
    /\ damaged' = TRUE
    /\ UNCHANGED <<stream, inbound, delivered, consumed, draining>>

CodecInit ==
    /\ stream \in Streams
    /\ wire = Bytes(stream)
    /\ inbound = <<>> /\ delivered = <<>> /\ consumed = 0
    /\ draining = FALSE /\ damaged = FALSE

CodecNext == Arrive \/ Deliver \/ Await \/ Skip \/ Damage

CodecSpec == CodecInit /\ [][CodecNext]_codecVars

-----------------------------------------------------------------------------
CodecTypeOK ==
    /\ wire \in Seq(Byte) /\ inbound \in Seq(Byte)
    /\ consumed \in Nat
    /\ \A i \in 1 .. Len(delivered) :
          Encodable(delivered[i].packet) /\ delivered[i].at \in 0 .. consumed
    /\ draining \in BOOLEAN /\ damaged \in BOOLEAN

(* However the bytes are cut into reads, what has been delivered of an     *)
(* undamaged stream is its first packets, nothing of it was dropped, and   *)
(* once all has arrived it is all of them.  Payloads that contain the      *)
(* token, a header or a whole packet do not matter.                        *)
StreamSurvivesFragmentation ==
    ~damaged =>
        /\ Len(delivered) <= Len(stream)
        /\ \A i \in 1 .. Len(delivered) :
              delivered[i] = [at |-> Start(stream, i), packet |-> stream[i]]
        /\ wire = <<>> /\ ~draining => Len(delivered) = Len(stream)

(* "callers can read more bytes and retry": while decode waits for more of *)
(* an undamaged stream, it names more bytes than there are and never more  *)
(* than the packet has, and all of them once it has seen the length; so a  *)
(* caller that reads exactly that many neither hangs nor reads ahead.      *)
WaitsForItsPacket ==
    ~damaged /\ ~draining /\ Len(delivered) < Len(stream) =>
        LET need == Decode(inbound).need
            all  == WireLen(stream[Len(delivered) + 1])
        IN  /\ Len(inbound) < need /\ need <= all
            /\ Len(inbound) >= HeaderLen => need = all

(* One damaged byte never passes: what is decoded where the sender began a *)
(* packet is that packet, and not another.                                 *)
DamageNoticed ==
    \A i \in 1 .. Len(stream), j \in 1 .. Len(delivered) :
        delivered[j].at = Start(stream, i) => delivered[j].packet = stream[i]

=============================================================================
