--------------------------------- MODULE Packet ---------------------------------
(***************************************************************************)
(* The packet format of NanoOS (nano_os/lib/packet.ml) and the datagrams   *)
(* that carry it (nano_os/lib/unix/socket_net.ml).  A byte is a number     *)
(* below ByteSize and a packet a sequence of bytes; fields of two bytes    *)
(* are little-endian and keep their value modulo ByteSize^2.               *)
(***************************************************************************)
EXTENDS Integers, Sequences

CONSTANTS
    ByteSize,     \* 256
    MaxDatagram,  \* the largest datagram sendto accepts
    Buffer,       \* the receive buffer of listen, 4096
    Packets       \* the packets that Stack sends: [kind, seq, ack, src_port, payload]

VARIABLE packet   \* the packet that is sent

version == 1
header_len == 10

Byte == 0 .. (ByteSize - 1)
Word == 0 .. (ByteSize * ByteSize - 1)

(* The datagrams of UDP and the buffer of listen hold a header at least,    *)
(* and a sequence number has one byte.                                      *)
ASSUME PacketAssumption ==
    /\ ByteSize \in Nat \ {0, 1}
    /\ MaxDatagram \in Word
    /\ Buffer \in Nat /\ header_len <= Buffer
    /\ \A p \in Packets : p \in [kind : {"Data", "Ack"}, seq : Byte, ack : Byte, src_port : Word,
                                payload : Seq(Byte)]

(* What set_uint8 stores of a value, and set_uint16 in its first and its    *)
(* second byte: the low bits.                                               *)
low(n) == n % ByteSize
high(n) == (n \div ByteSize) % ByteSize
get_uint16(bytes, i) == bytes[i + 1] + ByteSize * bytes[i + 2]

int_of_kind == [Data |-> 0, Ack |-> 1]
kind_of_int == <<"Data", "Ack">>

checksum_bytes(bytes) ==
    LET sum[n \in 0 .. Len(bytes)] ==
            IF n = 0 THEN 0 ELSE (sum[n - 1] + bytes[n]) % (ByteSize * ByteSize)
    IN  sum[Len(bytes)]

(* The header up to the checksum. *)
Fields(kind, seq, ack, src_port, payload) ==
    <<low(version), low(kind), low(seq), low(ack), low(src_port), high(src_port),
      low(Len(payload)), high(Len(payload))>>

(* Mutant: only the payload is summed. *)
ChecksumOfPayload(kind, seq, ack, src_port, payload) == checksum_bytes(payload)

checksum_from_parts(kind, seq, ack, src_port, payload) ==
    checksum_bytes(Fields(kind, seq, ack, src_port, payload) \o payload)

encode(p) ==
    LET kind == int_of_kind[p.kind]
        sum == checksum_from_parts(kind, p.seq, p.ack, p.src_port, p.payload)
    IN  Fields(kind, p.seq, p.ack, p.src_port, p.payload) \o (<<low(sum), high(sum)>> \o p.payload)

(* The packet that the bytes carry when every check of decode is passed. *)
Carried(bytes) ==
    [kind |-> kind_of_int[bytes[2] + 1], seq |-> bytes[3], ack |-> bytes[4],
     src_port |-> get_uint16(bytes, 4), payload |-> SubSeq(bytes, header_len + 1, Len(bytes))]

Error(why) == [error |-> why]

(* Mutant: the declared length is not compared. *)
DecodeAnyLength(bytes) ==
    IF Len(bytes) < header_len THEN Error("Truncated")
    ELSE IF bytes[1] # version THEN Error("Bad_version")
    ELSE IF bytes[2] \notin {0, 1} THEN Error("Bad_kind")
    ELSE [ok |-> Carried(bytes)]

decode(bytes) ==
    IF Len(bytes) < header_len THEN Error("Truncated")
    ELSE IF bytes[1] # version THEN Error("Bad_version")
    ELSE IF bytes[2] \notin {0, 1} THEN Error("Bad_kind")
    ELSE IF get_uint16(bytes, 6) # Len(bytes) - header_len THEN Error("Length_mismatch")
    ELSE IF get_uint16(bytes, 8) #
              checksum_from_parts(bytes[2], bytes[3], bytes[4], get_uint16(bytes, 4),
                                  Carried(bytes).payload)
         THEN Error("Checksum_mismatch")
    ELSE [ok |-> Carried(bytes)]

(* Socket_net.write: sendto fails on a datagram that is too long, which     *)
(* the try around it does not catch.                                        *)
write(bytes) == IF Len(bytes) > MaxDatagram THEN Error("Message_too_long") ELSE [sent |-> bytes]

(* Socket_net.listen: what does not fit the buffer is cut off.              *)
listen(bytes) == SubSeq(bytes, 1, IF Len(bytes) > Buffer THEN Buffer ELSE Len(bytes))

(* What the peer makes of a packet. *)
Transmitted(p) ==
    LET w == write(encode(p))
    IN  IF "error" \in DOMAIN w THEN w ELSE decode(listen(w.sent))

NoPacket == [kind |-> "none"]

PacketInit == packet = NoPacket

SendPacket(p) ==
    /\ packet = NoPacket
    /\ packet' = p

PacketSpec == PacketInit /\ [][\E p \in Packets : SendPacket(p)]_packet

-------------------------------------------------------------------------------
(* Every packet that Stack sends arrives as it was sent if it fits the      *)
(* receive buffer, and is rejected otherwise: a truncated packet is never   *)
(* taken for another one, although the length field has only two bytes      *)
(* (decode and listen).                                                     *)
PacketsArriveWhole ==
    packet # NoPacket =>
        LET size == header_len + Len(packet.payload)
        IN  Transmitted(packet) =
              IF size > MaxDatagram THEN Error("Message_too_long")
              ELSE IF size > Buffer THEN Error("Length_mismatch")
              ELSE [ok |-> packet]

(* No damaged packet is accepted that differs in one byte, wherever that    *)
(* byte is (decode checks every field, or the sum of them).                 *)
DamageNoticed ==
    packet # NoPacket =>
        LET bytes == encode(packet)
        IN  \A i \in 1 .. Len(bytes) : \A b \in Byte :
                b # bytes[i] => "error" \in DOMAIN decode([bytes EXCEPT ![i] = b])
===============================================================================
