------------------------------- MODULE MirageNet -------------------------------
(***************************************************************************)
(* The network adapter of the unikernel (mirage/unikernel.ml): it frames   *)
(* the kernel's packets in UDP, IP and Ethernet by hand, takes them out of *)
(* frames that arrive, answers ARP and learns the address of the host.     *)
(* The host at the other end of the link is external: it sends correct     *)
(* frames, with IP options, padding and fragments as the standards allow.  *)
(*                                                                         *)
(* A frame is a sequence of bytes, and an offset is that of the code.      *)
(***************************************************************************)
EXTENDS Integers, Sequences

CONSTANTS
    NetPayloads,    \* the packets that host and kernel send, as bytes
    mtu          \* the largest IP datagram of the link, in bytes

VARIABLES
    host_mac,     \* the learned address, broadcast_mac before
    netif,        \* <<>>, or what the host has put on the link: <<message>>
    given,    \* <<>>, or what the last frame gave to the callback: <<payload>>
    sent,         \* <<>>, or the last frame that the kernel sent, and what for
    heard,        \* the host has sent something to this kernel (history)
    stopped       \* an exception has left the callback of Netif.listen

netvars == <<host_mac, netif, given, sent, heard, stopped>>

Octet == {n \in Nat : n < 256}
TwoBytes == 256 * 256

(* Ethernet carries 46 bytes at least, and the length field of IP limits a  *)
(* datagram, which may have four bytes of options.                          *)
ASSUME NetAssumption ==
    /\ mtu \in Nat /\ 46 <= mtu /\ mtu < TwoBytes
    /\ \A payload \in NetPayloads : payload \in Seq(Octet) /\ 32 + Len(payload) < TwoBytes

-------------------------------------------------------------------------------
uint8(buf, i) == buf[i + 1]
uint16(buf, i) == 256 * buf[i + 1] + buf[i + 2]
sub(buf, i, n) == SubSeq(buf, i + 1, i + n)
upper(v) == (v \div 256) % 256
lower(v) == v % 256

my_ip == <<10, 0, 0, 2>>
host_ip == <<10, 0, 0, 1>>
my_mac == <<186, 45, 134, 102, 101, 46>>
broadcast_mac == <<255, 255, 255, 255, 255, 255>>
ArpType == <<8, 6>>
IpType == <<8, 0>>

Ethernet(to, from, type) == to \o from \o type

SumOfWords(cs) ==
    LET sum[n \in 0 .. (Len(cs) \div 2)] ==
            IF n = 0 THEN 0 ELSE sum[n - 1] + uint16(cs, (n - 1) * 2)
    IN  sum[Len(cs) \div 2]

checksum_ip(cs) ==
    LET sum == SumOfWords(cs)
        folded == (sum \div TwoBytes) + (sum % TwoBytes)
    IN  TwoBytes - 1 - ((folded + (folded \div TwoBytes)) % TwoBytes)

IpFields(length, sum) ==
    <<69, 0, upper(length), lower(length), 0, 0, 0, 0, 64, 17, upper(sum), lower(sum)>>
    \o my_ip \o host_ip

(* Mutant: the length of the IP datagram leaves out the UDP header.         *)
IpHeaderShort(payload_len) ==
    LET length == 20 + payload_len IN IpFields(length, checksum_ip(IpFields(length, 0)))

IpHeader(payload_len) ==
    LET length == 20 + 8 + payload_len IN IpFields(length, checksum_ip(IpFields(length, 0)))

UdpHeader(src_port, dst_port, payload_len) ==
    <<upper(src_port), lower(src_port), upper(dst_port), lower(dst_port),
      upper(8 + payload_len), lower(8 + payload_len), 0, 0>>

Frame(payload) ==
    Ethernet(host_mac, my_mac, IpType) \o IpHeader(Len(payload))
    \o UdpHeader(8080, 1234, Len(payload)) \o payload

ArpReply(buf) ==
    Ethernet(sub(buf, 6, 6), my_mac, ArpType)
    \o <<0, 1, 8, 0, 6, 4, 0, 2>> \o my_mac \o my_ip \o sub(buf, 6, 6) \o sub(buf, 28, 4)

-------------------------------------------------------------------------------
(* The host.  What it sends is an ARP request, a datagram of some protocol  *)
(* and port, or the first fragment of a datagram above the mtu.             *)

HostMac == <<2, 0, 0, 0, 0, 1>>

ArpRequest(ip) == [kind |-> "arp", ip |-> ip]

Messages ==
    {ArpRequest(ip) : ip \in {my_ip, host_ip}}
    \cup [kind : {"ip"}, proto : {17}, port : {8080, 53}, options : {0, 4},
          padded : BOOLEAN, payload : NetPayloads]
    \cup [kind : {"ip"}, proto : {6}, port : {8080}, options : {0},
          padded : BOOLEAN, payload : {<<>>}]

ForPort(m) == m.kind = "ip" /\ m.proto = 17 /\ m.port = 8080

ForKernel(m) == ForPort(m) \/ m = ArpRequest(my_ip)

IpLength(m) == 28 + m.options + Len(m.payload)

Fragmented(m) == m.kind = "ip" /\ IpLength(m) > mtu

Pad(frame) == frame \o [i \in 1 .. (IF Len(frame) < 60 THEN 60 - Len(frame) ELSE 0) |-> 0]

ArpFrame(ip) ==
    Ethernet(broadcast_mac, HostMac, ArpType)
    \o <<0, 1, 8, 0, 6, 4, 0, 1>> \o HostMac \o host_ip \o <<0, 0, 0, 0, 0, 0>> \o ip

(* How much of UDP the first datagram holds: a multiple of eight bytes if   *)
(* it is a fragment.                                                        *)
InFirst(m) ==
    IF Fragmented(m) THEN ((mtu - 20 - m.options) \div 8) * 8 ELSE 8 + Len(m.payload)

(* The checksums of the host's datagrams are left out: nothing looks at     *)
(* them.                                                                    *)
HostIpHeader(m) ==
    LET length == 20 + m.options + InFirst(m)
    IN  <<64 + (20 + m.options) \div 4, 0, upper(length), lower(length),
          0, 0, IF Fragmented(m) THEN 32 ELSE 0, 0, 64, m.proto, 0, 0>>
        \o host_ip \o my_ip \o [i \in 1 .. m.options |-> 1]

IpFrame(m) ==
    Ethernet(my_mac, HostMac, IpType) \o HostIpHeader(m)
    \o sub(UdpHeader(1234, m.port, Len(m.payload)) \o m.payload, 0, InFirst(m))

HostFrame(m) ==
    IF m.kind = "arp" THEN ArpFrame(m.ip)
    ELSE IF m.padded THEN Pad(IpFrame(m)) ELSE IpFrame(m)

HostSends(m) ==
    /\ netif = <<>> /\ ~stopped
    /\ netif' = <<m>>
    /\ UNCHANGED <<host_mac, given, sent, heard, stopped>>

-------------------------------------------------------------------------------
IsArpRequest(buf) ==
    /\ Len(buf) >= 42
    /\ sub(buf, 12, 2) = ArpType
    /\ uint16(buf, 20) = 1
    /\ sub(buf, 38, 4) = my_ip

udp_start(buf) == 14 + (uint8(buf, 14) % 16) * 4

IsForPort(buf) ==
    /\ Len(buf) >= 34
    /\ sub(buf, 12, 2) = IpType
    /\ uint8(buf, 23) = 17
    /\ Len(buf) >= udp_start(buf) + 8
    /\ uint16(buf, udp_start(buf) + 2) = 8080

(* The host's address is learned once.                                      *)
Learn(buf) == host_mac' = IF host_mac = broadcast_mac THEN sub(buf, 6, 6) ELSE host_mac

(* Mutant: the packet is what the frame has behind the headers.             *)
DeliverToTheEnd(buf) ==
    /\ given' = <<sub(buf, udp_start(buf) + 8, Len(buf) - udp_start(buf) - 8)>>
    /\ UNCHANGED stopped

(* Cstruct.sub raises unless the buffer has the bytes, and the exception    *)
(* goes to Lwt.async, which ends the program.                               *)
Deliver(buf) ==
    LET start == udp_start(buf) + 8
        payload_len == uint16(buf, udp_start(buf) + 4) - 8
    IN  IF payload_len >= 0 /\ start + payload_len <= Len(buf)
        THEN given' = <<sub(buf, start, payload_len)>> /\ UNCHANGED stopped
        ELSE stopped' = TRUE /\ given' = <<>>

Net_listen ==
    /\ netif # <<>>
    /\ netif' = <<>>
    /\ heard' = (heard \/ ForKernel(netif[1]))
    /\ LET buf == HostFrame(netif[1])
       IN  \/ /\ IsArpRequest(buf)
              /\ Learn(buf)
              /\ sent' = <<[frame |-> ArpReply(buf), kind |-> "arp", payload |-> <<>>]>>
              /\ given' = <<>>
              /\ UNCHANGED stopped
           \/ /\ IsForPort(buf)
              /\ Learn(buf)
              /\ Deliver(buf)
              /\ UNCHANGED sent
           \/ /\ ~IsArpRequest(buf) /\ ~IsForPort(buf)
              /\ given' = <<>>
              /\ UNCHANGED <<host_mac, sent, stopped>>

(* Netif.write has an error for a frame that the link does not take, and    *)
(* nothing is sent.                                                         *)
Net_write(payload) ==
    /\ ~stopped
    /\ 28 + Len(payload) <= mtu
    /\ sent' = <<[frame |-> Frame(payload), kind |-> "ip", payload |-> payload]>>
    /\ UNCHANGED <<host_mac, netif, given, heard, stopped>>

NetInit ==
    /\ host_mac = broadcast_mac
    /\ netif = <<>> /\ given = <<>> /\ sent = <<>>
    /\ heard = FALSE /\ stopped = FALSE

NetNext ==
    \/ \E m \in Messages : HostSends(m)
    \/ Net_listen
    \/ \E payload \in NetPayloads : Net_write(payload)

NetSpec == NetInit /\ [][NetNext]_netvars

-------------------------------------------------------------------------------
(* What the host's IP and UDP make of a frame: the payload for port 1234.   *)
HostTakes(frame) ==
    LET total == uint16(frame, 16)
    IN  IF /\ sub(frame, 12, 2) = IpType
           /\ uint8(frame, 14) = 69 /\ total = Len(frame) - 14
           /\ SumOfWords(sub(frame, 14, 20)) % (TwoBytes - 1) = 0
           /\ uint8(frame, 23) = 17
           /\ sub(frame, 30, 4) = host_ip
           /\ uint16(frame, 36) = 1234 /\ uint16(frame, 38) = total - 20
        THEN <<sub(frame, 42, total - 28)>>
        ELSE <<>>

(* Every datagram for the kernel's port reaches the callback as it was      *)
(* sent, whatever options and padding it comes with, and nothing else does. *)
(* Fragments are left out: they are not put together again, and the first   *)
(* one stops the kernel.                                                    *)
PacketsReachCallback ==
    [][(netif # <<>> /\ netif' = <<>>) =>
        /\ given' = IF ForPort(netif[1]) /\ ~Fragmented(netif[1])
                        THEN <<netif[1].payload>> ELSE <<>>
        /\ stopped' => Fragmented(netif[1])]_netvars

(* Every frame that the kernel sends is taken by the host for what it is:   *)
(* its lengths agree, its checksum holds, and it carries the payload; once  *)
(* the host was heard, no frame is sent to anyone else.                     *)
HostUnderstands ==
    [][sent' # sent =>
        LET out == sent'[1]
        IN  /\ sub(out.frame, 0, 6) \in {HostMac} \cup (IF heard THEN {} ELSE {broadcast_mac})
            /\ out.kind = "ip" => HostTakes(out.frame) = <<out.payload>>
            /\ out.kind = "arp" =>
                  /\ sub(out.frame, 12, 2) = ArpType /\ uint16(out.frame, 20) = 2
                  /\ sub(out.frame, 22, 10) = my_mac \o my_ip
                  /\ sub(out.frame, 32, 10) = HostMac \o host_ip]_netvars
===============================================================================
