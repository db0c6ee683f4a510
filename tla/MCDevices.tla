------------------------------- MODULE MCDevices -------------------------------
(***************************************************************************)
(* The Unix platform underneath the kernel: the block device of FileDisk   *)
(* with the calls that the file system makes, packets on their way through *)
(* UDP, and the thread pool of Lwt with three jobs; and the network adapter *)
(* of the unikernel.  A behaviour works the disk, or the pool, or the       *)
(* adapter, or sends one packet.                                           *)
(*                                                                         *)
(* The file has a two-sector directory and one data sector, and a write    *)
(* may extend it.  A byte has four values, so that a checksum and a length *)
(* wrap at sixteen; packets are cut at twelve bytes.                       *)
(***************************************************************************)
EXTENDS FileDisk, Packet, LwtPool, MirageNet

CONSTANTS p1, p2

MCImage == <<"dir", "dir", "zero">>

ReadCall(s, n) == [kind |-> "read", sector |-> s, buffer |-> [i \in 1 .. n |-> "zero"]]
WriteCall(s, b) == [kind |-> "write", sector |-> s, buffer |-> b]

MCCalls == [p \in Callers |->
    {ReadCall(0, 2), ReadCall(2, 1), ReadCall(3, 1), WriteCall(0, <<"new", "new">>),
     WriteCall(2, <<"x">>), WriteCall(3, <<"y">>), WriteCall(2, <<"z", "z">>)}]

Payloads == UNION {[1 .. n -> Byte] : n \in 0 .. 2} \cup {[i \in 1 .. n |-> 3] : n \in 3 .. 6}

MCPackets ==
    [kind : {"Data"}, seq : {0, 3}, ack : {0}, src_port : {2, 13}, payload : Payloads] \cup
    [kind : {"Ack"}, seq : {0}, ack : Byte, src_port : {2, 13}, payload : {<<>>}]

(* Ethernet pads a frame whose packet has less than 18 bytes; with an mtu   *)
(* of 56, 28 bytes fill a datagram and 29 are sent in fragments.            *)
MCNetPayloads == {[i \in 1 .. n |-> i] : n \in {0, 1, 7, 8, 17, 18, 19, 24, 28, 29}}

DevicesInit == DiskInit /\ PoolInit /\ NetInit /\ PacketInit

Disk ==
    /\ PacketInit /\ PoolInit /\ NetInit
    /\ DiskNext
    /\ UNCHANGED <<poolvars, netvars, packet>>

Transmit ==
    /\ DiskInit /\ PoolInit /\ NetInit
    /\ \E p \in Packets : SendPacket(p)
    /\ UNCHANGED <<diskvars, poolvars, netvars>>

Pool ==
    /\ PacketInit /\ DiskInit /\ NetInit
    /\ PoolNext
    /\ UNCHANGED <<diskvars, netvars, packet>>

Link ==
    /\ PacketInit /\ DiskInit /\ PoolInit
    /\ NetNext
    /\ UNCHANGED <<diskvars, poolvars, packet>>

DevicesNext == Disk \/ Transmit \/ Pool \/ Link
devicevars == <<diskvars, poolvars, netvars, packet>>

Devices == DevicesInit /\ [][DevicesNext]_devicevars /\ PoolFairness
===============================================================================
