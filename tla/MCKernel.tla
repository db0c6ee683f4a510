-------------------------------- MODULE MCKernel --------------------------------
(***************************************************************************)
(* The kernel, or what is underneath it: a behaviour is one of Kernel, or  *)
(* of one of the devices.                                                  *)
(*                                                                         *)
(* The kernel is given two commands and restarts once, so that each        *)
(* command can be executed twice.  All its responses share one number.     *)
(***************************************************************************)
EXTENDS Kernel, MCDevices

CONSTANTS client, server, m1, m2, r1, s1, r2, s2

MCScript == <<m1, m2>>
MCResponses == [m \in Commands |-> IF m = m1 THEN <<r1, s1>> ELSE <<r2, s2>>]
MCSrc == [m \in Msgs |-> IF m \in {m1, m2} THEN client ELSE server]
MCDst == [m \in Msgs |-> IF m \in {m1, m2} THEN server ELSE client]

MachineInit == KernelInit /\ DevicesInit

RunKernel ==
    /\ DevicesInit
    /\ KernelNext
    /\ UNCHANGED devicevars

RunDevices ==
    /\ KernelInit
    /\ DevicesNext
    /\ UNCHANGED all

Machine ==
    /\ MachineInit /\ [][RunKernel \/ RunDevices]_<<all, devicevars>>
    /\ KernelFairness /\ PoolFairness
===============================================================================
