------------------------------ MODULE MCNanoStack ------------------------------
(***************************************************************************)
(* Instances of NanoStack.  OneWay: a client sends every message to the    *)
(* server.  Chain: the client sends m1 and m2 to the server while the      *)
(* server sends m3 to a peer, so that the server is sender and receiver;   *)
(* with one sequence number, m2 uses again the number of m1.               *)
(***************************************************************************)
EXTENDS NanoStack

CONSTANTS client, server, peer, m1, m2, m3

OneWaySrc == [m \in Msgs |-> client]
OneWayDst == [m \in Msgs |-> server]

ChainSrc == [m \in Msgs |-> IF m = m3 THEN server ELSE client]
ChainDst == [m \in Msgs |-> IF m = m3 THEN peer ELSE server]

(* A new message takes a number that no open send and no packet has, but    *)
(* the receiver may remember it: 256 messages in 30 seconds, each of them   *)
(* acknowledged and gone before the next.                                   *)
UnusedNext == Steps \/ \E m \in Msgs : Unused(Src[m], next_seq[Src[m]]) /\ Send(m)
UnusedSpec == Init /\ [][UnusedNext]_vars /\ Fairness
===============================================================================
