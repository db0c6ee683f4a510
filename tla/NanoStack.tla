------------------------------- MODULE NanoStack -------------------------------
(***************************************************************************)
(* The transport of NanoOS (nano_os/lib/stack.ml) over a datagram network  *)
(* that loses, duplicates, delays and reorders packets.                    *)
(*                                                                         *)
(* Time is kept as ages that Tick advances: a packet lives Lifetime ticks, *)
(* a sender waits one tick for each attempt (the back-off of               *)
(* timeout_for_attempt only scales that), and the receiver remembers a     *)
(* sequence number for Window ticks.  A timer that is due and a write that *)
(* was issued run before the next tick.                                    *)
(*                                                                         *)
(* Packets that do not decode are dropped by listen like lost ones and are *)
(* not modelled.                                                           *)
(***************************************************************************)
EXTENDS Naturals, FiniteSets

CONSTANTS
    Msgs,        \* the messages that will be sent, each by one call of send
    Src, Dst,    \* the port each message comes from and goes to
    SeqMod,      \* 256 in the code
    MaxRetries,  \* config.max_retries
    Window,      \* config.dedupe_window_s
    Lifetime,    \* how long the network keeps a packet
    Restarting   \* the hosts that may restart

Hosts == {Src[m] : m \in Msgs} \cup {Dst[m] : m \in Msgs}
Seqs == 0 .. (SeqMod - 1)

None == "none"

ASSUME StackAssumption ==
    /\ SeqMod \in Nat \ {0}
    /\ MaxRetries \in Nat /\ Window \in Nat \ {0} /\ Lifetime \in Nat
    /\ Restarting \subseteq Hosts
    /\ None \notin Msgs

VARIABLES
    next_seq,      \* next_seq[h]
    pending_acks,  \* pending_acks[h][q]: the send whose awakener is stored
    seen_data,     \* seen_data[h]: ages of the (src_port, seq) remembered
    send,          \* the state of each call of send
    net,           \* the packets in the network
    got            \* history: how often listen's callback was given a message

vars == <<next_seq, pending_acks, seen_data, send, net, got>>

Open(m) == send[m].st \in {"write", "wait"}

DataPacket(m) == [kind |-> "data", msg |-> m, seq |-> send[m].seq, age |-> 0]
AckPacket(h, q) == [kind |-> "ack", to |-> h, seq |-> q, age |-> 0]

Forgotten == Window + 1

Init ==
    /\ next_seq \in [Hosts -> Seqs]
    /\ pending_acks = [h \in Hosts |-> [q \in Seqs |-> None]]
    /\ seen_data = [h \in Hosts |-> [k \in Hosts \X Seqs |-> Forgotten]]
    /\ send = [m \in Msgs |-> [st |-> "new", seq |-> 0, attempt |-> 0,
                               acked |-> FALSE, age |-> 0]]
    /\ net = {}
    /\ got = [m \in Msgs |-> 0]

(* The start of send: the sequence number is taken and the awakener stored  *)
(* in place of any other under that number.                                 *)
Send(m) ==
    LET h == Src[m]
        q == next_seq[h]
    IN  /\ send[m].st = "new"
        /\ send' = [send EXCEPT ![m].st = "write", ![m].seq = q]
        /\ next_seq' = [next_seq EXCEPT ![h] = (q + 1) % SeqMod]
        /\ pending_acks' = [pending_acks EXCEPT ![h][q] = m]
        /\ UNCHANGED <<seen_data, net, got>>

(* Mutant: a send that returns leaves its awakener behind. *)
CleanupNothing(m) == UNCHANGED pending_acks

cleanup_pending(m) ==
    pending_acks' = [pending_acks EXCEPT ![Src[m]][send[m].seq] = None]

Return(m, outcome) ==
    /\ send' = [send EXCEPT ![m].st = outcome, ![m].acked = FALSE, ![m].age = 0]
    /\ cleanup_pending(m)

(* N.write completes; an ACK that came during the write is found at once.   *)
Write(m) ==
    /\ send[m].st = "write"
    /\ net' = net \cup {DataPacket(m)}
    /\ IF send[m].acked THEN Return(m, "ok")
       ELSE /\ send' = [send EXCEPT ![m].st = "wait", ![m].age = 0]
            /\ UNCHANGED pending_acks
    /\ UNCHANGED <<next_seq, seen_data, got>>

WriteError(m) ==
    /\ send[m].st = "write"
    /\ Return(m, "failed")
    /\ UNCHANGED <<next_seq, seen_data, net, got>>

(* Mutants of Timeout: the attempts are not counted, one more is allowed,   *)
(* and the awakener is removed before a retry.                              *)
TimeoutUncounted(m) ==
    /\ send[m].st = "wait" /\ send[m].age = 1
    /\ send' = [send EXCEPT ![m].st = "write"]
    /\ UNCHANGED <<pending_acks, next_seq, seen_data, net, got>>

TimeoutOnceMore(m) ==
    /\ send[m].st = "wait" /\ send[m].age = 1
    /\ IF send[m].attempt > MaxRetries THEN Return(m, "failed")
       ELSE /\ send' = [send EXCEPT ![m].st = "write", ![m].attempt = @ + 1]
            /\ UNCHANGED pending_acks
    /\ UNCHANGED <<next_seq, seen_data, net, got>>

TimeoutUnregisters(m) ==
    /\ send[m].st = "wait" /\ send[m].age = 1
    /\ cleanup_pending(m)
    /\ send' = IF send[m].attempt >= MaxRetries THEN [send EXCEPT ![m].st = "failed"]
               ELSE [send EXCEPT ![m].st = "write", ![m].attempt = @ + 1]
    /\ UNCHANGED <<next_seq, seen_data, net, got>>

Timeout(m) ==
    /\ send[m].st = "wait"
    /\ send[m].age = 1
    /\ IF send[m].attempt >= MaxRetries THEN Return(m, "failed")
       ELSE /\ send' = [send EXCEPT ![m].st = "write", ![m].attempt = @ + 1]
            /\ UNCHANGED pending_acks
    /\ UNCHANGED <<next_seq, seen_data, net, got>>

(* listen, ACK: whoever is stored under the number is woken.                *)
ReceiveAck(p) ==
    /\ p.kind = "ack"
    /\ LET m == pending_acks[p.to][p.seq]
       IN  /\ m # None
           /\ pending_acks' = [pending_acks EXCEPT ![p.to][p.seq] = None]
           /\ send' = IF send[m].st = "wait"
                      THEN [send EXCEPT ![m].st = "ok", ![m].age = 0]
                      ELSE [send EXCEPT ![m].acked = TRUE]
    /\ UNCHANGED <<next_seq, seen_data, net, got>>

(* Mutant: duplicates are not recognised. *)
RememberedNever(h, src, q) == FALSE

Remembered(h, src, q) == seen_data[h][<<src, q>>] <= Window

(* listen, Data: it is always acknowledged, and passed on unless it is      *)
(* remembered.                                                              *)
ReceiveData(p) ==
    /\ p.kind = "data"
    /\ LET h == Dst[p.msg]
           src == Src[p.msg]
       IN  /\ net' = net \cup {AckPacket(src, p.seq)}
           /\ IF Remembered(h, src, p.seq) THEN UNCHANGED <<seen_data, got>>
              ELSE /\ seen_data' = [seen_data EXCEPT ![h][<<src, p.seq>>] = 0]
                   /\ got' = [got EXCEPT ![p.msg] = @ + 1]
    /\ UNCHANGED <<next_seq, pending_acks, send>>

(* The network loses a packet; a packet that was received and is not lost   *)
(* will be received again.                                                  *)
Lose(p) ==
    /\ net' = net \ {p}
    /\ UNCHANGED <<next_seq, pending_acks, seen_data, send, got>>

Older(p) == [p EXCEPT !.age = @ + 1]

Tick ==
    /\ \A m \in Msgs : send[m].st # "write" /\ ~(send[m].st = "wait" /\ send[m].age = 1)
    /\ send' = [m \in Msgs |-> IF send[m].st = "wait" THEN [send[m] EXCEPT !.age = 1]
                               ELSE send[m]]
    /\ net' = {Older(p) : p \in {q \in net : q.age < Lifetime}}
    /\ seen_data' = [h \in Hosts |-> [k \in Hosts \X Seqs |->
                        IF seen_data[h][k] < Forgotten THEN seen_data[h][k] + 1
                        ELSE Forgotten]]
    /\ UNCHANGED <<next_seq, pending_acks, got>>

(* A host restarts: create makes new tables and draws a new next_seq.       *)
Restart(h) ==
    /\ h \in Restarting
    /\ \E q \in Seqs : next_seq' = [next_seq EXCEPT ![h] = q]
    /\ pending_acks' = [pending_acks EXCEPT ![h] = [q \in Seqs |-> None]]
    /\ seen_data' = [seen_data EXCEPT ![h] = [k \in Hosts \X Seqs |-> Forgotten]]
    /\ send' = [m \in Msgs |->
                  IF Src[m] = h /\ send[m].st \in {"write", "wait"}
                  THEN [send[m] EXCEPT !.st = "failed", !.acked = FALSE, !.age = 0]
                  ELSE send[m]]
    /\ UNCHANGED <<net, got>>

Network == \E p \in net : ReceiveAck(p) \/ ReceiveData(p) \/ Lose(p)

Progress(m) == Write(m) \/ WriteError(m) \/ Timeout(m)

Steps == Network \/ Tick \/ (\E m \in Msgs : Progress(m)) \/ \E h \in Hosts : Restart(h)

Next == Steps \/ \E m \in Msgs : Send(m)

(* Lwt runs a timer that is due and a continuation that is ready, and time  *)
(* goes on.                                                                 *)
Fairness ==
    /\ WF_vars(Tick)
    /\ \A m \in Msgs : WF_vars(Progress(m))

Spec == Init /\ [][Next]_vars /\ Fairness

(* No open send and no packet has the number. *)
Unused(h, q) ==
    /\ \A m \in Msgs : ~(Open(m) /\ Src[m] = h /\ send[m].seq = q)
    /\ \A p \in net : ~(p.seq = q /\ (IF p.kind = "ack" THEN p.to ELSE Src[p.msg]) = h)

(* A number is free for a new message once no send, packet or receiver can  *)
(* confuse it with an older one.                                            *)
Free(h, q) == Unused(h, q) /\ \A d \in Hosts : seen_data[d][<<h, q>>] = Forgotten

(* The hosts send fewer than SeqMod messages in the time a number needs to  *)
(* become free.                                                             *)
PacedSend(m) == Free(Src[m], next_seq[Src[m]]) /\ Send(m)
PacedNext == Steps \/ \E m \in Msgs : PacedSend(m)
Paced == Init /\ [][PacedNext]_vars /\ Fairness

-------------------------------------------------------------------------------
(* Properties. *)

States == {"new", "write", "wait", "ok", "failed"}
SendState == [st : States, seq : Seqs, attempt : 0 .. MaxRetries, acked : BOOLEAN, age : {0, 1}]
DataPackets == [kind : {"data"}, msg : Msgs, seq : Seqs, age : 0 .. Lifetime]
AckPackets == [kind : {"ack"}, to : Hosts, seq : Seqs, age : 0 .. Lifetime]

(* The type of the state: a send keeps at most one attempt more than        *)
(* max_retries, a table slot names a message of its own host.               *)
TypeOK ==
    /\ next_seq \in [Hosts -> Seqs]
    /\ pending_acks \in [Hosts -> [Seqs -> Msgs \cup {None}]]
    /\ seen_data \in [Hosts -> [Hosts \X Seqs -> 0 .. Forgotten]]
    /\ send \in [Msgs -> SendState]
    /\ net \subseteq DataPackets \cup AckPackets
    /\ got \in [Msgs -> Nat]

(* A send that waits for its ACK can be woken by it: the awakener stored    *)
(* under its number is its own ("Ensure only one waiter per seq.",          *)
(* stack.ml:102), whatever other sends return or time out.                  *)
WaiterRegistered ==
    \A m \in Msgs : Open(m) /\ ~send[m].acked => pending_acks[Src[m]][send[m].seq] = m

(* No awakener outlives its send: an ACK wakes a send that still waits.     *)
NoStaleWaiter ==
    \A h \in Hosts, q \in Seqs, m \in Msgs :
        pending_acks[h][q] = m => Open(m) /\ Src[m] = h /\ send[m].seq = q

(* "Reliable transport (ACK + retry + dedupe)" (nano_os/README.md:35): when *)
(* send returned Ok, the callback of the receiver was given the message.    *)
AckedIsDelivered == \A m \in Msgs : send[m].st = "ok" => got[m] > 0

(* Every send returns, with Ok or an error, whatever the network loses.     *)
SendReturns == \A m \in Msgs : Open(m) ~> ~Open(m)

outcomes == [m \in Msgs |-> IF Open(m) THEN "open" ELSE send[m].st]

Promise == INSTANCE Delivery WITH outcome <- outcomes

(* While the hosts are paced the transport implements Delivery: no message  *)
(* is delivered twice or acknowledged without being delivered.              *)
ImplementsDelivery == Promise!Spec
===============================================================================
