---------------------------- MODULE NanoStackProofs ----------------------------
(***************************************************************************)
(* Proofs about NanoStack, for any messages, hosts, modulus of the         *)
(* sequence numbers, and any number of retries.                            *)
(***************************************************************************)
EXTENDS NanoStack, TLAPS

LEMMA ConstantsTyped ==
    /\ \A m \in Msgs : Src[m] \in Hosts /\ Dst[m] \in Hosts
    /\ Forgotten \in Nat /\ Forgotten = Window + 1 /\ Window \in Nat
    /\ Lifetime \in Nat /\ MaxRetries \in Nat /\ None \notin Msgs
    /\ 0 \in Seqs /\ \A q \in Seqs : (q + 1) % SeqMod \in Seqs
  BY StackAssumption DEF Hosts, Forgotten, Seqs

(* A record of send with some of its fields changed.                        *)
LEMMA RecordReturned ==
    ASSUME NEW r \in SendState, NEW outcome \in {"ok", "failed"}
    PROVE  [r EXCEPT !.st = outcome, !.acked = FALSE, !.age = 0] \in SendState
<1>1. PICK seq \in Seqs, attempt \in 0 .. MaxRetries :
         /\ seq = r.seq /\ attempt = r.attempt
         /\ DOMAIN r = {"st", "seq", "attempt", "acked", "age"}
  BY DEF SendState
<1> QED BY <1>1 DEF SendState, States

LEMMA RecordBegun ==
    ASSUME NEW r \in SendState, NEW q \in Seqs
    PROVE  [r EXCEPT !.st = "write", !.seq = q] \in SendState
<1>1. PICK attempt \in 0 .. MaxRetries, acked \in BOOLEAN, age \in {0, 1} :
         /\ attempt = r.attempt /\ acked = r.acked /\ age = r.age
         /\ DOMAIN r = {"st", "seq", "attempt", "acked", "age"}
  BY DEF SendState
<1> QED BY <1>1 DEF SendState, States

LEMMA ReturnTyped ==
    ASSUME TypeOK, NEW m \in Msgs, NEW outcome \in {"ok", "failed"}, Return(m, outcome)
    PROVE  /\ send' \in [Msgs -> SendState]
           /\ pending_acks' \in [Hosts -> [Seqs -> Msgs \cup {None}]]
<1>1. send \in [Msgs -> SendState] BY DEF TypeOK
<1>2. send' \in [Msgs -> SendState]
  <2>1. send' = [send EXCEPT ![m] = [@ EXCEPT !.st = outcome, !.acked = FALSE, !.age = 0]]
    BY DEF Return
  <2>2. [send[m] EXCEPT !.st = outcome, !.acked = FALSE, !.age = 0] \in SendState
    BY <1>1, RecordReturned
  <2> QED BY <1>1, <2>1, <2>2
<1>3. pending_acks' \in [Hosts -> [Seqs -> Msgs \cup {None}]]
  BY DEF Return, cleanup_pending, TypeOK
<1> QED BY <1>2, <1>3

(* A step of a send that goes on keeps its type.                            *)
LEMMA SendGoesOn ==
    ASSUME TypeOK, NEW m \in Msgs
    PROVE  /\ [send EXCEPT ![m].st = "wait", ![m].age = 0] \in [Msgs -> SendState]
           /\ [send EXCEPT ![m].st = "ok", ![m].age = 0] \in [Msgs -> SendState]
           /\ [send EXCEPT ![m].acked = TRUE] \in [Msgs -> SendState]
           /\ send[m].attempt < MaxRetries =>
                 [send EXCEPT ![m].st = "write", ![m].attempt = @ + 1] \in [Msgs -> SendState]
<1>0. send \in [Msgs -> SendState] BY DEF TypeOK
<1>1. [send EXCEPT ![m].st = "wait", ![m].age = 0] \in [Msgs -> SendState]
  BY <1>0 DEF SendState, States
<1>2. [send EXCEPT ![m].st = "ok", ![m].age = 0] \in [Msgs -> SendState]
  BY <1>0 DEF SendState, States
<1>3. [send EXCEPT ![m].acked = TRUE] \in [Msgs -> SendState]
  BY <1>0 DEF SendState, States
<1>4. ASSUME send[m].attempt < MaxRetries
      PROVE  [send EXCEPT ![m].st = "write", ![m].attempt = @ + 1] \in [Msgs -> SendState]
  <2>1. send[m].attempt + 1 \in 0 .. MaxRetries BY <1>0, <1>4, ConstantsTyped DEF SendState
  <2> QED BY <1>0, <2>1 DEF SendState, States
<1> QED BY <1>1, <1>2, <1>3, <1>4

LEMMA PacketsTyped ==
    ASSUME TypeOK
    PROVE  /\ \A m \in Msgs : DataPacket(m) \in DataPackets
           /\ \A h \in Hosts, q \in Seqs : AckPacket(h, q) \in AckPackets
           /\ \A p \in net : p.kind = "data" => p \in DataPackets
           /\ \A p \in net : p.kind = "ack" => p \in AckPackets
           /\ \A p \in net : p.age < Lifetime => Older(p) \in DataPackets \cup AckPackets
<1> USE ConstantsTyped
<1>1. \A m \in Msgs : DataPacket(m) \in DataPackets
  BY DEF TypeOK, SendState, DataPacket, DataPackets
<1>2. \A h \in Hosts, q \in Seqs : AckPacket(h, q) \in AckPackets
  BY DEF AckPacket, AckPackets
<1>3. \A p \in net : p \in DataPackets \/ p \in AckPackets
  BY DEF TypeOK
<1>4. \A p \in DataPackets : p.kind = "data" BY DEF DataPackets
<1>5. \A p \in AckPackets : p.kind = "ack" BY DEF AckPackets
<1>6. \A p \in DataPackets : p.age < Lifetime => Older(p) \in DataPackets
  BY DEF DataPackets, Older
<1>7. \A p \in AckPackets : p.age < Lifetime => Older(p) \in AckPackets
  BY DEF AckPackets, Older
<1> QED BY <1>1, <1>2, <1>3, <1>4, <1>5, <1>6, <1>7

(* An acknowledgement that is received is one of a message.                  *)
LEMMA AckOwner ==
    ASSUME TypeOK, NEW p \in net, ReceiveAck(p)
    PROVE  /\ p.to \in Hosts /\ p.seq \in Seqs
           /\ pending_acks[p.to][p.seq] \in Msgs
<1>1. p.to \in Hosts /\ p.seq \in Seqs BY PacketsTyped DEF ReceiveAck, AckPackets
<1>2. pending_acks \in [Hosts -> [Seqs -> Msgs \cup {None}]] BY DEF TypeOK
<1>3. pending_acks[p.to][p.seq] # None BY DEF ReceiveAck
<1> QED BY <1>1, <1>2, <1>3

LEMMA TypeOKInit == Init => TypeOK
<1> SUFFICES ASSUME Init PROVE TypeOK OBVIOUS
<1>1. send \in [Msgs -> SendState]
  BY ConstantsTyped DEF Init, SendState, States
<1> QED BY <1>1, ConstantsTyped DEF Init, TypeOK

LEMMA TypeOKNext == TypeOK /\ [Next]_vars => TypeOK'
<1> SUFFICES ASSUME TypeOK, [Next]_vars PROVE TypeOK' OBVIOUS
<1> USE ConstantsTyped
<1>0. send \in [Msgs -> SendState] BY DEF TypeOK
<1>1. ASSUME NEW m \in Msgs, Send(m) PROVE TypeOK'
  <2>1. send' \in [Msgs -> SendState]
    <3>1. next_seq[Src[m]] \in Seqs BY DEF TypeOK
    <3>2. send' = [send EXCEPT ![m] = [@ EXCEPT !.st = "write", !.seq = next_seq[Src[m]]]]
      BY <1>1 DEF Send
    <3>3. [send[m] EXCEPT !.st = "write", !.seq = next_seq[Src[m]]] \in SendState
      BY <1>0, <3>1, RecordBegun
    <3> QED BY <1>0, <3>2, <3>3
  <2> QED BY <1>1, <2>1 DEF Send, TypeOK
<1>2. ASSUME NEW m \in Msgs, Write(m) PROVE TypeOK'
  <2>1. /\ send' \in [Msgs -> SendState]
        /\ pending_acks' \in [Hosts -> [Seqs -> Msgs \cup {None}]]
    <3>1. CASE send[m].acked BY <1>2, <3>1, ReturnTyped DEF Write
    <3>2. CASE ~send[m].acked BY <1>2, <3>2, SendGoesOn DEF Write, TypeOK
    <3> QED BY <3>1, <3>2
  <2> QED BY <1>2, <2>1, PacketsTyped DEF Write, TypeOK
<1>3. ASSUME NEW m \in Msgs, WriteError(m) PROVE TypeOK'
  BY <1>3, ReturnTyped DEF WriteError, TypeOK
<1>4. ASSUME NEW m \in Msgs, Timeout(m) PROVE TypeOK'
  <2>1. /\ send' \in [Msgs -> SendState]
        /\ pending_acks' \in [Hosts -> [Seqs -> Msgs \cup {None}]]
    <3>1. CASE send[m].attempt >= MaxRetries BY <1>4, <3>1, ReturnTyped DEF Timeout
    <3>2. CASE ~(send[m].attempt >= MaxRetries)
      <4>1. send[m].attempt < MaxRetries BY <1>0, <3>2 DEF SendState
      <4> QED BY <1>4, <3>2, <4>1, SendGoesOn DEF Timeout, TypeOK
    <3> QED BY <3>1, <3>2
  <2> QED BY <1>4, <2>1 DEF Timeout, TypeOK
<1>5. ASSUME NEW p \in net, ReceiveAck(p) PROVE TypeOK'
  <2>1. p.to \in Hosts /\ p.seq \in Seqs BY <1>5, AckOwner
  <2>2. pending_acks[p.to][p.seq] \in Msgs BY <1>5, AckOwner
  <2>3. send' \in [Msgs -> SendState] BY <1>5, <2>2, SendGoesOn DEF ReceiveAck
  <2>4. pending_acks' \in [Hosts -> [Seqs -> Msgs \cup {None}]]
    BY <1>5, <2>1 DEF ReceiveAck, TypeOK
  <2> QED BY <1>5, <2>3, <2>4 DEF ReceiveAck, TypeOK
<1>6. ASSUME NEW p \in net, ReceiveData(p) PROVE TypeOK'
  <2>1. p.msg \in Msgs /\ p.seq \in Seqs
    BY <1>6, PacketsTyped DEF ReceiveData, DataPackets
  <2>2. AckPacket(Src[p.msg], p.seq) \in AckPackets BY <2>1, PacketsTyped
  <2>3. seen_data' \in [Hosts -> [Hosts \X Seqs -> 0 .. Forgotten]]
    <3>1. CASE UNCHANGED seen_data BY <3>1 DEF TypeOK
    <3>2. CASE seen_data' = [seen_data EXCEPT ![Dst[p.msg]][<<Src[p.msg], p.seq>>] = 0]
      <4>1. 0 \in 0 .. Forgotten OBVIOUS
      <4>2. seen_data \in [Hosts -> [Hosts \X Seqs -> 0 .. Forgotten]] BY DEF TypeOK
      <4> QED BY <2>1, <3>2, <4>1, <4>2, Zenon
    <3> QED BY <1>6, <3>1, <3>2 DEF ReceiveData
  <2>4. got' \in [Msgs -> Nat]
    <3>1. got \in [Msgs -> Nat] BY DEF TypeOK
    <3>2. got' = got \/ got' = [got EXCEPT ![p.msg] = @ + 1] BY <1>6 DEF ReceiveData
    <3> QED BY <2>1, <3>1, <3>2
  <2> QED BY <1>6, <2>2, <2>3, <2>4 DEF ReceiveData, TypeOK
<1>7. ASSUME NEW p \in net, Lose(p) PROVE TypeOK'
  BY <1>7 DEF Lose, TypeOK
<1>8. CASE Tick
  <2>1. send' \in [Msgs -> SendState] BY <1>0, <1>8 DEF Tick, SendState
  <2>2. seen_data' \in [Hosts -> [Hosts \X Seqs -> 0 .. Forgotten]] BY <1>8 DEF Tick, TypeOK
  <2>3. net' \subseteq DataPackets \cup AckPackets BY <1>8, PacketsTyped DEF Tick
  <2> QED BY <1>8, <2>1, <2>2, <2>3 DEF Tick, TypeOK
<1>9. ASSUME NEW h \in Hosts, Restart(h) PROVE TypeOK'
  <2>1. send' \in [Msgs -> SendState] BY <1>0, <1>9 DEF Restart, SendState, States
  <2>2. seen_data' \in [Hosts -> [Hosts \X Seqs -> 0 .. Forgotten]]
    <3>1. [k \in Hosts \X Seqs |-> Forgotten] \in [Hosts \X Seqs -> 0 .. Forgotten] OBVIOUS
    <3> QED BY <1>9, <3>1, Zenon DEF Restart, TypeOK
  <2>3. pending_acks' \in [Hosts -> [Seqs -> Msgs \cup {None}]]
    BY <1>9 DEF Restart, TypeOK
  <2>4. next_seq' \in [Hosts -> Seqs] BY <1>9 DEF Restart, TypeOK
  <2> QED BY <1>9, <2>1, <2>2, <2>3, <2>4 DEF Restart, TypeOK
<1>10. CASE UNCHANGED vars BY <1>10 DEF vars, TypeOK
<1> QED BY <1>1, <1>2, <1>3, <1>4, <1>5, <1>6, <1>7, <1>8, <1>9, <1>10
        DEF Next, Steps, Network, Progress

-------------------------------------------------------------------------------
(* Waiters.  Beside the two properties the invariant says that an ACK is    *)
(* noted only while a write goes on, and that no two open sends of a host   *)
(* have the same number: the send that returns removes its own awakener.    *)
(* It is stated of the sends of the hosts H, so that it can be used where   *)
(* only some of the hosts are paced.                                        *)

AckedIsWriting == \A m \in Msgs : send[m].acked => send[m].st = "write"

OwnNumbersFrom(H) ==
    \A m, n \in Msgs :
        /\ Src[m] \in H /\ Open(m) /\ Open(n)
        /\ Src[m] = Src[n] /\ send[m].seq = send[n].seq
        => m = n

RegisteredFrom(H) ==
    \A m \in Msgs : Src[m] \in H /\ Open(m) /\ ~send[m].acked =>
        pending_acks[Src[m]][send[m].seq] = m

WaitersOf(H) == NoStaleWaiter /\ RegisteredFrom(H) /\ AckedIsWriting /\ OwnNumbersFrom(H)

(* The hosts H are paced, and the others take any number. *)
PacedFrom(H) == Steps \/ \E m \in Msgs : Send(m) /\ (Src[m] \in H => PacedSend(m))

OwnNumbers ==
    \A m, n \in Msgs :
        Open(m) /\ Open(n) /\ Src[m] = Src[n] /\ send[m].seq = send[n].seq => m = n

WaiterInv == NoStaleWaiter /\ WaiterRegistered /\ AckedIsWriting /\ OwnNumbers

LEMMA WaiterInvOf == WaiterInv <=> WaitersOf(Hosts)
  BY ConstantsTyped
     DEF WaiterInv, WaitersOf, WaiterRegistered, RegisteredFrom, OwnNumbers, OwnNumbersFrom

LEMMA WaiterInit ==
    ASSUME NEW H
    PROVE  Init => WaitersOf(H)
  BY ConstantsTyped DEF Init, WaitersOf, NoStaleWaiter, RegisteredFrom, AckedIsWriting, OwnNumbersFrom, Open

(* A send is done, and its entry of the table removed.                      *)
LEMMA WaiterGone ==
    ASSUME NEW H, TypeOK, WaitersOf(H), NEW m \in Msgs, Open(m),
           \A n \in Msgs : n # m => send'[n] = send[n],
           send'[m].st \in {"ok", "failed"}, ~send'[m].acked,
           \A h \in Hosts, q \in Seqs :
              pending_acks'[h][q] =
                 IF h = Src[m] /\ q = send[m].seq THEN None ELSE pending_acks[h][q]
    PROVE  WaitersOf(H)'
<1>1. \A n \in Msgs : (Open(n))' <=> Open(n) /\ n # m
  BY DEF Open
<1>2. \A n \in Msgs : Src[n] \in Hosts /\ send[n].seq \in Seqs
  BY ConstantsTyped DEF TypeOK, SendState
<1>3. NoStaleWaiter'
  <2> SUFFICES ASSUME NEW h \in Hosts, NEW q \in Seqs, NEW n \in Msgs, pending_acks'[h][q] = n
               PROVE  (Open(n))' /\ Src[n] = h /\ send'[n].seq = q
    BY DEF NoStaleWaiter
  <2>1. pending_acks[h][q] = n /\ ~(h = Src[m] /\ q = send[m].seq)
    BY ConstantsTyped
  <2> QED BY <1>1, <2>1 DEF WaitersOf, NoStaleWaiter
<1>4. RegisteredFrom(H)'
  BY <1>1, <1>2 DEF WaitersOf, RegisteredFrom, OwnNumbersFrom
<1>5. AckedIsWriting'
  BY DEF WaitersOf, AckedIsWriting
<1>6. OwnNumbersFrom(H)'
  BY <1>1 DEF WaitersOf, OwnNumbersFrom
<1> QED BY <1>3, <1>4, <1>5, <1>6 DEF WaitersOf

LEMMA ReturnKeepsWaiters ==
    ASSUME NEW H, TypeOK, WaitersOf(H), NEW m \in Msgs, Open(m),
           NEW outcome \in {"ok", "failed"}, Return(m, outcome)
    PROVE  WaitersOf(H)'
<1>1. \A n \in Msgs : n # m => send'[n] = send[n]
  BY DEF Return, TypeOK
<1>2. send'[m].st = outcome /\ ~send'[m].acked
  BY DEF Return, TypeOK, SendState
<1>3. \A h \in Hosts, q \in Seqs :
        pending_acks'[h][q] =
            IF h = Src[m] /\ q = send[m].seq THEN None ELSE pending_acks[h][q]
  BY DEF Return, cleanup_pending, TypeOK
<1> QED BY <1>1, <1>2, <1>3, WaiterGone

(* A step that changes neither who is open under which number and waits for *)
(* an ACK, nor the table.                                                   *)
LEMMA SameWaiters ==
    ASSUME NEW H, TypeOK, WaitersOf(H), pending_acks' = pending_acks,
           \A n \in Msgs : /\ (Open(n))' <=> Open(n)
                           /\ send'[n].seq = send[n].seq
                           /\ send'[n].acked = send[n].acked
                           /\ send'[n].acked => send'[n].st = "write"
    PROVE  WaitersOf(H)'
<1>1. NoStaleWaiter' BY DEF WaitersOf, NoStaleWaiter
<1>2. RegisteredFrom(H)' BY DEF WaitersOf, RegisteredFrom
<1>3. AckedIsWriting' BY DEF AckedIsWriting
<1>4. OwnNumbersFrom(H)' BY DEF WaitersOf, OwnNumbersFrom
<1> QED BY <1>1, <1>2, <1>3, <1>4 DEF WaitersOf

LEMMA WaiterSend ==
    ASSUME NEW H, TypeOK, WaitersOf(H), NEW m \in Msgs, Send(m), Src[m] \in H => PacedSend(m)
    PROVE  WaitersOf(H)'
<1> DEFINE h == Src[m]
           q == next_seq[Src[m]]
<1>0. h \in Hosts /\ q \in Seqs /\ m # None BY ConstantsTyped DEF TypeOK
<1>1. \A n \in Msgs : n # m => send'[n] = send[n]
  BY DEF Send, TypeOK
<1>2. send'[m].st = "write" /\ send'[m].acked = send[m].acked /\ send'[m].seq = q
  BY <1>0 DEF Send, TypeOK, SendState
<1>3. \A g \in Hosts, r \in Seqs :
        pending_acks'[g][r] = IF g = h /\ r = q THEN m ELSE pending_acks[g][r]
  BY <1>0 DEF Send, TypeOK
<1>4. \A n \in Msgs : (Open(n))' <=> Open(n) \/ n = m
  BY <1>1, <1>2 DEF Open
<1>5. \A n \in Msgs : Src[n] \in Hosts /\ send[n].seq \in Seqs
  BY ConstantsTyped DEF TypeOK, SendState
<1>6. \A n \in Msgs : h \in H /\ Open(n) => ~(Src[n] = h /\ send[n].seq = q)
  BY DEF PacedSend, Free, Unused
<1>7. ~Open(m) BY DEF Send, Open
<1>8. NoStaleWaiter'
  <2> SUFFICES ASSUME NEW g \in Hosts, NEW r \in Seqs, NEW n \in Msgs, pending_acks'[g][r] = n
               PROVE  (Open(n))' /\ Src[n] = g /\ send'[n].seq = r
    BY DEF NoStaleWaiter
  <2>1. CASE g = h /\ r = q BY <1>2, <1>3, <1>4, <2>1
  <2>2. CASE ~(g = h /\ r = q)
    <3>1. pending_acks[g][r] = n BY <1>3, <2>2
    <3>2. n # m BY <1>7, <3>1 DEF WaitersOf, NoStaleWaiter
    <3> QED BY <1>1, <1>4, <3>1, <3>2 DEF WaitersOf, NoStaleWaiter
  <2> QED BY <2>1, <2>2
<1>9. RegisteredFrom(H)'
  BY <1>0, <1>1, <1>2, <1>3, <1>4, <1>5, <1>6 DEF WaitersOf, RegisteredFrom
<1>10. AckedIsWriting' BY <1>1, <1>2 DEF WaitersOf, AckedIsWriting
<1>11. OwnNumbersFrom(H)'
  BY <1>1, <1>2, <1>4, <1>6, <1>7 DEF WaitersOf, OwnNumbersFrom
<1> QED BY <1>8, <1>9, <1>10, <1>11 DEF WaitersOf

LEMMA WaiterReceiveAck ==
    ASSUME NEW H, TypeOK, WaitersOf(H), NEW p \in net, ReceiveAck(p)
    PROVE  WaitersOf(H)'
<1> DEFINE h == p.to
           q == p.seq
           m == pending_acks[h][q]
<1>0. h \in Hosts /\ q \in Seqs BY AckOwner
<1>1. m \in Msgs BY AckOwner
<1>2. Open(m) /\ Src[m] = h /\ send[m].seq = q
  BY <1>0, <1>1 DEF WaitersOf, NoStaleWaiter
<1>3. \A n \in Msgs : n # m => send'[n] = send[n]
  BY <1>1 DEF ReceiveAck, TypeOK
<1>4. \A g \in Hosts, r \in Seqs :
        pending_acks'[g][r] = IF g = h /\ r = q THEN None ELSE pending_acks[g][r]
  BY <1>0 DEF ReceiveAck, TypeOK
<1>5. CASE send[m].st = "wait"
  <2>1. ~send[m].acked BY <1>1, <1>5 DEF WaitersOf, AckedIsWriting
  <2>2. send'[m].st = "ok" /\ ~send'[m].acked
    BY <1>1, <1>5, <2>1 DEF ReceiveAck, TypeOK, SendState
  <2> HIDE DEF m
  <2> QED BY <1>1, <1>2, <1>3, <1>4, <2>2, WaiterGone
<1>6. CASE send[m].st = "write"
  <2>1. send'[m].st = "write" /\ send'[m].acked /\ send'[m].seq = send[m].seq
    BY <1>1, <1>6 DEF ReceiveAck, TypeOK, SendState
  <2> HIDE DEF m
  <2>2. \A n \in Msgs : (Open(n))' <=> Open(n)
    BY <1>3, <1>6, <2>1 DEF Open
  <2>3. \A n \in Msgs : Src[n] \in Hosts /\ send[n].seq \in Seqs
    BY ConstantsTyped DEF TypeOK, SendState
  <2>4. NoStaleWaiter'
    <3> SUFFICES ASSUME NEW g \in Hosts, NEW r \in Seqs, NEW n \in Msgs, pending_acks'[g][r] = n
                 PROVE  (Open(n))' /\ Src[n] = g /\ send'[n].seq = r
      BY DEF NoStaleWaiter
    <3>1. pending_acks[g][r] = n BY <1>4, ConstantsTyped
    <3>2. send'[n].seq = send[n].seq BY <1>3, <2>1
    <3> QED BY <2>2, <3>1, <3>2 DEF WaitersOf, NoStaleWaiter
  <2>5. RegisteredFrom(H)'
    BY <1>1, <1>2, <1>3, <1>4, <2>1, <2>2, <2>3 DEF WaitersOf, RegisteredFrom, OwnNumbersFrom
  <2>6. AckedIsWriting' BY <1>3, <2>1 DEF WaitersOf, AckedIsWriting
  <2>7. OwnNumbersFrom(H)' BY <1>3, <2>1, <2>2 DEF WaitersOf, OwnNumbersFrom
  <2> QED BY <2>4, <2>5, <2>6, <2>7 DEF WaitersOf
<1> QED BY <1>2, <1>5, <1>6 DEF Open

LEMMA WaiterRestart ==
    ASSUME NEW H, TypeOK, WaitersOf(H), NEW h \in Hosts, Restart(h)
    PROVE  WaitersOf(H)'
<1>1. \A n \in Msgs : Src[n] # h \/ ~Open(n) => send'[n] = send[n]
  BY DEF Restart, TypeOK, Open
<1>2. ASSUME NEW n \in Msgs, Src[n] = h, Open(n)
      PROVE  send'[n].st = "failed" /\ ~send'[n].acked
  <2>1. send'[n] = [send[n] EXCEPT !.st = "failed", !.acked = FALSE, !.age = 0]
    BY <1>2 DEF Restart, Open
  <2>2. send[n] \in SendState BY DEF TypeOK
  <2> QED BY <2>1, <2>2 DEF SendState
<1>3. \A g \in Hosts, q \in Seqs :
        pending_acks'[g][q] = IF g = h THEN None ELSE pending_acks[g][q]
  BY DEF Restart, TypeOK
<1>4. \A n \in Msgs : (Open(n))' <=> Open(n) /\ Src[n] # h
  BY <1>1, <1>2 DEF Open
<1>5. \A n \in Msgs : Src[n] \in Hosts /\ send[n].seq \in Seqs
  BY ConstantsTyped DEF TypeOK, SendState
<1>6. NoStaleWaiter'
  BY <1>1, <1>3, <1>4, ConstantsTyped DEF WaitersOf, NoStaleWaiter
<1>7. RegisteredFrom(H)'
  BY <1>1, <1>3, <1>4, <1>5 DEF WaitersOf, RegisteredFrom
<1>8. AckedIsWriting' BY <1>1, <1>2 DEF WaitersOf, AckedIsWriting
<1>9. OwnNumbersFrom(H)' BY <1>1, <1>4 DEF WaitersOf, OwnNumbersFrom
<1> QED BY <1>6, <1>7, <1>8, <1>9 DEF WaitersOf

LEMMA WaitersNext ==
    ASSUME NEW H
    PROVE  TypeOK /\ WaitersOf(H) /\ [PacedFrom(H)]_vars => WaitersOf(H)'
<1> SUFFICES ASSUME TypeOK, WaitersOf(H), [PacedFrom(H)]_vars PROVE WaitersOf(H)' OBVIOUS
<1>1. ASSUME NEW m \in Msgs, Send(m), Src[m] \in H => PacedSend(m) PROVE WaitersOf(H)'
  BY <1>1, WaiterSend
<1>2. ASSUME NEW m \in Msgs, Write(m) PROVE WaitersOf(H)'
  <2>1. CASE send[m].acked
    BY <1>2, <2>1, ReturnKeepsWaiters DEF Write, Open
  <2>2. CASE ~send[m].acked
    <3>1. \A n \in Msgs : n # m => send'[n] = send[n] BY <1>2, <2>2 DEF Write, TypeOK
    <3>2. send'[m].st = "wait" /\ ~send'[m].acked /\ send'[m].seq = send[m].seq
      <4>1. send' = [send EXCEPT ![m].st = "wait", ![m].age = 0] BY <1>2, <2>2 DEF Write
      <4>2. send[m] \in SendState BY DEF TypeOK
      <4> QED BY <2>2, <4>1, <4>2 DEF TypeOK, SendState
    <3>3. \A n \in Msgs : /\ (Open(n))' <=> Open(n)
                          /\ send'[n].seq = send[n].seq
                          /\ send'[n].acked = send[n].acked
                          /\ send'[n].acked => send'[n].st = "write"
      BY <1>2, <2>2, <3>1, <3>2 DEF Write, Open, TypeOK, SendState, WaitersOf, AckedIsWriting
    <3> QED BY <1>2, <2>2, <3>3, SameWaiters DEF Write
  <2> QED BY <2>1, <2>2
<1>3. ASSUME NEW m \in Msgs, WriteError(m) PROVE WaitersOf(H)'
  BY <1>3, ReturnKeepsWaiters DEF WriteError, Open
<1>4. ASSUME NEW m \in Msgs, Timeout(m) PROVE WaitersOf(H)'
  <2>1. CASE send[m].attempt >= MaxRetries
    BY <1>4, <2>1, ReturnKeepsWaiters DEF Timeout, Open
  <2>2. CASE ~(send[m].attempt >= MaxRetries)
    <3>1. \A n \in Msgs : n # m => send'[n] = send[n] BY <1>4, <2>2 DEF Timeout, TypeOK
    <3>2. send'[m].st = "write" /\ send'[m].acked = send[m].acked /\ send'[m].seq = send[m].seq
      BY <1>4, <2>2 DEF Timeout, TypeOK, SendState
    <3>3. \A n \in Msgs : /\ (Open(n))' <=> Open(n)
                          /\ send'[n].seq = send[n].seq
                          /\ send'[n].acked = send[n].acked
                          /\ send'[n].acked => send'[n].st = "write"
      BY <1>4, <3>1, <3>2 DEF Timeout, Open, WaitersOf, AckedIsWriting
    <3> QED BY <1>4, <2>2, <3>3, SameWaiters DEF Timeout
  <2> QED BY <2>1, <2>2
<1>5. ASSUME NEW p \in net, ReceiveAck(p) PROVE WaitersOf(H)'
  BY <1>5, WaiterReceiveAck
<1>6. CASE UNCHANGED <<send, pending_acks>>
  <2>1. \A n \in Msgs : /\ (Open(n))' <=> Open(n)
                        /\ send'[n].seq = send[n].seq
                        /\ send'[n].acked = send[n].acked
                        /\ send'[n].acked => send'[n].st = "write"
    BY <1>6 DEF Open, WaitersOf, AckedIsWriting
  <2> QED BY <1>6, <2>1, SameWaiters
<1>7. CASE Tick
  <2>1. \A n \in Msgs : /\ send'[n].st = send[n].st
                        /\ send'[n].seq = send[n].seq
                        /\ send'[n].acked = send[n].acked
    BY <1>7 DEF Tick, TypeOK, SendState
  <2>2. \A n \in Msgs : /\ (Open(n))' <=> Open(n)
                        /\ send'[n].acked => send'[n].st = "write"
    BY <2>1 DEF Open, WaitersOf, AckedIsWriting
  <2> QED BY <1>7, <2>1, <2>2, SameWaiters DEF Tick
<1>8. ASSUME NEW h \in Hosts, Restart(h) PROVE WaitersOf(H)'
  BY <1>8, WaiterRestart
<1>9. ASSUME NEW p \in net, ReceiveData(p) \/ Lose(p) PROVE WaitersOf(H)'
  BY <1>6, <1>9 DEF ReceiveData, Lose
<1>10. CASE UNCHANGED vars BY <1>6, <1>10 DEF vars
<1> QED BY <1>1, <1>2, <1>3, <1>4, <1>5, <1>7, <1>8, <1>9, <1>10
        DEF PacedFrom, Steps, Network, Progress

LEMMA PacedFromIsNext ==
    ASSUME NEW H
    PROVE  [PacedFrom(H)]_vars => [Next]_vars
  BY DEF PacedFrom, Next

LEMMA WaiterNext == TypeOK /\ WaiterInv /\ [PacedNext]_vars => WaiterInv'
<1>1. [PacedNext]_vars => [PacedFrom(Hosts)]_vars
  BY DEF PacedNext, PacedFrom, PacedSend
<1>2. WaitersOf(Hosts)' => WaiterInv'
  BY ConstantsTyped
     DEF WaiterInv, WaitersOf, WaiterRegistered, RegisteredFrom, OwnNumbers, OwnNumbersFrom, Open
<1> QED BY <1>1, <1>2, WaitersNext, WaiterInvOf

LEMMA PacedIsNext == [PacedNext]_vars => [Next]_vars
  BY DEF PacedNext, PacedSend, Next

(* The state is well typed: no send makes more than max_retries retries     *)
(* after its first attempt, also when the sequence numbers are used again   *)
(* too early.                                                               *)
THEOREM TypeCorrect == Spec => []TypeOK
<1>1. Init => TypeOK BY TypeOKInit
<1>2. TypeOK /\ [Next]_vars => TypeOK' BY TypeOKNext
<1> QED BY <1>1, <1>2, PTL DEF Spec

LEMMA WaitersKept == Paced => [](TypeOK /\ WaiterInv)
<1>1. Init => TypeOK /\ WaiterInv BY TypeOKInit, WaiterInit, WaiterInvOf
<1>2. TypeOK /\ WaiterInv /\ [PacedNext]_vars => (TypeOK /\ WaiterInv)'
  BY TypeOKNext, WaiterNext, PacedIsNext
<1> QED BY <1>1, <1>2, PTL DEF Paced

(* While the hosts are paced every send that waits can be woken by its own  *)
(* ACK, whatever other sends return or time out (stack.ml, send).           *)
THEOREM WaitersSound == Paced => []WaiterRegistered
<1>1. WaiterInv => WaiterRegistered BY DEF WaiterInv
<1> QED BY <1>1, WaitersKept, PTL

(* While the hosts are paced nothing in pending_acks outlives its send, so  *)
(* an ACK wakes a send that waits for it (stack.ml, cleanup_pending).       *)
THEOREM NoWaiterLeft == Paced => []NoStaleWaiter
<1>1. WaiterInv => NoStaleWaiter BY DEF WaiterInv
<1> QED BY <1>1, WaitersKept, PTL

-------------------------------------------------------------------------------
(* Delivery.  The receiver remembers the number of a message for as long as *)
(* packets of it may arrive: the entry is at most as old as its sender has  *)
(* waited, and MaxRetries older than any packet.  And whatever bears the    *)
(* number of an open send is a packet, an acknowledgement or an entry of    *)
(* its own message, because the hosts are paced.                            *)

Age(m) == seen_data[Dst[m]][<<Src[m], send[m].seq>>]
Waited(m) == send[m].attempt + (IF send[m].st = "wait" THEN send[m].age ELSE 0)

PacketsNamed ==
    \A p \in net : p.kind = "data" => send[p.msg].st # "new" /\ p.seq = send[p.msg].seq
OwnPackets ==
    \A p \in net, m \in Msgs :
        p.kind = "data" /\ Open(m) /\ Src[p.msg] = Src[m] /\ p.seq = send[m].seq => p.msg = m
OwnAcks ==
    \A p \in net, m \in Msgs :
        p.kind = "ack" /\ Open(m) /\ p.to = Src[m] /\ p.seq = send[m].seq => got[m] = 1
OwnEntries == \A m \in Msgs : Open(m) /\ Age(m) <= Window => got[m] = 1
EntriesYoung == \A m \in Msgs : Open(m) /\ got[m] = 1 => Age(m) <= Waited(m)
PacketsRemembered ==
    \A p \in net : p.kind = "data" /\ got[p.msg] = 1 => Age(p.msg) <= p.age + MaxRetries
Outcomes ==
    \A m \in Msgs : /\ got[m] \in {0, 1}
                    /\ send[m].st = "new" => got[m] = 0
                    /\ send[m].st = "ok" => got[m] = 1
                    /\ Open(m) /\ send[m].acked => got[m] = 1

DeliveryInv ==
    /\ PacketsNamed /\ OwnPackets /\ OwnAcks /\ OwnEntries
    /\ EntriesYoung /\ PacketsRemembered /\ Outcomes

LEMMA DeliveryInit == Init => DeliveryInv
  BY DEF Init, DeliveryInv, PacketsNamed, OwnPackets, OwnAcks, OwnEntries, EntriesYoung,
         PacketsRemembered, Outcomes, Open

LEMMA FieldsTyped ==
    ASSUME TypeOK, NEW m \in Msgs
    PROVE  /\ Src[m] \in Hosts /\ Dst[m] \in Hosts /\ send[m].seq \in Seqs
           /\ send[m].attempt \in 0 .. MaxRetries /\ send[m].age \in {0, 1}
           /\ send[m].st \in States /\ send[m].acked \in BOOLEAN
           /\ Age(m) \in 0 .. Forgotten /\ Waited(m) \in Nat
           /\ got[m] \in Nat
<1>1. send[m].seq \in Seqs /\ send[m].attempt \in 0 .. MaxRetries /\ send[m].age \in {0, 1}
      /\ send[m].st \in States /\ send[m].acked \in BOOLEAN
  BY DEF TypeOK, SendState
<1>2. Src[m] \in Hosts /\ Dst[m] \in Hosts BY ConstantsTyped
<1>3. Age(m) \in 0 .. Forgotten BY <1>1, <1>2 DEF Age, TypeOK
<1>4. Waited(m) \in Nat BY <1>1, ConstantsTyped DEF Waited
<1>5. got[m] \in Nat BY DEF TypeOK
<1> QED BY <1>1, <1>2, <1>3, <1>4, <1>5

(* A step that delivers nothing and sends nothing but packets of open       *)
(* sends: sends may go on or return.                                        *)
LEMMA QuietStep ==
    ASSUME TypeOK, TypeOK', WaiterInv, DeliveryInv, got' = got,
           \A n \in Msgs : /\ send'[n].seq = send[n].seq
                           /\ (Age(n))' = Age(n)
                           /\ (Open(n))' => Open(n) /\ (Waited(n))' >= Waited(n)
                           /\ (Open(n))' /\ send'[n].acked => send[n].acked \/ got[n] = 1
                           /\ send'[n].st = "new" <=> send[n].st = "new"
                           /\ send'[n].st = "ok" => send[n].st = "ok" \/ got[n] = 1,
           \A p \in net' :
              p \in net \/ \E m \in Msgs : p = DataPacket(m) /\ send[m].st = "write"
    PROVE  DeliveryInv'
<1>1. \A p \in net' :
        \/ p \in net
        \/ /\ p.kind = "data" /\ p.msg \in Msgs /\ send[p.msg].st = "write"
           /\ p.seq = send[p.msg].seq /\ p.age = 0
  BY DEF DataPacket
<1>2. \A p \in net : p.kind = "data" => p.msg \in Msgs
  BY PacketsTyped DEF DataPackets
<1>3. \A n \in Msgs : /\ Age(n) \in Nat /\ Waited(n) \in Nat /\ (Waited(n))' \in Nat
  <2> TAKE n \in Msgs
  <2>1. Age(n) \in Nat /\ Waited(n) \in Nat BY FieldsTyped, ConstantsTyped
  <2>2. send'[n] \in SendState BY DEF TypeOK
  <2>3. (Waited(n))' \in Nat BY <2>2, ConstantsTyped DEF Waited, SendState
  <2> QED BY <2>1, <2>3
<1>4. PacketsNamed'
  BY <1>1, <1>2 DEF DeliveryInv, PacketsNamed
<1>5. OwnPackets'
  BY <1>1, <1>2 DEF DeliveryInv, OwnPackets, WaiterInv, OwnNumbers, Open
<1>6. OwnAcks' BY <1>1 DEF DeliveryInv, OwnAcks
<1>7. OwnEntries' BY DEF DeliveryInv, OwnEntries
<1>8. EntriesYoung' BY <1>3 DEF DeliveryInv, EntriesYoung
<1>9. PacketsRemembered'
  <2> SUFFICES ASSUME NEW p \in net', p.kind = "data", got[p.msg] = 1
               PROVE  (Age(p.msg))' <= p.age + MaxRetries
    BY DEF PacketsRemembered
  <2>1. CASE p \in net
    BY <1>2, <2>1 DEF DeliveryInv, PacketsRemembered
  <2>2. CASE p \notin net
    <3>1. p.msg \in Msgs /\ send[p.msg].st = "write" /\ p.age = 0 BY <1>1, <2>2
    <3>2. Age(p.msg) <= Waited(p.msg)
      BY <3>1 DEF DeliveryInv, EntriesYoung, Open
    <3>3. Waited(p.msg) = send[p.msg].attempt /\ send[p.msg].attempt \in 0 .. MaxRetries
      BY <3>1, FieldsTyped DEF Waited
    <3> QED BY <1>3, <3>1, <3>2, <3>3, ConstantsTyped
  <2> QED BY <2>1, <2>2
<1>10. Outcomes' BY DEF DeliveryInv, Outcomes
<1> QED BY <1>4, <1>5, <1>6, <1>7, <1>8, <1>9, <1>10 DEF DeliveryInv

(* What a step of the send m must show for QuietStep: the rest is as it was. *)
LEMMA QuietSend ==
    ASSUME TypeOK, TypeOK', WaiterInv, DeliveryInv, NEW m \in Msgs, Open(m),
           UNCHANGED <<got, seen_data>>,
           \A n \in Msgs : n # m => send'[n] = send[n],
           send'[m].seq = send[m].seq,
           send'[m].st # "new",
           (Open(m))' => (Waited(m))' >= Waited(m),
           (Open(m))' /\ send'[m].acked => send[m].acked \/ got[m] = 1,
           send'[m].st = "ok" => got[m] = 1,
           \A p \in net' : p \in net \/ (p = DataPacket(m) /\ send[m].st = "write")
    PROVE  DeliveryInv'
<1>1. \A n \in Msgs : send'[n].seq = send[n].seq OBVIOUS
<1>2. \A n \in Msgs : (Age(n))' = Age(n) BY <1>1 DEF Age
<1>3. \A n \in Msgs : n # m => (Open(n))' = Open(n) /\ (Waited(n))' = Waited(n)
  BY DEF Open, Waited
<1>4. \A n \in Msgs : Waited(n) >= Waited(n) BY FieldsTyped
<1>5. \A n \in Msgs : (Open(n))' => Open(n) /\ (Waited(n))' >= Waited(n)
  BY <1>3, <1>4
<1>6. \A n \in Msgs : send'[n].st = "new" <=> send[n].st = "new" BY DEF Open
<1> QED BY <1>1, <1>2, <1>5, <1>6, QuietStep

LEMMA DeliveryWrite ==
    ASSUME TypeOK, TypeOK', WaiterInv, DeliveryInv, NEW m \in Msgs, Write(m)
    PROVE  DeliveryInv'
<1>1. Open(m) /\ send[m].st = "write" BY DEF Write, Open
<1>2. \A n \in Msgs : n # m => send'[n] = send[n] BY DEF Write, Return, TypeOK
<1>3. UNCHANGED <<got, seen_data>> BY DEF Write
<1>4. \A p \in net' : p \in net \/ p = DataPacket(m) BY DEF Write
<1>5. send[m] \in SendState BY DEF TypeOK
<1>6. CASE send[m].acked
  <2>1. send' = [send EXCEPT ![m].st = "ok", ![m].acked = FALSE, ![m].age = 0]
    BY <1>6 DEF Write, Return
  <2>2. send'[m].st = "ok" /\ send'[m].seq = send[m].seq
    BY <1>5, <2>1 DEF TypeOK, SendState
  <2>3. got[m] = 1 BY <1>1, <1>6 DEF DeliveryInv, Outcomes
  <2>4. ~(Open(m))' BY <2>2 DEF Open
  <2> QED BY <1>1, <1>2, <1>3, <1>4, <2>2, <2>3, <2>4, QuietSend
<1>7. CASE ~send[m].acked
  <2>1. send' = [send EXCEPT ![m].st = "wait", ![m].age = 0] BY <1>7 DEF Write
  <2>2. /\ send'[m].st = "wait" /\ send'[m].seq = send[m].seq /\ ~send'[m].acked
        /\ send'[m].age = 0 /\ send'[m].attempt = send[m].attempt
    BY <1>5, <1>7, <2>1 DEF TypeOK, SendState
  <2>3. (Waited(m))' >= Waited(m)
    BY <1>1, <2>2, FieldsTyped, ConstantsTyped DEF Waited
  <2> QED BY <1>1, <1>2, <1>3, <1>4, <2>2, <2>3, QuietSend
<1> QED BY <1>6, <1>7

LEMMA DeliveryFails ==
    ASSUME TypeOK, TypeOK', WaiterInv, DeliveryInv, NEW m \in Msgs, Open(m),
           Return(m, "failed"), UNCHANGED <<got, seen_data, net>>
    PROVE  DeliveryInv'
<1>1. \A n \in Msgs : n # m => send'[n] = send[n] BY DEF Return, TypeOK
<1>2. send[m] \in SendState BY DEF TypeOK
<1>3. send'[m].st = "failed" /\ send'[m].seq = send[m].seq
  BY <1>2 DEF Return, TypeOK, SendState
<1>4. ~(Open(m))' BY <1>3 DEF Open
<1> QED BY <1>1, <1>3, <1>4, QuietSend

LEMMA DeliveryTimeout ==
    ASSUME TypeOK, TypeOK', WaiterInv, DeliveryInv, NEW m \in Msgs, Timeout(m)
    PROVE  DeliveryInv'
<1>1. Open(m) /\ send[m].st = "wait" /\ send[m].age = 1 BY DEF Timeout, Open
<1>2. CASE send[m].attempt >= MaxRetries
  BY <1>1, <1>2, DeliveryFails DEF Timeout
<1>3. CASE ~(send[m].attempt >= MaxRetries)
  <2>1. send' = [send EXCEPT ![m].st = "write", ![m].attempt = @ + 1]
    BY <1>3 DEF Timeout
  <2>2. send[m] \in SendState /\ \A n \in Msgs : n # m => send'[n] = send[n]
    BY <2>1 DEF TypeOK
  <2>3. /\ send'[m].st = "write" /\ send'[m].seq = send[m].seq
        /\ send'[m].acked = send[m].acked /\ send'[m].attempt = send[m].attempt + 1
    BY <2>1, <2>2 DEF TypeOK, SendState
  <2>4. (Waited(m))' >= Waited(m)
    BY <1>1, <2>3, FieldsTyped, ConstantsTyped DEF Waited
  <2> QED BY <1>1, <1>3, <2>2, <2>3, <2>4, QuietSend DEF Timeout
<1> QED BY <1>2, <1>3

LEMMA DeliveryAck ==
    ASSUME TypeOK, TypeOK', WaiterInv, DeliveryInv, NEW p \in net, ReceiveAck(p)
    PROVE  DeliveryInv'
<1>0. p.to \in Hosts /\ p.seq \in Seqs BY PacketsTyped DEF ReceiveAck, AckPackets
<1>1. PICK m \in Msgs : m = pending_acks[p.to][p.seq]
  <2>1. pending_acks[p.to][p.seq] \in Msgs BY AckOwner
  <2> QED BY <2>1
<1>2. Open(m) /\ Src[m] = p.to /\ send[m].seq = p.seq
  BY <1>0, <1>1 DEF WaiterInv, NoStaleWaiter
<1>3. got[m] = 1
  <2>1. p.kind = "ack" BY DEF ReceiveAck
  <2> QED BY <1>1, <1>2, <2>1 DEF DeliveryInv, OwnAcks
<1>4. UNCHANGED <<got, seen_data, net>> BY DEF ReceiveAck
<1>5. send[m] \in SendState BY DEF TypeOK
<1>6. /\ send[m].st = "wait" => send' = [send EXCEPT ![m].st = "ok", ![m].age = 0]
      /\ send[m].st # "wait" => send' = [send EXCEPT ![m].acked = TRUE]
  BY <1>1 DEF ReceiveAck
<1>7. \A n \in Msgs : n # m => send'[n] = send[n]
  <2>1. CASE send[m].st = "wait" BY <1>1, <1>6, <2>1 DEF TypeOK
  <2>2. CASE send[m].st # "wait" BY <1>1, <1>6, <2>2 DEF TypeOK
  <2> QED BY <2>1, <2>2
<1>8. CASE send[m].st = "wait"
  <2>0. send' = [send EXCEPT ![m].st = "ok", ![m].age = 0] BY <1>6, <1>8
  <2>1. send'[m].st = "ok" /\ send'[m].seq = send[m].seq
    BY <1>1, <1>5, <2>0 DEF TypeOK, SendState
  <2>2. ~(Open(m))' BY <2>1 DEF Open
  <2> QED BY <1>1, <1>2, <1>3, <1>4, <1>7, <2>1, <2>2, QuietSend
<1>9. CASE send[m].st = "write"
  <2>0. send' = [send EXCEPT ![m].acked = TRUE] BY <1>6, <1>9
  <2>1. /\ send'[m].st = "write" /\ send'[m].seq = send[m].seq
        /\ send'[m].attempt = send[m].attempt
    BY <1>1, <1>5, <1>9, <2>0 DEF TypeOK, SendState
  <2>2. (Waited(m))' >= Waited(m)
    BY <1>1, <1>9, <2>1, FieldsTyped, ConstantsTyped DEF Waited
  <2> QED BY <1>1, <1>2, <1>3, <1>4, <1>7, <2>1, <2>2, QuietSend
<1> QED BY <1>2, <1>8, <1>9 DEF Open

LEMMA DeliverySend ==
    ASSUME TypeOK, TypeOK', WaiterInv, DeliveryInv, NEW m \in Msgs, PacedSend(m)
    PROVE  DeliveryInv'
<1> DEFINE h == Src[m]
           q == next_seq[Src[m]]
<1>1. \A n \in Msgs : n # m => send'[n] = send[n]
  BY DEF PacedSend, Send, TypeOK
<1>2. send'[m].st = "write" /\ send'[m].acked = send[m].acked /\ send'[m].seq = q
  BY DEF PacedSend, Send, TypeOK, SendState
<1>3. UNCHANGED <<seen_data, net, got>> BY DEF PacedSend, Send
<1>4. send[m].st = "new" /\ got[m] = 0
  BY DEF PacedSend, Send, DeliveryInv, Outcomes
<1>5. /\ \A d \in Hosts : seen_data[d][<<h, q>>] = Forgotten
      /\ \A p \in net : p.kind = "data" => ~(p.seq = q /\ Src[p.msg] = h)
      /\ \A p \in net : p.kind = "ack" => ~(p.seq = q /\ p.to = h)
  BY DEF PacedSend, Free, Unused
<1>6. \A p \in net : p.kind = "data" => p.msg \in Msgs /\ p.msg # m
  BY <1>4, PacketsTyped DEF DataPackets, DeliveryInv, PacketsNamed
<1>7. \A n \in Msgs : n # m => /\ (Open(n))' = Open(n) /\ (Age(n))' = Age(n)
                               /\ (Waited(n))' = Waited(n)
  BY <1>1, <1>3 DEF Open, Age, Waited
<1>8. (Age(m))' = Forgotten BY <1>2, <1>3, <1>5, ConstantsTyped DEF Age
<1>9. PacketsNamed' BY <1>1, <1>3, <1>6 DEF DeliveryInv, PacketsNamed
<1>10. OwnPackets' BY <1>1, <1>2, <1>3, <1>5, <1>6, <1>7 DEF DeliveryInv, OwnPackets
<1>11. OwnAcks' BY <1>1, <1>2, <1>3, <1>5, <1>7 DEF DeliveryInv, OwnAcks
<1>12. OwnEntries' BY <1>3, <1>7, <1>8, ConstantsTyped DEF DeliveryInv, OwnEntries
<1>13. EntriesYoung' BY <1>3, <1>4, <1>7 DEF DeliveryInv, EntriesYoung
<1>14. PacketsRemembered' BY <1>3, <1>6, <1>7 DEF DeliveryInv, PacketsRemembered
<1>15. Outcomes'
  <2>1. ~send[m].acked BY <1>4 DEF WaiterInv, AckedIsWriting
  <2> QED BY <1>1, <1>2, <1>3, <1>4, <1>7, <2>1 DEF DeliveryInv, Outcomes
<1> QED BY <1>9, <1>10, <1>11, <1>12, <1>13, <1>14, <1>15 DEF DeliveryInv

(* A packet that the receiver does not remember was never delivered.        *)
LEMMA NotRemembered ==
    ASSUME TypeOK, DeliveryInv, MaxRetries + Lifetime <= Window,
           NEW p \in net, p.kind = "data", ~Remembered(Dst[p.msg], Src[p.msg], p.seq)
    PROVE  got[p.msg] = 0
<1>1. p.msg \in Msgs /\ p.seq = send[p.msg].seq /\ p.age \in 0 .. Lifetime
  BY PacketsTyped DEF DataPackets, DeliveryInv, PacketsNamed
<1>2. ~(Age(p.msg) <= Window) BY <1>1 DEF Remembered, Age
<1>3. ASSUME got[p.msg] = 1 PROVE FALSE
  <2>1. Age(p.msg) <= p.age + MaxRetries BY <1>3 DEF DeliveryInv, PacketsRemembered
  <2>2. Age(p.msg) \in 0 .. Forgotten BY <1>1, FieldsTyped
  <2> QED BY <1>1, <1>2, <2>1, <2>2, ConstantsTyped
<1> QED BY <1>1, <1>3 DEF DeliveryInv, Outcomes

LEMMA DeliveryData ==
    ASSUME TypeOK, TypeOK', DeliveryInv, MaxRetries + Lifetime <= Window,
           NEW p \in net, ReceiveData(p)
    PROVE  DeliveryInv'
<1> DEFINE h == Dst[p.msg]
           src == Src[p.msg]
<1>1. /\ p.msg \in Msgs /\ p.seq \in Seqs /\ p.seq = send[p.msg].seq /\ p.kind = "data"
      /\ h \in Hosts /\ src \in Hosts
  BY PacketsTyped, ConstantsTyped DEF ReceiveData, DataPackets, DeliveryInv, PacketsNamed
<1>2. UNCHANGED <<send, next_seq, pending_acks>> BY DEF ReceiveData
<1>3. \A n \in Msgs : UNCHANGED <<send[n], Open(n), Waited(n)>> BY <1>2 DEF Open, Waited
<1>4. \A x \in net' :
         x \in net \/ (x.kind = "ack" /\ x.to = src /\ x.seq = p.seq)
  BY DEF ReceiveData, AckPacket
<1>5. \A x \in net : x.kind = "data" => x.msg \in Msgs
  BY PacketsTyped DEF DataPackets
<1>6. \A n \in Msgs : Open(n) /\ Src[n] = src /\ send[n].seq = p.seq => n = p.msg
  BY <1>1 DEF DeliveryInv, OwnPackets
<1>7. \/ /\ Remembered(h, src, p.seq) /\ UNCHANGED <<seen_data, got>>
         /\ \A n \in Msgs : (Age(n))' = Age(n)
      \/ /\ got[p.msg] = 0 /\ got'[p.msg] = 1
         /\ \A n \in Msgs : n # p.msg => got'[n] = got[n]
         /\ \A n \in Msgs : (Age(n))' = IF Dst[n] = h /\ Src[n] = src /\ send[n].seq = p.seq
                                        THEN 0 ELSE Age(n)
  <2>1. CASE Remembered(h, src, p.seq)
    BY <1>2, <2>1 DEF ReceiveData, Age
  <2>2. CASE ~Remembered(h, src, p.seq)
    <3>1. got[p.msg] = 0 BY <1>1, <2>2, NotRemembered
    <3>2. /\ seen_data' = [seen_data EXCEPT ![h][<<src, p.seq>>] = 0]
          /\ got' = [got EXCEPT ![p.msg] = @ + 1]
      BY <2>2 DEF ReceiveData
    <3>3. got'[p.msg] = 1 /\ \A n \in Msgs : n # p.msg => got'[n] = got[n]
      BY <1>1, <3>1, <3>2 DEF TypeOK
    <3>4. ASSUME NEW n \in Msgs
          PROVE  (Age(n))' = IF Dst[n] = h /\ Src[n] = src /\ send[n].seq = p.seq
                             THEN 0 ELSE Age(n)
      <4>1. Dst[n] \in Hosts /\ <<Src[n], send[n].seq>> \in Hosts \X Seqs
        BY FieldsTyped
      <4>2. <<Src[n], send[n].seq>> = <<src, p.seq>> <=> Src[n] = src /\ send[n].seq = p.seq
        OBVIOUS
      <4> QED BY <1>1, <1>2, <3>2, <4>1, <4>2 DEF Age, TypeOK
    <3> QED BY <3>1, <3>3, <3>4
  <2> QED BY <2>1, <2>2
<1>8. \A n \in Msgs : /\ got[n] \in {0, 1} /\ Age(n) \in Nat /\ Waited(n) \in Nat
                      /\ got[n] = 1 => got'[n] = 1
  BY <1>1, <1>7, FieldsTyped, ConstantsTyped DEF DeliveryInv, Outcomes
<1>9. Open(p.msg) => got'[p.msg] = 1
  <2>1. CASE Remembered(h, src, p.seq)
    <3>1. Age(p.msg) <= Window BY <1>1, <2>1 DEF Remembered, Age
    <3> QED BY <1>1, <1>8, <3>1 DEF DeliveryInv, OwnEntries
  <2>2. CASE ~Remembered(h, src, p.seq) BY <1>7, <2>2
  <2> QED BY <2>1, <2>2
<1>10. \A n \in Msgs : n # p.msg => got'[n] = got[n] BY <1>7
<1>11. \A n \in Msgs : (Age(n))' = Age(n) \/ (Age(n))' = 0 BY <1>7
<1>12. \A n \in Msgs : Open(n) /\ (Age(n))' # Age(n) => n = p.msg BY <1>6, <1>7
<1>13. got'[p.msg] # got[p.msg] => (Age(p.msg))' = 0 BY <1>1, <1>7
<1> HIDE DEF h, src
<1>14. PacketsNamed' BY <1>2, <1>4 DEF DeliveryInv, PacketsNamed
<1>15. OwnPackets' BY <1>2, <1>3, <1>4 DEF DeliveryInv, OwnPackets
<1>16. OwnAcks' BY <1>2, <1>3, <1>4, <1>6, <1>8, <1>9 DEF DeliveryInv, OwnAcks
<1>17. OwnEntries' BY <1>3, <1>8, <1>9, <1>12 DEF DeliveryInv, OwnEntries
<1>18. EntriesYoung' BY <1>3, <1>8, <1>10, <1>11, <1>13 DEF DeliveryInv, EntriesYoung
<1>19. PacketsRemembered'
  <2> SUFFICES ASSUME NEW x \in net', x.kind = "data", got'[x.msg] = 1
               PROVE  (Age(x.msg))' <= x.age + MaxRetries
    BY DEF PacketsRemembered
  <2>1. x \in net BY <1>4
  <2>2. x.msg \in Msgs /\ x.age \in Nat
    BY <2>1, PacketsTyped, ConstantsTyped DEF DataPackets
  <2>3. CASE (Age(x.msg))' = 0 BY <2>2, <2>3, ConstantsTyped
  <2>4. CASE (Age(x.msg))' = Age(x.msg) /\ (Age(x.msg))' # 0
    BY <1>10, <1>13, <2>1, <2>2, <2>4 DEF DeliveryInv, PacketsRemembered
  <2> QED BY <1>11, <2>2, <2>3, <2>4
<1>20. Outcomes' BY <1>1, <1>3, <1>7, <1>8, <1>10 DEF DeliveryInv, Outcomes, PacketsNamed
<1> QED BY <1>14, <1>15, <1>16, <1>17, <1>18, <1>19, <1>20 DEF DeliveryInv

LEMMA DeliveryTick ==
    ASSUME TypeOK, TypeOK', DeliveryInv, Tick
    PROVE  DeliveryInv'
<1>1. UNCHANGED got BY DEF Tick
<1>2. ASSUME NEW n \in Msgs
      PROVE  /\ send'[n].st = send[n].st /\ send'[n].seq = send[n].seq
             /\ send'[n].acked = send[n].acked
             /\ Open(n) => send[n].st = "wait" /\ (Waited(n))' = Waited(n) + 1
  <2>1. send'[n] = IF send[n].st = "wait" THEN [send[n] EXCEPT !.age = 1] ELSE send[n]
    BY DEF Tick
  <2>2. send[n] \in SendState /\ send[n].st # "write" /\ ~(send[n].st = "wait" /\ send[n].age = 1)
    BY DEF Tick, TypeOK
  <2>3. CASE send[n].st = "wait"
    <3>1. send'[n] = [send[n] EXCEPT !.age = 1] BY <2>1, <2>3
    <3>2. send[n].age = 0 BY <2>2, <2>3 DEF SendState
    <3>3. /\ send'[n].st = "wait" /\ send'[n].age = 1 /\ send'[n].attempt = send[n].attempt
          /\ send'[n].seq = send[n].seq /\ send'[n].acked = send[n].acked
      BY <2>2, <2>3, <3>1 DEF SendState
    <3>4. send[n].attempt \in Nat BY FieldsTyped, ConstantsTyped
    <3> QED BY <2>3, <3>2, <3>3, <3>4 DEF Waited
  <2>4. CASE send[n].st # "wait" BY <2>1, <2>2, <2>4 DEF Open
  <2> QED BY <2>3, <2>4
<1>3. ASSUME NEW n \in Msgs
      PROVE  (Age(n))' = IF Age(n) < Forgotten THEN Age(n) + 1 ELSE Forgotten
  <2>1. Dst[n] \in Hosts /\ <<Src[n], send[n].seq>> \in Hosts \X Seqs BY FieldsTyped
  <2> QED BY <1>2, <2>1 DEF Tick, Age
<1>4. \A n \in Msgs : /\ Age(n) \in 0 .. Forgotten /\ Waited(n) \in Nat
                      /\ (Open(n))' = Open(n)
  BY <1>2, FieldsTyped DEF Open
<1>5. \A n \in Msgs : (Age(n))' <= Age(n) + 1 /\ ((Age(n))' <= Window => Age(n) <= Window)
  BY <1>3, <1>4, ConstantsTyped
<1>6. \A x \in net' : \E p \in net : x = Older(p) BY DEF Tick
<1>7. ASSUME NEW x \in net'
      PROVE  \E p \in net : /\ x.kind = p.kind /\ x.seq = p.seq /\ x.age = p.age + 1 /\ p.age \in Nat
                            /\ p.kind = "data" => x.msg = p.msg /\ p.msg \in Msgs
                            /\ p.kind = "ack" => x.to = p.to
  <2>1. PICK p \in net : x = Older(p) BY <1>6
  <2>2. CASE p \in DataPackets BY <2>1, <2>2, ConstantsTyped DEF Older, DataPackets
  <2>3. CASE p \in AckPackets BY <2>1, <2>3, ConstantsTyped DEF Older, AckPackets
  <2> QED BY <2>2, <2>3 DEF TypeOK
<1>8. PacketsNamed' BY <1>2, <1>7 DEF DeliveryInv, PacketsNamed
<1>9. OwnPackets' BY <1>2, <1>4, <1>7 DEF DeliveryInv, OwnPackets
<1>10. OwnAcks'
  <2> SUFFICES ASSUME NEW x \in net', NEW m \in Msgs, x.kind = "ack", (Open(m))',
                      x.to = Src[m], x.seq = send'[m].seq
               PROVE  got'[m] = 1
    BY DEF OwnAcks
  <2>1. PICK p \in net : p.kind = "ack" /\ x.seq = p.seq /\ x.to = p.to BY <1>7
  <2>2. Open(m) /\ p.to = Src[m] /\ p.seq = send[m].seq BY <1>2, <1>4, <2>1
  <2>3. got[m] = 1 BY <2>1, <2>2 DEF DeliveryInv, OwnAcks
  <2> QED BY <1>1, <2>3
<1>11. OwnEntries' BY <1>1, <1>4, <1>5 DEF DeliveryInv, OwnEntries
<1>12. EntriesYoung'
  <2> SUFFICES ASSUME NEW m \in Msgs, (Open(m))', got'[m] = 1 PROVE (Age(m))' <= (Waited(m))'
    BY DEF EntriesYoung
  <2>1. Age(m) <= Waited(m) BY <1>1, <1>4 DEF DeliveryInv, EntriesYoung
  <2>2. (Waited(m))' = Waited(m) + 1 /\ (Age(m))' <= Age(m) + 1 BY <1>2, <1>4, <1>5
  <2>3. Age(m) \in Nat /\ Waited(m) \in Nat /\ (Age(m))' \in Nat
    BY <1>3, <1>4, ConstantsTyped
  <2> QED BY <2>1, <2>2, <2>3
<1>13. PacketsRemembered'
  <2> SUFFICES ASSUME NEW x \in net', x.kind = "data", got'[x.msg] = 1
               PROVE  (Age(x.msg))' <= x.age + MaxRetries
    BY DEF PacketsRemembered
  <2>1. PICK p \in net : /\ p.kind = "data" /\ x.age = p.age + 1 /\ p.age \in Nat
                         /\ x.msg = p.msg /\ p.msg \in Msgs
    BY <1>7
  <2>2. Age(p.msg) <= p.age + MaxRetries
    BY <1>1, <2>1 DEF DeliveryInv, PacketsRemembered
  <2>3. (Age(p.msg))' <= Age(p.msg) + 1 /\ Age(p.msg) \in Nat
    BY <1>4, <1>5, <2>1, ConstantsTyped
  <2>4. (Age(p.msg))' \in Nat BY <1>3, <1>4, <2>1, ConstantsTyped
  <2> QED BY <2>1, <2>2, <2>3, <2>4, ConstantsTyped
<1>14. Outcomes' BY <1>1, <1>2, <1>4 DEF DeliveryInv, Outcomes
<1> QED BY <1>8, <1>9, <1>10, <1>11, <1>12, <1>13, <1>14 DEF DeliveryInv

LEMMA DeliveryRestart ==
    ASSUME TypeOK, TypeOK', WaiterInv, DeliveryInv, \A m \in Msgs : Dst[m] \notin Restarting,
           NEW h \in Hosts, Restart(h)
    PROVE  DeliveryInv'
<1>1. UNCHANGED <<got, net>> /\ h \in Restarting BY DEF Restart
<1>2. ASSUME NEW n \in Msgs
      PROVE  /\ send'[n].seq = send[n].seq
             /\ send'[n] = send[n] \/ (send'[n].st = "failed" /\ Open(n))
  <2>1. CASE Src[n] = h /\ Open(n)
    <3>1. send'[n] = [send[n] EXCEPT !.st = "failed", !.acked = FALSE, !.age = 0]
      BY <2>1 DEF Restart, Open
    <3>2. send[n] \in SendState BY DEF TypeOK
    <3> QED BY <2>1, <3>1, <3>2 DEF SendState
  <2>2. CASE ~(Src[n] = h /\ Open(n)) BY <2>2 DEF Restart, Open
  <2> QED BY <2>1, <2>2
<1>3. ASSUME NEW n \in Msgs PROVE (Age(n))' = Age(n)
  <2>1. Dst[n] # h /\ Dst[n] \in Hosts BY <1>1, FieldsTyped
  <2>2. seen_data'[Dst[n]] = seen_data[Dst[n]] BY <2>1 DEF Restart, TypeOK
  <2> QED BY <1>2, <2>2 DEF Age
<1>4. ASSUME NEW n \in Msgs
      PROVE  /\ (Open(n))' => Open(n) /\ (Waited(n))' >= Waited(n)
             /\ (Open(n))' /\ send'[n].acked => send[n].acked
             /\ send'[n].st = "new" <=> send[n].st = "new"
             /\ send'[n].st = "ok" => send[n].st = "ok"
  BY <1>2, FieldsTyped DEF Open, Waited
<1> QED BY <1>1, <1>2, <1>3, <1>4, QuietStep

LEMMA DeliveryNext ==
    ASSUME MaxRetries + Lifetime <= Window, \A m \in Msgs : Dst[m] \notin Restarting
    PROVE  TypeOK /\ WaiterInv /\ DeliveryInv /\ [PacedNext]_vars => DeliveryInv'
<1> SUFFICES ASSUME TypeOK, WaiterInv, DeliveryInv, [PacedNext]_vars PROVE DeliveryInv'
  OBVIOUS
<1>1. TypeOK' BY TypeOKNext, PacedIsNext
<1>2. ASSUME UNCHANGED <<send, seen_data, got>>, net' \subseteq net PROVE DeliveryInv'
  <2>1. \A n \in Msgs : /\ send'[n] = send[n] /\ (Age(n))' = Age(n)
                        /\ (Open(n))' = Open(n) /\ (Waited(n))' = Waited(n)
                        /\ Waited(n) \in Nat
    BY <1>2, FieldsTyped DEF Age, Open, Waited
  <2>2. \A n \in Msgs : (Waited(n))' >= Waited(n) BY <2>1
  <2> QED BY <1>1, <1>2, <2>1, <2>2, QuietStep
<1>3. ASSUME NEW m \in Msgs, WriteError(m) PROVE DeliveryInv'
  BY <1>1, <1>3, DeliveryFails DEF WriteError, Open
<1>4. ASSUME NEW p \in net, Lose(p) PROVE DeliveryInv'
  BY <1>2, <1>4 DEF Lose
<1>5. CASE UNCHANGED vars BY <1>2, <1>5 DEF vars
<1>6. ASSUME NEW p \in net, ReceiveAck(p) PROVE DeliveryInv'
  BY <1>1, <1>6, DeliveryAck
<1>7. ASSUME NEW p \in net, ReceiveData(p) PROVE DeliveryInv'
  BY <1>1, <1>7, DeliveryData
<1> QED BY <1>1, <1>3, <1>4, <1>5, <1>6, <1>7,
           DeliverySend, DeliveryWrite, DeliveryTimeout, DeliveryTick, DeliveryRestart
        DEF PacedNext, Steps, Network, Progress

-------------------------------------------------------------------------------
(* Every step of the paced transport is a step of Delivery.                 *)

LEMMA OneOutcome ==
    ASSUME NEW m \in Msgs, \A n \in Msgs : n # m => send'[n] = send[n]
    PROVE  outcomes' = [outcomes EXCEPT ![m] = outcomes'[m]]
  BY DEF outcomes, Open

LEMMA SameOutcomes ==
    ASSUME NEW m \in Msgs, \A n \in Msgs : n # m => send'[n] = send[n],
           Open(m), (Open(m))'
    PROVE  outcomes' = outcomes
  BY DEF outcomes, Open

LEMMA ReturnOutcome ==
    ASSUME TypeOK, NEW m \in Msgs, Open(m), NEW o \in {"ok", "failed"}, Return(m, o)
    PROVE  outcomes[m] = "open" /\ outcomes' = [outcomes EXCEPT ![m] = o]
<1>1. \A n \in Msgs : n # m => send'[n] = send[n] BY DEF Return, TypeOK
<1>2. send[m] \in SendState BY DEF TypeOK
<1>3. send'[m].st = o BY <1>2 DEF Return, TypeOK, SendState
<1>4. outcomes'[m] = o BY <1>3 DEF outcomes, Open
<1> QED BY <1>1, <1>4, OneOutcome DEF outcomes

LEMMA StepRefines ==
    ASSUME MaxRetries + Lifetime <= Window,
           TypeOK, WaiterInv, DeliveryInv, [PacedNext]_vars
    PROVE  [Promise!Next]_<<outcomes, got>>
<1>0. \A m \in Msgs : got[m] \in {0, 1} BY DEF DeliveryInv, Outcomes
<1>1. ASSUME NEW m \in Msgs, PacedSend(m) PROVE Promise!Next
  <2>1. \A n \in Msgs : n # m => send'[n] = send[n] BY <1>1 DEF PacedSend, Send, TypeOK
  <2>2. send[m].st = "new" /\ send'[m].st = "write" /\ got' = got
    BY <1>1 DEF PacedSend, Send, TypeOK, SendState
  <2>3. outcomes[m] = "new" /\ outcomes'[m] = "open" BY <2>2 DEF outcomes, Open
  <2>4. Promise!Send(m) BY <2>1, <2>2, <2>3, OneOutcome DEF Promise!Send
  <2> QED BY <2>4 DEF Promise!Next
<1>2. ASSUME NEW m \in Msgs, Write(m) PROVE [Promise!Next]_<<outcomes, got>>
  <2>1. Open(m) /\ got' = got BY <1>2 DEF Write, Open
  <2>2. CASE send[m].acked
    <3>1. got[m] = 1 BY <2>1, <2>2 DEF DeliveryInv, Outcomes
    <3>2. Return(m, "ok") BY <1>2, <2>2 DEF Write
    <3>3. Promise!Return(m) BY <2>1, <3>1, <3>2, ReturnOutcome DEF Promise!Return
    <3> QED BY <3>3 DEF Promise!Next
  <2>3. CASE ~send[m].acked
    <3>1. send' = [send EXCEPT ![m].st = "wait", ![m].age = 0] BY <1>2, <2>3 DEF Write
    <3>2. send[m] \in SendState BY DEF TypeOK
    <3>3. send'[m].st = "wait" BY <3>1, <3>2 DEF TypeOK, SendState
    <3>4. \A n \in Msgs : n # m => send'[n] = send[n] BY <3>1 DEF TypeOK
    <3>5. (Open(m))' BY <3>3 DEF Open
    <3> QED BY <2>1, <3>4, <3>5, SameOutcomes
  <2> QED BY <2>2, <2>3
<1>3. ASSUME NEW m \in Msgs, Open(m), Return(m, "failed"), got' = got PROVE Promise!Next
  <2>1. Promise!Return(m) BY <1>3, ReturnOutcome DEF Promise!Return
  <2> QED BY <2>1 DEF Promise!Next
<1>4. ASSUME NEW m \in Msgs, WriteError(m) PROVE Promise!Next
  BY <1>3, <1>4 DEF WriteError, Open
<1>5. ASSUME NEW m \in Msgs, Timeout(m) PROVE [Promise!Next]_<<outcomes, got>>
  <2>1. Open(m) /\ got' = got BY <1>5 DEF Timeout, Open
  <2>2. CASE send[m].attempt >= MaxRetries BY <1>3, <1>5, <2>1, <2>2 DEF Timeout
  <2>3. CASE ~(send[m].attempt >= MaxRetries)
    <3>1. send' = [send EXCEPT ![m].st = "write", ![m].attempt = @ + 1]
      BY <1>5, <2>3 DEF Timeout
    <3>2. send[m] \in SendState BY DEF TypeOK
    <3>3. send'[m].st = "write" BY <3>1, <3>2 DEF TypeOK, SendState
    <3>4. \A n \in Msgs : n # m => send'[n] = send[n] BY <3>1 DEF TypeOK
    <3>5. (Open(m))' BY <3>3 DEF Open
    <3> QED BY <2>1, <3>4, <3>5, SameOutcomes
  <2> QED BY <2>2, <2>3
<1>6. ASSUME NEW p \in net, ReceiveAck(p) PROVE [Promise!Next]_<<outcomes, got>>
  <2>0. p.to \in Hosts /\ p.seq \in Seqs
    BY <1>6, PacketsTyped DEF ReceiveAck, AckPackets
  <2>1. PICK m \in Msgs : m = pending_acks[p.to][p.seq]
    <3>1. pending_acks[p.to][p.seq] \in Msgs BY <1>6, AckOwner
    <3> QED BY <3>1
  <2>2. Open(m) /\ Src[m] = p.to /\ send[m].seq = p.seq
    BY <2>0, <2>1 DEF WaiterInv, NoStaleWaiter
  <2>3. got[m] = 1 /\ got' = got
    BY <1>6, <2>1, <2>2 DEF ReceiveAck, DeliveryInv, OwnAcks
  <2>4. send[m] \in SendState BY DEF TypeOK
  <2>5. CASE send[m].st = "wait"
    <3>1. send' = [send EXCEPT ![m].st = "ok", ![m].age = 0] BY <1>6, <2>1, <2>5 DEF ReceiveAck
    <3>2. \A n \in Msgs : n # m => send'[n] = send[n] BY <3>1 DEF TypeOK
    <3>3. send'[m].st = "ok" BY <2>4, <3>1 DEF TypeOK, SendState
    <3>4. outcomes[m] = "open" /\ outcomes'[m] = "ok" BY <2>2, <3>3 DEF outcomes, Open
    <3>5. Promise!Return(m) BY <2>3, <3>2, <3>4, OneOutcome DEF Promise!Return
    <3> QED BY <3>5 DEF Promise!Next
  <2>6. CASE send[m].st = "write"
    <3>1. send' = [send EXCEPT ![m].acked = TRUE] BY <1>6, <2>1, <2>6 DEF ReceiveAck
    <3>2. \A n \in Msgs : n # m => send'[n] = send[n] BY <3>1 DEF TypeOK
    <3>3. send'[m].st = "write" BY <2>4, <2>6, <3>1 DEF TypeOK, SendState
    <3>4. (Open(m))' BY <3>3 DEF Open
    <3> QED BY <2>2, <2>3, <3>2, <3>4, SameOutcomes
  <2> QED BY <2>2, <2>5, <2>6 DEF Open
<1>7. ASSUME NEW p \in net, ReceiveData(p) PROVE [Promise!Next]_<<outcomes, got>>
  <2>1. outcomes' = outcomes BY <1>7 DEF ReceiveData, outcomes, Open
  <2>2. CASE Remembered(Dst[p.msg], Src[p.msg], p.seq) BY <1>7, <2>1, <2>2 DEF ReceiveData
  <2>3. CASE ~Remembered(Dst[p.msg], Src[p.msg], p.seq)
    <3>1. p.msg \in Msgs /\ send[p.msg].st # "new"
      BY <1>7, PacketsTyped DEF ReceiveData, DataPackets, DeliveryInv, PacketsNamed
    <3>2. got[p.msg] = 0 BY <1>7, <2>3, NotRemembered DEF ReceiveData
    <3>3. got' = [got EXCEPT ![p.msg] = 1] BY <1>7, <2>3, <3>1, <3>2 DEF ReceiveData, TypeOK
    <3>4. outcomes[p.msg] # "new" BY <3>1 DEF outcomes, Open
    <3>5. Promise!Deliver(p.msg) BY <2>1, <3>2, <3>3, <3>4 DEF Promise!Deliver
    <3> QED BY <3>1, <3>5 DEF Promise!Next
  <2> QED BY <2>2, <2>3
<1>8. ASSUME NEW p \in net, Lose(p) PROVE UNCHANGED <<outcomes, got>>
  BY <1>8 DEF Lose, outcomes, Open
<1>9. ASSUME Tick PROVE UNCHANGED <<outcomes, got>>
  <2>1. ASSUME NEW n \in Msgs PROVE send'[n].st = send[n].st
    <3>1. send'[n] = IF send[n].st = "wait" THEN [send[n] EXCEPT !.age = 1] ELSE send[n]
      BY <1>9 DEF Tick
    <3>2. send[n] \in SendState BY DEF TypeOK
    <3> QED BY <3>1, <3>2 DEF SendState
  <2> QED BY <1>9, <2>1 DEF Tick, outcomes, Open
<1>10. ASSUME NEW h \in Hosts, Restart(h) PROVE Promise!Next
  <2> DEFINE sends == {m \in Msgs : Src[m] = h /\ Open(m)}
  <2>1. got' = got BY <1>10 DEF Restart
  <2>2. \A m \in sends : outcomes[m] = "open" BY DEF outcomes
  <2>3. ASSUME NEW m \in Msgs
        PROVE  (IF Open(m) THEN "open" ELSE send[m].st)'
                  = IF m \in sends THEN "failed" ELSE outcomes[m]
    <3>1. CASE m \in sends
      <4>1. send'[m] = [send[m] EXCEPT !.st = "failed", !.acked = FALSE, !.age = 0]
        BY <1>10, <3>1 DEF Restart, Open
      <4>2. send[m] \in SendState BY DEF TypeOK
      <4>3. send'[m].st = "failed" BY <4>1, <4>2 DEF SendState
      <4> QED BY <3>1, <4>3 DEF Open
    <3>2. CASE m \notin sends
      <4>1. send'[m] = send[m] BY <1>10, <3>2 DEF Restart, Open
      <4> QED BY <3>2, <4>1 DEF Open, outcomes
    <3> QED BY <3>1, <3>2
  <2>4. outcomes' = [m \in Msgs |-> IF m \in sends THEN "failed" ELSE outcomes[m]]
    BY <2>3 DEF outcomes
  <2>5. Promise!Fail(sends) BY <2>1, <2>2, <2>4 DEF Promise!Fail
  <2>6. sends \in SUBSET Msgs OBVIOUS
  <2> HIDE DEF sends
  <2> QED BY <2>5, <2>6 DEF Promise!Next
<1>11. CASE UNCHANGED vars BY <1>11 DEF vars, outcomes, Open
<1> QED BY <1>1, <1>2, <1>4, <1>5, <1>6, <1>7, <1>8, <1>9, <1>10, <1>11
        DEF PacedNext, Steps, Network, Progress

(* When a packet dies, and the sender gives up, before the receiver forgets *)
(* the number, and no receiver restarts, the paced transport implements     *)
(* Delivery: Ok is returned only for a message that was handed over, and    *)
(* none is handed over twice, whatever is lost, repeated or reordered, and  *)
(* although numbers are used again.                                         *)
THEOREM Reliable ==
    ASSUME MaxRetries + Lifetime <= Window, \A m \in Msgs : Dst[m] \notin Restarting
    PROVE  Paced => ImplementsDelivery
<1>1. Init => TypeOK /\ WaiterInv /\ DeliveryInv BY TypeOKInit, WaiterInit, WaiterInvOf, DeliveryInit
<1>2. TypeOK /\ WaiterInv /\ DeliveryInv /\ [PacedNext]_vars
         => (TypeOK /\ WaiterInv /\ DeliveryInv)'
  BY TypeOKNext, WaiterNext, DeliveryNext, PacedIsNext
<1>3. Init => Promise!Init BY DEF Init, Promise!Init, outcomes, Open
<1>4. TypeOK /\ WaiterInv /\ DeliveryInv /\ [PacedNext]_vars => [Promise!Next]_<<outcomes, got>>
  BY StepRefines
<1> QED BY <1>1, <1>2, <1>3, <1>4, PTL DEF Paced, ImplementsDelivery, Promise!Spec

-------------------------------------------------------------------------------
(* What the steps of the transport come to, for the modules that extend it. *)

(* What the steps of an open send come to: it waits, it tries again, or it *)
(* returns.                                                                *)
LEMMA Turns ==
    ASSUME TypeOK, NEW m \in Msgs, Progress(m)
    PROVE  /\ Open(m) /\ UNCHANGED <<got, seen_data>>
           /\ \A n \in Msgs : n # m => send'[n] = send[n]
           /\ \A p \in net' : p \in net \/ (p = DataPacket(m) /\ send[m].st = "write")
           /\ send'[m].seq = send[m].seq
           /\ \/ /\ send'[m].st \in {"write", "wait"} /\ send'[m].acked = send[m].acked
                 /\ (Waited(m))' >= Waited(m)
              \/ send'[m].st = "ok" /\ send[m].acked
              \/ send'[m].st = "failed"
<1>1. send[m] \in SendState /\ \A n \in Msgs : send[n] \in SendState BY DEF TypeOK
<1>2. ASSUME NEW o \in {"ok", "failed"}, Return(m, o)
      PROVE  /\ send'[m].st = o /\ send'[m].seq = send[m].seq
             /\ \A n \in Msgs : n # m => send'[n] = send[n]
  BY <1>1, <1>2 DEF Return, TypeOK, SendState
<1>3. CASE Write(m)
  <2>1. Open(m) /\ send[m].st = "write" /\ UNCHANGED <<got, seen_data>>
    BY <1>3 DEF Write, Open
  <2>2. \A p \in net' : p \in net \/ p = DataPacket(m) BY <1>3 DEF Write
  <2>3. CASE send[m].acked
    <3>1. Return(m, "ok") BY <1>3, <2>3 DEF Write
    <3> QED BY <1>2, <2>1, <2>2, <2>3, <3>1
  <2>4. CASE ~send[m].acked
    <3>1. send' = [send EXCEPT ![m].st = "wait", ![m].age = 0] BY <1>3, <2>4 DEF Write
    <3>2. /\ send'[m].st = "wait" /\ send'[m].seq = send[m].seq
          /\ send'[m].acked = send[m].acked
          /\ send'[m].age = 0 /\ send'[m].attempt = send[m].attempt
          /\ \A n \in Msgs : n # m => send'[n] = send[n]
      BY <1>1, <3>1 DEF TypeOK, SendState
    <3>3. (Waited(m))' >= Waited(m)
      BY <2>1, <3>2, FieldsTyped, ConstantsTyped DEF Waited
    <3> QED BY <2>1, <2>2, <3>2, <3>3
  <2> QED BY <2>3, <2>4
<1>4. CASE WriteError(m)
  <2>1. Open(m) /\ Return(m, "failed") /\ UNCHANGED <<got, seen_data, net>>
    BY <1>4 DEF WriteError, Open
  <2> QED BY <1>2, <2>1
<1>5. CASE Timeout(m)
  <2>1. Open(m) /\ send[m].st = "wait" /\ send[m].age = 1 /\ UNCHANGED <<got, seen_data, net>>
    BY <1>5 DEF Timeout, Open
  <2>2. CASE send[m].attempt >= MaxRetries
    <3>1. Return(m, "failed") BY <1>5, <2>2 DEF Timeout
    <3> QED BY <1>2, <2>1, <3>1
  <2>3. CASE ~(send[m].attempt >= MaxRetries)
    <3>1. send' = [send EXCEPT ![m].st = "write", ![m].attempt = @ + 1]
      BY <1>5, <2>3 DEF Timeout
    <3>2. /\ send'[m].st = "write" /\ send'[m].seq = send[m].seq
          /\ send'[m].acked = send[m].acked /\ send'[m].attempt = send[m].attempt + 1
          /\ \A n \in Msgs : n # m => send'[n] = send[n]
      BY <1>1, <3>1 DEF TypeOK, SendState
    <3>3. (Waited(m))' >= Waited(m)
      BY <2>1, <3>2, FieldsTyped, ConstantsTyped DEF Waited
    <3> QED BY <2>1, <3>2, <3>3
  <2> QED BY <2>2, <2>3
<1> QED BY <1>3, <1>4, <1>5 DEF Progress

(* An acknowledgement that wakes a send is its own. *)
LEMMA Woken ==
    ASSUME TypeOK, NoStaleWaiter, NEW p \in net, ReceiveAck(p)
    PROVE  \E m \in Msgs :
              /\ p.kind = "ack" /\ Open(m) /\ p.to = Src[m] /\ p.seq = send[m].seq
              /\ UNCHANGED <<got, seen_data, net>>
              /\ \A n \in Msgs : n # m => send'[n] = send[n]
              /\ send'[m].seq = send[m].seq
              /\ \/ send'[m].st = "ok"
                 \/ send'[m].st = "write" /\ (Waited(m))' >= Waited(m)
<1>0. p.to \in Hosts /\ p.seq \in Seqs BY PacketsTyped DEF ReceiveAck, AckPackets
<1>1. PICK m \in Msgs : m = pending_acks[p.to][p.seq]
  <2>1. pending_acks[p.to][p.seq] \in Msgs BY AckOwner
  <2> QED BY <2>1
<1>2. Open(m) /\ Src[m] = p.to /\ send[m].seq = p.seq
  BY <1>0, <1>1 DEF NoStaleWaiter
<1>3. UNCHANGED <<got, seen_data, net>> /\ p.kind = "ack" BY DEF ReceiveAck
<1>4. send[m] \in SendState BY DEF TypeOK
<1>5. CASE send[m].st = "wait"
  <2>1. send' = [send EXCEPT ![m].st = "ok", ![m].age = 0] BY <1>1, <1>5 DEF ReceiveAck
  <2>2. /\ send'[m].st = "ok" /\ send'[m].seq = send[m].seq
        /\ \A n \in Msgs : n # m => send'[n] = send[n]
    BY <1>4, <2>1 DEF TypeOK, SendState
  <2> QED BY <1>2, <1>3, <2>2
<1>6. CASE send[m].st = "write"
  <2>1. send' = [send EXCEPT ![m].acked = TRUE] BY <1>1, <1>6 DEF ReceiveAck
  <2>2. /\ send'[m].st = "write" /\ send'[m].seq = send[m].seq
        /\ send'[m].attempt = send[m].attempt
        /\ \A n \in Msgs : n # m => send'[n] = send[n]
    BY <1>4, <1>6, <2>1 DEF TypeOK, SendState
  <2>3. (Waited(m))' >= Waited(m)
    BY <1>6, <2>2, FieldsTyped, ConstantsTyped DEF Waited
  <2> QED BY <1>2, <1>3, <2>2, <2>3
<1> QED BY <1>2, <1>5, <1>6 DEF Open

(* What the receipt of a data packet comes to. *)
LEMMA Handed ==
    ASSUME TypeOK, PacketsNamed, NEW p \in net, ReceiveData(p)
    PROVE  /\ p.msg \in Msgs /\ p.seq = send[p.msg].seq /\ send[p.msg].st # "new"
           /\ \/ /\ Remembered(Dst[p.msg], Src[p.msg], p.seq) /\ UNCHANGED <<seen_data, got>>
                 /\ \A n \in Msgs : (Age(n))' = Age(n)
              \/ /\ ~Remembered(Dst[p.msg], Src[p.msg], p.seq)
                 /\ got' = [got EXCEPT ![p.msg] = @ + 1] /\ got'[p.msg] > got[p.msg]
                 /\ got'[p.msg] > 0
                 /\ \A n \in Msgs : n # p.msg => got'[n] = got[n]
                 /\ \A n \in Msgs : (Age(n))' =
                       IF Dst[n] = Dst[p.msg] /\ Src[n] = Src[p.msg] /\ send[n].seq = p.seq
                       THEN 0 ELSE Age(n)
<1> DEFINE h == Dst[p.msg]
           src == Src[p.msg]
<1>1. /\ p.msg \in Msgs /\ p.seq \in Seqs /\ p.seq = send[p.msg].seq /\ send[p.msg].st # "new"
      /\ h \in Hosts /\ src \in Hosts
  BY PacketsTyped, ConstantsTyped DEF ReceiveData, DataPackets, PacketsNamed
<1>2. UNCHANGED send BY DEF ReceiveData
<1>3. CASE Remembered(h, src, p.seq)
  BY <1>1, <1>2, <1>3 DEF ReceiveData, Age
<1>4. CASE ~Remembered(h, src, p.seq)
  <2>1. /\ seen_data' = [seen_data EXCEPT ![h][<<src, p.seq>>] = 0]
        /\ got' = [got EXCEPT ![p.msg] = @ + 1]
    BY <1>4 DEF ReceiveData
  <2>2. /\ got'[p.msg] > got[p.msg] /\ got'[p.msg] > 0
        /\ \A n \in Msgs : n # p.msg => got'[n] = got[n]
    BY <1>1, <2>1 DEF TypeOK
  <2>3. ASSUME NEW n \in Msgs
        PROVE  (Age(n))' = IF Dst[n] = h /\ Src[n] = src /\ send[n].seq = p.seq
                           THEN 0 ELSE Age(n)
    <3>1. Dst[n] \in Hosts /\ <<Src[n], send[n].seq>> \in Hosts \X Seqs
      BY FieldsTyped
    <3>2. <<Src[n], send[n].seq>> = <<src, p.seq>> <=> Src[n] = src /\ send[n].seq = p.seq
      OBVIOUS
    <3> QED BY <1>1, <1>2, <2>1, <3>1, <3>2 DEF Age, TypeOK
  <2> QED BY <1>1, <1>4, <2>1, <2>2, <2>3
<1> QED BY <1>3, <1>4

(* After a restart a host remembers no number, and its sends have failed. *)
LEMMA Restarted ==
    ASSUME TypeOK, NEW h \in Hosts, Restart(h), NEW n \in Msgs
    PROVE  /\ send'[n].seq = send[n].seq
           /\ send'[n] = send[n] \/ (send'[n].st = "failed" /\ Open(n) /\ Src[n] = h)
           /\ Dst[n] = h => (Age(n))' = Forgotten
<1>1. send[n] \in SendState /\ send[n].seq \in Seqs /\ Src[n] \in Hosts
  BY FieldsTyped DEF TypeOK
<1>2. /\ send'[n].seq = send[n].seq
      /\ send'[n] = send[n] \/ (send'[n].st = "failed" /\ Open(n) /\ Src[n] = h)
  <2>1. CASE Src[n] = h /\ Open(n)
    <3>1. send'[n] = [send[n] EXCEPT !.st = "failed", !.acked = FALSE, !.age = 0]
      BY <2>1 DEF Restart, Open
    <3> QED BY <1>1, <2>1, <3>1 DEF SendState
  <2>2. CASE ~(Src[n] = h /\ Open(n)) BY <2>2 DEF Restart, Open
  <2> QED BY <2>1, <2>2
<1>3. ASSUME Dst[n] = h PROVE (Age(n))' = Forgotten
  <2>1. seen_data'[h] = [k \in Hosts \X Seqs |-> Forgotten] BY DEF Restart, TypeOK
  <2>2. <<Src[n], send'[n].seq>> \in Hosts \X Seqs BY <1>1, <1>2
  <2> QED BY <1>3, <2>1, <2>2 DEF Age
<1> QED BY <1>2, <1>3

-------------------------------------------------------------------------------
(* A message is kept while the receiver that was given it will recognise   *)
(* every packet of it that is under way or can still be written.           *)

NamedInv == PacketsNamed /\ OwnPackets

Kept(m) ==
    /\ send[m].st # "new"
    /\ Open(m) => Age(m) <= Waited(m)
    /\ \A p \in net : p.kind = "data" /\ p.msg = m => Age(m) <= p.age + MaxRetries

(* Every step but a restart of a host. *)
Live == Network \/ Tick \/ \E m \in Msgs : Progress(m) \/ PacedSend(m)

LEMMA NamedQuiet ==
    ASSUME TypeOK, WaiterInv, NamedInv,
           \A n \in Msgs : /\ send'[n].seq = send[n].seq
                           /\ send'[n].st = "new" <=> send[n].st = "new"
                           /\ (Open(n))' => Open(n),
           \A p \in net' : p.kind = "data" =>
              p \in net \/ \E m \in Msgs : p = DataPacket(m) /\ send[m].st = "write"
    PROVE  NamedInv'
<1>1. \A p \in net' : p.kind = "data" =>
        \/ p \in net
        \/ p.msg \in Msgs /\ send[p.msg].st = "write" /\ p.seq = send[p.msg].seq
  BY DEF DataPacket
<1>2. \A p \in net : p.kind = "data" => p.msg \in Msgs
  BY PacketsTyped DEF DataPackets
<1>3. PacketsNamed' BY <1>1, <1>2 DEF NamedInv, PacketsNamed
<1>4. OwnPackets' BY <1>1, <1>2 DEF NamedInv, OwnPackets, WaiterInv, OwnNumbers, Open
<1> QED BY <1>3, <1>4 DEF NamedInv

LEMMA KeptQuiet ==
    ASSUME TypeOK, TypeOK', NEW m \in Msgs, Kept(m),
           send'[m].seq = send[m].seq, send'[m].st # "new",
           (Age(m))' = Age(m) \/ (Age(m))' = 0,
           (Open(m))' => Open(m) /\ (Waited(m))' >= Waited(m),
           \A p \in net' : p.kind = "data" /\ p.msg = m =>
              p \in net \/ (p = DataPacket(m) /\ send[m].st = "write")
    PROVE  Kept(m)'
<1>1. Age(m) \in Nat /\ Waited(m) \in Nat /\ MaxRetries \in Nat
  BY FieldsTyped, ConstantsTyped
<1>2. (Waited(m))' \in Nat /\ (Age(m))' \in Nat
  <2>1. send'[m] \in SendState BY DEF TypeOK
  <2> QED BY <1>1, <2>1, ConstantsTyped DEF Waited, SendState
<1>3. (Open(m))' => (Age(m))' <= (Waited(m))'
  BY <1>1, <1>2 DEF Kept
<1>4. ASSUME NEW p \in net', p.kind = "data", p.msg = m
      PROVE  (Age(m))' <= p.age + MaxRetries
  <2>1. CASE p \in net
    <3>1. Age(m) <= p.age + MaxRetries BY <1>4, <2>1 DEF Kept
    <3>2. p.age \in Nat BY <1>4, <2>1, PacketsTyped, ConstantsTyped DEF DataPackets
    <3> QED BY <1>1, <3>1, <3>2
  <2>2. CASE p = DataPacket(m) /\ send[m].st = "write"
    <3>1. p.age = 0 BY <2>2 DEF DataPacket
    <3>2. Age(m) <= Waited(m) BY <2>2 DEF Kept, Open
    <3>3. Waited(m) = send[m].attempt /\ send[m].attempt \in 0 .. MaxRetries
      BY <2>2, FieldsTyped DEF Waited
    <3> QED BY <1>1, <3>1, <3>2, <3>3
  <2> QED BY <1>4, <2>1, <2>2
<1> QED BY <1>3, <1>4 DEF Kept

LEMMA KeptTick ==
    ASSUME TypeOK, TypeOK', NamedInv, Tick
    PROVE  NamedInv' /\ \A m \in Msgs : Kept(m) => Kept(m)'
<1>1. ASSUME NEW n \in Msgs
      PROVE  /\ send'[n].st = send[n].st /\ send'[n].seq = send[n].seq
             /\ Open(n) => (Waited(n))' = Waited(n) + 1
  <2>1. send'[n] = IF send[n].st = "wait" THEN [send[n] EXCEPT !.age = 1] ELSE send[n]
    BY DEF Tick
  <2>2. send[n] \in SendState /\ send[n].st # "write" /\ ~(send[n].st = "wait" /\ send[n].age = 1)
    BY DEF Tick, TypeOK
  <2>3. CASE send[n].st = "wait"
    <3>1. send'[n] = [send[n] EXCEPT !.age = 1] BY <2>1, <2>3
    <3>2. send[n].age = 0 BY <2>2, <2>3 DEF SendState
    <3>3. /\ send'[n].st = "wait" /\ send'[n].age = 1 /\ send'[n].attempt = send[n].attempt
          /\ send'[n].seq = send[n].seq
      BY <2>2, <2>3, <3>1 DEF SendState
    <3>4. send[n].attempt \in Nat BY FieldsTyped, ConstantsTyped
    <3> QED BY <2>3, <3>2, <3>3, <3>4 DEF Waited
  <2>4. CASE send[n].st # "wait" BY <2>1, <2>2, <2>4 DEF Open
  <2> QED BY <2>3, <2>4
<1>2. ASSUME NEW n \in Msgs
      PROVE  (Age(n))' = IF Age(n) < Forgotten THEN Age(n) + 1 ELSE Forgotten
  <2>1. Dst[n] \in Hosts /\ <<Src[n], send[n].seq>> \in Hosts \X Seqs BY FieldsTyped
  <2> QED BY <1>1, <2>1 DEF Tick, Age
<1>3. \A n \in Msgs : /\ Age(n) \in 0 .. Forgotten /\ Waited(n) \in Nat
                      /\ (Open(n))' = Open(n)
  BY <1>1, FieldsTyped DEF Open
<1>4. \A n \in Msgs : (Age(n))' <= Age(n) + 1 /\ Age(n) \in Nat /\ (Age(n))' \in Nat
  BY <1>2, <1>3, ConstantsTyped
<1>5. ASSUME NEW x \in net', x.kind = "data"
      PROVE  \E p \in net : /\ p.kind = "data" /\ x.seq = p.seq /\ x.age = p.age + 1
                            /\ p.age \in Nat /\ x.msg = p.msg /\ p.msg \in Msgs
  <2>1. PICK p \in net : x = Older(p) BY DEF Tick
  <2>2. CASE p \in DataPackets BY <2>1, <2>2, ConstantsTyped DEF Older, DataPackets
  <2>3. CASE p \in AckPackets BY <1>5, <2>1, <2>3, ConstantsTyped DEF Older, AckPackets
  <2> QED BY <2>2, <2>3 DEF TypeOK
<1>6. PacketsNamed' BY <1>1, <1>5 DEF NamedInv, PacketsNamed
<1>7. OwnPackets' BY <1>1, <1>3, <1>5 DEF NamedInv, OwnPackets
<1>8. ASSUME NEW m \in Msgs, Kept(m) PROVE Kept(m)'
  <2>1. send'[m].st # "new" BY <1>1, <1>8 DEF Kept
  <2>2. (Open(m))' => (Age(m))' <= (Waited(m))'
    <3> SUFFICES ASSUME (Open(m))' PROVE (Age(m))' <= (Waited(m))'
      OBVIOUS
    <3>1. Open(m) BY <1>3
    <3>2. Age(m) <= Waited(m) BY <1>8, <3>1 DEF Kept
    <3>3. (Waited(m))' = Waited(m) + 1 /\ Waited(m) \in Nat BY <1>1, <1>3, <3>1
    <3> QED BY <1>4, <3>2, <3>3
  <2>3. ASSUME NEW x \in net', x.kind = "data", x.msg = m
        PROVE  (Age(m))' <= x.age + MaxRetries
    <3>1. PICK p \in net : p.kind = "data" /\ x.age = p.age + 1 /\ p.age \in Nat /\ p.msg = m
      BY <1>5, <2>3
    <3>2. Age(m) <= p.age + MaxRetries BY <1>8, <3>1 DEF Kept
    <3> QED BY <1>4, <3>1, <3>2, ConstantsTyped
  <2> QED BY <2>1, <2>2, <2>3 DEF Kept
<1> QED BY <1>6, <1>7, <1>8 DEF NamedInv

LEMMA KeptSend ==
    ASSUME TypeOK, TypeOK', NamedInv, NEW m \in Msgs, PacedSend(m)
    PROVE  NamedInv' /\ \A n \in Msgs : Kept(n) => Kept(n)'
<1> DEFINE h == Src[m]
           q == next_seq[Src[m]]
<1>1. \A n \in Msgs : n # m => send'[n] = send[n]
  BY DEF PacedSend, Send, TypeOK
<1>2. send[m].st = "new" /\ send'[m].st = "write" /\ send'[m].seq = q
  BY DEF PacedSend, Send, TypeOK, SendState
<1>3. UNCHANGED <<seen_data, net, got>> BY DEF PacedSend, Send
<1>4. \A p \in net : p.kind = "data" => ~(p.seq = q /\ Src[p.msg] = h)
  BY DEF PacedSend, Free, Unused
<1>5. \A p \in net : p.kind = "data" => p.msg \in Msgs /\ p.msg # m
  BY <1>2, PacketsTyped DEF DataPackets, NamedInv, PacketsNamed
<1>6. \A n \in Msgs : n # m => /\ (Open(n))' = Open(n) /\ (Age(n))' = Age(n)
                               /\ (Waited(n))' = Waited(n)
  BY <1>1, <1>3 DEF Open, Age, Waited
<1>7. PacketsNamed' BY <1>1, <1>3, <1>5 DEF NamedInv, PacketsNamed
<1>8. OwnPackets' BY <1>1, <1>2, <1>3, <1>4, <1>5, <1>6 DEF NamedInv, OwnPackets
<1>9. ASSUME NEW n \in Msgs, Kept(n) PROVE Kept(n)'
  <2>1. n # m BY <1>2, <1>9 DEF Kept
  <2> QED BY <1>1, <1>3, <1>6, <1>9, <2>1 DEF Kept
<1> QED BY <1>7, <1>8, <1>9 DEF NamedInv

(* What is kept stays kept until a host restarts. *)
LEMMA KeptNext ==
    ASSUME TypeOK, TypeOK', WaiterInv, NamedInv, [Live]_vars
    PROVE  NamedInv' /\ \A m \in Msgs : Kept(m) => Kept(m)'
<1> DEFINE Goal == NamedInv' /\ \A m \in Msgs : Kept(m) => Kept(m)'
<1>0. \A n \in Msgs : Waited(n) >= Waited(n) BY FieldsTyped
<1>1. ASSUME NEW c \in Msgs,
             \A n \in Msgs : n # c => send'[n] = send[n],
             /\ Open(c) /\ send'[c].st # "new" /\ send'[c].seq = send[c].seq
             /\ (Open(c))' => (Waited(c))' >= Waited(c),
             UNCHANGED seen_data,
             \A p \in net' : p \in net \/ (p = DataPacket(c) /\ send[c].st = "write")
      PROVE  Goal
  <2>1. \A n \in Msgs : /\ send'[n].seq = send[n].seq
                        /\ send'[n].st = "new" <=> send[n].st = "new"
                        /\ (Open(n))' => Open(n)
    BY <1>1 DEF Open
  <2>2. NamedInv' BY <1>1, <2>1, NamedQuiet
  <2>3. ASSUME NEW m \in Msgs, Kept(m) PROVE Kept(m)'
    <3>1. send'[m].seq = send[m].seq /\ send'[m].st # "new" BY <2>1, <2>3 DEF Kept
    <3>2. (Age(m))' = Age(m) BY <1>1, <3>1 DEF Age
    <3>3. (Open(m))' => Open(m) /\ (Waited(m))' >= Waited(m)
      <4>1. CASE m = c BY <1>1, <4>1
      <4>2. CASE m # c
        <5>1. send'[m] = send[m] BY <1>1, <4>2
        <5>2. (Open(m))' = Open(m) /\ (Waited(m))' = Waited(m) BY <5>1 DEF Open, Waited
        <5> QED BY <1>0, <5>2
      <4> QED BY <4>1, <4>2
    <3>4. \A p \in net' : p.kind = "data" /\ p.msg = m =>
             p \in net \/ (p = DataPacket(m) /\ send[m].st = "write")
      BY <1>1 DEF DataPacket
    <3> QED BY <2>3, <3>1, <3>2, <3>3, <3>4, KeptQuiet
  <2> QED BY <2>2, <2>3
<1>2. ASSUME UNCHANGED send, \A n \in Msgs : (Age(n))' = Age(n) \/ (Age(n))' = 0,
             \A p \in net' : p.kind = "data" => p \in net
      PROVE  Goal
  <2>1. \A n \in Msgs : (Open(n))' = Open(n) /\ (Waited(n))' = Waited(n)
    BY <1>2 DEF Open, Waited
  <2>2. NamedInv' BY <1>2, <2>1, NamedQuiet
  <2>3. ASSUME NEW m \in Msgs, Kept(m) PROVE Kept(m)'
    <3>1. send'[m].seq = send[m].seq /\ send'[m].st # "new" BY <1>2, <2>3 DEF Kept
    <3> QED BY <1>0, <1>2, <2>1, <2>3, <3>1, KeptQuiet
  <2> QED BY <2>2, <2>3
<1>3. ASSUME NEW p \in net, ReceiveAck(p) PROVE Goal
  <2>1. PICK c \in Msgs :
           /\ Open(c) /\ UNCHANGED <<got, seen_data, net>>
           /\ \A n \in Msgs : n # c => send'[n] = send[n]
           /\ send'[c].seq = send[c].seq
           /\ \/ send'[c].st = "ok"
              \/ send'[c].st = "write" /\ (Waited(c))' >= Waited(c)
    BY <1>3, Woken DEF WaiterInv
  <2>2. send'[c].st # "new" /\ ((Open(c))' => (Waited(c))' >= Waited(c))
    BY <2>1 DEF Open
  <2> QED BY <1>1, <2>1, <2>2
<1>4. ASSUME NEW p \in net, ReceiveData(p) PROVE Goal
  <2>1. \A n \in Msgs : (Age(n))' = Age(n) \/ (Age(n))' = 0
    BY <1>4, Handed DEF NamedInv
  <2>2. UNCHANGED send BY <1>4 DEF ReceiveData
  <2>3. \A x \in net' : x.kind = "data" => x \in net BY <1>4 DEF ReceiveData, AckPacket
  <2> QED BY <1>2, <2>1, <2>2, <2>3
<1>5. ASSUME NEW p \in net, Lose(p) PROVE Goal
  <2>1. UNCHANGED <<send, seen_data>> /\ net' \subseteq net BY <1>5 DEF Lose
  <2>2. \A n \in Msgs : (Age(n))' = Age(n) BY <2>1 DEF Age
  <2> QED BY <1>2, <2>1, <2>2
<1>6. ASSUME NEW m \in Msgs, Progress(m) PROVE Goal
  <2>1. /\ Open(m) /\ UNCHANGED seen_data
        /\ \A n \in Msgs : n # m => send'[n] = send[n]
        /\ \A p \in net' : p \in net \/ (p = DataPacket(m) /\ send[m].st = "write")
        /\ send'[m].seq = send[m].seq
        /\ \/ /\ send'[m].st \in {"write", "wait"} /\ (Waited(m))' >= Waited(m)
           \/ send'[m].st \in {"ok", "failed"}
    BY <1>6, Turns
  <2>2. send'[m].st # "new" /\ ((Open(m))' => (Waited(m))' >= Waited(m))
    BY <2>1 DEF Open
  <2> QED BY <1>1, <2>1, <2>2
<1>7. CASE Tick BY <1>7, KeptTick
<1>8. ASSUME NEW m \in Msgs, PacedSend(m) PROVE Goal BY <1>8, KeptSend
<1>9. CASE UNCHANGED vars
  <2>1. UNCHANGED <<send, seen_data, net>> BY <1>9 DEF vars
  <2>2. \A n \in Msgs : (Age(n))' = Age(n) BY <2>1 DEF Age
  <2> QED BY <1>2, <2>1, <2>2
<1>10. CASE Network BY <1>3, <1>4, <1>5, <1>10 DEF Network
<1>11. CASE \E m \in Msgs : Progress(m) \/ PacedSend(m) BY <1>6, <1>8, <1>11
<1> QED BY <1>7, <1>9, <1>10, <1>11 DEF Live

(* A packet of a message that is kept is recognised, and the receiver that *)
(* is given a message keeps it.                                            *)
LEMMA KeptKnown ==
    ASSUME TypeOK, NamedInv, MaxRetries + Lifetime <= Window,
           NEW p \in net, p.kind = "data", Kept(p.msg)
    PROVE  Remembered(Dst[p.msg], Src[p.msg], p.seq)
<1>1. p.msg \in Msgs /\ p.seq = send[p.msg].seq /\ p.age \in 0 .. Lifetime
  BY PacketsTyped DEF DataPackets, NamedInv, PacketsNamed
<1>2. Age(p.msg) <= p.age + MaxRetries BY DEF Kept
<1>3. Age(p.msg) \in Nat BY <1>1, FieldsTyped, ConstantsTyped
<1>4. Age(p.msg) <= Window BY <1>1, <1>2, <1>3, ConstantsTyped
<1> QED BY <1>1, <1>4 DEF Remembered, Age

LEMMA GivenIsKept ==
    ASSUME TypeOK, TypeOK', NamedInv, NEW p \in net, ReceiveData(p),
           ~Remembered(Dst[p.msg], Src[p.msg], p.seq)
    PROVE  Kept(p.msg)'
<1>1. p.msg \in Msgs /\ p.seq = send[p.msg].seq /\ send[p.msg].st # "new" /\ (Age(p.msg))' = 0
  BY Handed DEF NamedInv
<1>2. UNCHANGED send BY DEF ReceiveData
<1>3. (Waited(p.msg))' \in Nat
  <2>1. send'[p.msg] \in SendState BY <1>1 DEF TypeOK
  <2> QED BY <2>1, ConstantsTyped DEF Waited, SendState
<1>4. \A x \in net' : x.kind = "data" => x.age \in Nat
  BY ConstantsTyped DEF TypeOK, DataPackets, AckPackets
<1> QED BY <1>1, <1>2, <1>3, <1>4, ConstantsTyped DEF Kept
===============================================================================
