------------------------------ MODULE KernelProofs ------------------------------
(***************************************************************************)
(* The kernel of NanoOS over its transport is a remote shell, for any      *)
(* script, any number of restarts, and any modulus and number of retries.  *)
(*                                                                         *)
(* A restart empties the table of the numbers that the kernel remembers,   *)
(* so what the proof of Delivery says of a message that was given to the   *)
(* receiver is said here of one that this life of the receiver was given.  *)
(* The kernel takes the next number for a response whether it is free or   *)
(* not, so it is said of the commands only, which come from hosts that are *)
(* paced.                                                                  *)
(***************************************************************************)
EXTENDS Kernel, NanoStackProofs, FiniteSetTheorems

-------------------------------------------------------------------------------
(* The inductive invariant.                                                *)

Clients == Hosts \ {Kernel}

OwnCommands ==
    \A p \in net, m \in Commands :
        p.kind = "data" /\ Open(m) /\ Src[p.msg] = Src[m] /\ p.seq = send[m].seq => p.msg = m
AcksTaken ==
    \A p \in net, m \in Commands :
        p.kind = "ack" /\ Open(m) /\ p.to = Src[m] /\ p.seq = send[m].seq => got[m] > 0
EntriesHere == \A m \in Commands : Open(m) /\ Age(m) <= Window => m \in here
HereYoung == \A m \in Commands : Open(m) /\ m \in here => Age(m) <= Waited(m)
HereRemembered ==
    \A p \in net : p.kind = "data" /\ p.msg \in here => Age(p.msg) <= p.age + MaxRetries
GotSent == \A m \in Msgs : got[m] > 0 => send[m].st # "new"
CommandsTaken ==
    \A m \in Commands : /\ m \in here => got[m] > 0
                        /\ send[m].st = "ok" => got[m] > 0
                        /\ Open(m) /\ send[m].acked => got[m] > 0

TransportInv ==
    /\ PacketsNamed /\ OwnCommands /\ AcksTaken /\ EntriesHere
    /\ HereYoung /\ HereRemembered /\ GotSent /\ CommandsTaken
    /\ here \subseteq Commands

HandlersHere == \A m \in Commands : handlers[m] = 0 \/ (handlers[m] = 1 /\ m \in here)
ResponsesSent ==
    \A m \in Commands : \A k \in 1 .. Len(Responses[m]) :
        send[Responses[m][k]].st # "new" => k <= runs[m]

HandlersInv ==
    /\ handlers \in [Commands -> Nat] /\ runs \in [Commands -> Nat]
    /\ HandlersHere /\ ResponsesSent

KernelInv == TypeOK /\ WaitersOf(Clients) /\ TransportInv /\ HandlersInv

LEMMA CommandsKnown ==
    /\ Commands \subseteq Msgs /\ Kernel \in Hosts
    /\ \A m \in Commands : Dst[m] = Kernel /\ Src[m] # Kernel
    /\ \A m \in Commands : \A k \in 1 .. Len(Responses[m]) :
          /\ Responses[m][k] \in Msgs /\ Responses[m][k] \notin Commands
          /\ Src[Responses[m][k]] = Kernel /\ Dst[Responses[m][k]] # Kernel
    /\ \A m, n \in Commands : \A k \in 1 .. Len(Responses[m]), j \in 1 .. Len(Responses[n]) :
          Responses[n][j] = Responses[m][k] => n = m /\ j = k
<1>1. \A i \in 1 .. Len(Script) : Script[i] \in Msgs
  BY KernelAssumption
<1>2. Commands \subseteq Msgs
  BY <1>1 DEF Commands
<1>3. Kernel \in Hosts
  <2>1. Len(Script) \in Nat /\ Len(Script) # 0
    BY KernelAssumption
  <2>2. 1 \in 1 .. Len(Script)
    BY <2>1
  <2> QED BY <1>1, <2>2, ConstantsTyped DEF Kernel
<1>4. \A m \in Commands : Dst[m] = Kernel /\ Src[m] # Kernel
  BY KernelAssumption
<1>5. ASSUME NEW m \in Commands, NEW k \in 1 .. Len(Responses[m])
      PROVE  /\ Responses[m][k] \in Msgs /\ Responses[m][k] \notin Commands
             /\ Src[Responses[m][k]] = Kernel /\ Dst[Responses[m][k]] # Kernel
  <2>1. Responses[m] \in Seq(Msgs)
    BY KernelAssumption
  <2>2. Responses[m][k] \in Msgs
    BY <2>1
  <2>3. Src[Responses[m][k]] = Kernel /\ Dst[Responses[m][k]] = Src[m]
    BY KernelAssumption
  <2> QED BY <1>4, <2>2, <2>3
<1>6. \A m, n \in Commands : \A k \in 1 .. Len(Responses[m]), j \in 1 .. Len(Responses[n]) :
         Responses[n][j] = Responses[m][k] => n = m /\ j = k
  BY KernelAssumption
<1> QED BY <1>2, <1>3, <1>4, <1>5, <1>6

LEMMA KernelStart == KernelInit => KernelInv
<1> SUFFICES ASSUME KernelInit PROVE KernelInv
  OBVIOUS
<1>1. TypeOK /\ WaitersOf(Clients)
  BY TypeOKInit, WaiterInit DEF KernelInit
<1>2. TransportInv
  BY <1>1, CommandsKnown, ConstantsTyped
     DEF KernelInit, Init, TransportInv, PacketsNamed, OwnCommands, AcksTaken, EntriesHere,
         HereYoung, HereRemembered, GotSent, CommandsTaken, Open
<1>3. HandlersInv
  BY CommandsKnown DEF KernelInit, Init, HandlersInv, HandlersHere, ResponsesSent
<1> QED BY <1>1, <1>2, <1>3 DEF KernelInv

(* The client uses the transport as it wants to be used. *)
LEMMA ClientPaced ==
    ASSUME TypeOK, HandlersInv
    PROVE  [KernelNext]_all => [PacedFrom(Clients)]_vars
<1> SUFFICES ASSUME [KernelNext]_all PROVE [PacedFrom(Clients)]_vars
  OBVIOUS
<1>1. ASSUME NEW i \in 1 .. Len(Script), Type(i) PROVE PacedFrom(Clients)
  <2>1. Script[i] \in Msgs
    BY KernelAssumption
  <2> QED BY <1>1, <2>1 DEF Type, PacedSend, PacedFrom
<1>2. ASSUME NEW p \in net, Receive(p) PROVE PacedFrom(Clients)
  BY <1>2 DEF Receive, PacedFrom, Steps, Network
<1>3. ASSUME NEW m \in Commands, Handle(m) PROVE PacedFrom(Clients)
  <2>1. runs[m] + 1 \in 1 .. Len(Responses[m])
    <3>1. runs[m] \in Nat /\ runs[m] < Len(Responses[m])
      BY <1>3 DEF Handle, HandlersInv
    <3>2. Len(Responses[m]) \in Nat
      BY KernelAssumption
    <3> QED BY <3>1, <3>2
  <2>2. /\ Responses[m][runs[m] + 1] \in Msgs
        /\ Src[Responses[m][runs[m] + 1]] \notin Clients
    BY <2>1, CommandsKnown DEF Clients
  <2> QED BY <1>3, <2>2 DEF Handle, PacedFrom
<1>4. CASE Transport
  BY <1>4 DEF Transport, PacedFrom, Steps
<1>5. CASE Reboot
  BY <1>5, CommandsKnown DEF Reboot, PacedFrom, Steps
<1>6. CASE UNCHANGED all
  BY <1>6 DEF all
<1> QED BY <1>1, <1>2, <1>3, <1>4, <1>5, <1>6 DEF KernelNext

-------------------------------------------------------------------------------
(* The transport.                                                          *)

(* A step that hands nothing over and adds no packet but of an open send.  *)
LEMMA Calm ==
    ASSUME TypeOK, TypeOK', WaitersOf(Clients), TransportInv, UNCHANGED <<got, here>>,
           \A n \in Msgs : /\ send'[n].seq = send[n].seq
                           /\ (Age(n))' = Age(n)
                           /\ (Open(n))' => Open(n) /\ (Waited(n))' >= Waited(n)
                           /\ send'[n].st = "new" <=> send[n].st = "new",
           \A n \in Commands :
              /\ (Open(n))' /\ send'[n].acked => send[n].acked \/ got[n] > 0
              /\ send'[n].st = "ok" => send[n].st = "ok" \/ got[n] > 0,
           \A p \in net' :
              p \in net \/ \E m \in Msgs : p = DataPacket(m) /\ send[m].st = "write"
    PROVE  TransportInv'
<1>1. \A p \in net' :
        \/ p \in net
        \/ /\ p.kind = "data" /\ p.msg \in Msgs /\ send[p.msg].st = "write"
           /\ p.seq = send[p.msg].seq /\ p.age = 0
  BY DEF DataPacket
<1>2. \A p \in net : p.kind = "data" => p.msg \in Msgs
  BY PacketsTyped DEF DataPackets
<1>3. \A n \in Msgs : /\ Age(n) \in Nat /\ Waited(n) \in Nat /\ (Waited(n))' \in Nat
  <2> TAKE n \in Msgs
  <2>1. Age(n) \in Nat /\ Waited(n) \in Nat BY FieldsTyped, ConstantsTyped
  <2>2. send'[n] \in SendState BY DEF TypeOK
  <2>3. (Waited(n))' \in Nat BY <2>2, ConstantsTyped DEF Waited, SendState
  <2> QED BY <2>1, <2>3
<1>4. PacketsNamed'
  BY <1>1, <1>2 DEF TransportInv, PacketsNamed
<1>5. OwnCommands'
  <2> SUFFICES ASSUME NEW p \in net', NEW m \in Commands, p.kind = "data", (Open(m))',
                      Src[p.msg] = Src[m], p.seq = send'[m].seq
               PROVE  p.msg = m
    BY DEF OwnCommands
  <2>1. m \in Msgs /\ Open(m) /\ p.seq = send[m].seq BY CommandsKnown
  <2>2. CASE p \in net BY <2>1, <2>2 DEF TransportInv, OwnCommands
  <2>3. CASE p \notin net
    <3>1. p.msg \in Msgs /\ Open(p.msg) /\ p.seq = send[p.msg].seq BY <1>1, <2>3 DEF Open
    <3>2. Src[m] \in Clients BY <2>1, CommandsKnown, ConstantsTyped DEF Clients
    <3> QED BY <2>1, <3>1, <3>2 DEF WaitersOf, OwnNumbersFrom
  <2> QED BY <2>2, <2>3
<1>6. AcksTaken' BY <1>1, CommandsKnown DEF TransportInv, AcksTaken
<1>7. EntriesHere' BY CommandsKnown DEF TransportInv, EntriesHere
<1>8. HereYoung' BY <1>3, CommandsKnown DEF TransportInv, HereYoung
<1>9. HereRemembered'
  <2> SUFFICES ASSUME NEW p \in net', p.kind = "data", p.msg \in here
               PROVE  (Age(p.msg))' <= p.age + MaxRetries
    BY DEF HereRemembered
  <2>1. CASE p \in net
    BY <1>2, <2>1 DEF TransportInv, HereRemembered
  <2>2. CASE p \notin net
    <3>1. p.msg \in Msgs /\ send[p.msg].st = "write" /\ p.age = 0 BY <1>1, <2>2
    <3>2. Age(p.msg) <= Waited(p.msg)
      <4>1. p.msg \in Commands
        BY DEF TransportInv
      <4> QED BY <3>1, <4>1 DEF TransportInv, HereYoung, Open
    <3>3. Waited(p.msg) = send[p.msg].attempt /\ send[p.msg].attempt \in 0 .. MaxRetries
      BY <3>1, FieldsTyped DEF Waited
    <3> QED BY <1>3, <3>1, <3>2, <3>3, ConstantsTyped
  <2> QED BY <2>1, <2>2
<1>10. GotSent' BY DEF TransportInv, GotSent
<1>11. CommandsTaken' BY CommandsKnown DEF TransportInv, CommandsTaken
<1> QED BY <1>4, <1>5, <1>6, <1>7, <1>8, <1>9, <1>10, <1>11 DEF TransportInv

(* A step of one open send. *)
LEMMA CalmSend ==
    ASSUME TypeOK, TypeOK', WaitersOf(Clients), TransportInv, NEW m \in Msgs, Open(m),
           UNCHANGED <<got, here, seen_data>>,
           \A n \in Msgs : n # m => send'[n] = send[n],
           send'[m].seq = send[m].seq,
           send'[m].st # "new",
           (Open(m))' => (Waited(m))' >= Waited(m),
           m \in Commands => /\ (Open(m))' /\ send'[m].acked => send[m].acked \/ got[m] > 0
                             /\ send'[m].st = "ok" => got[m] > 0,
           \A p \in net' : p \in net \/ (p = DataPacket(m) /\ send[m].st = "write")
    PROVE  TransportInv'
<1>1. \A n \in Msgs : send'[n].seq = send[n].seq OBVIOUS
<1>2. \A n \in Msgs : (Age(n))' = Age(n) BY <1>1 DEF Age
<1>3. \A n \in Msgs : n # m => (Open(n))' = Open(n) /\ (Waited(n))' = Waited(n)
  BY DEF Open, Waited
<1>4. \A n \in Msgs : Waited(n) >= Waited(n) BY FieldsTyped
<1>5. \A n \in Msgs : (Open(n))' => Open(n) /\ (Waited(n))' >= Waited(n)
  BY <1>3, <1>4
<1>6. \A n \in Msgs : send'[n].st = "new" <=> send[n].st = "new" BY DEF Open
<1>7. \A n \in Commands :
         /\ (Open(n))' /\ send'[n].acked => send[n].acked \/ got[n] > 0
         /\ send'[n].st = "ok" => send[n].st = "ok" \/ got[n] > 0
  BY CommandsKnown
<1> QED BY <1>1, <1>2, <1>5, <1>6, <1>7, Calm

LEMMA ProgressKeeps ==
    ASSUME TypeOK, TypeOK', WaitersOf(Clients), TransportInv, NEW m \in Msgs, Progress(m),
           UNCHANGED here
    PROVE  TransportInv'
<1>1. \/ /\ send'[m].st \in {"write", "wait"} /\ send'[m].acked = send[m].acked
         /\ (Waited(m))' >= Waited(m)
      \/ send'[m].st = "ok" /\ send[m].acked
      \/ send'[m].st = "failed"
  BY Turns
<1>2. Open(m) /\ (m \in Commands /\ send[m].acked => got[m] > 0)
  BY Turns DEF TransportInv, CommandsTaken
<1>3. send'[m].st # "new" /\ ((Open(m))' => (Waited(m))' >= Waited(m))
  BY <1>1 DEF Open
<1>4. m \in Commands => /\ (Open(m))' /\ send'[m].acked => send[m].acked \/ got[m] > 0
                        /\ send'[m].st = "ok" => got[m] > 0
  BY <1>1, <1>2 DEF Open
<1> QED BY <1>2, <1>3, <1>4, Turns, CalmSend

LEMMA AckKeeps ==
    ASSUME TypeOK, TypeOK', WaitersOf(Clients), TransportInv, NEW p \in net, ReceiveAck(p),
           UNCHANGED here
    PROVE  TransportInv'
<1>1. PICK m \in Msgs :
         /\ p.kind = "ack" /\ Open(m) /\ p.to = Src[m] /\ p.seq = send[m].seq
         /\ UNCHANGED <<got, seen_data, net>>
         /\ \A n \in Msgs : n # m => send'[n] = send[n]
         /\ send'[m].seq = send[m].seq
         /\ \/ send'[m].st = "ok"
            \/ send'[m].st = "write" /\ (Waited(m))' >= Waited(m)
  BY Woken DEF WaitersOf
<1>2. m \in Commands => got[m] > 0
  BY <1>1 DEF TransportInv, AcksTaken
<1>3. send'[m].st # "new" /\ ((Open(m))' => (Waited(m))' >= Waited(m))
  BY <1>1 DEF Open
<1> QED BY <1>1, <1>2, <1>3, CalmSend

LEMMA SendKeeps ==
    ASSUME TypeOK, TypeOK', WaitersOf(Clients), TransportInv, NEW m \in Msgs,
           Send(m), m \in Commands => PacedSend(m), UNCHANGED here
    PROVE  TransportInv'
<1> DEFINE h == Src[m]
           q == next_seq[Src[m]]
<1>1. \A n \in Msgs : n # m => send'[n] = send[n]
  BY DEF Send, TypeOK
<1>2. send'[m].st = "write" /\ send'[m].acked = send[m].acked /\ send'[m].seq = q
  BY DEF Send, TypeOK, SendState
<1>3. UNCHANGED <<seen_data, net, got>> BY DEF Send
<1>4. send[m].st = "new" /\ ~(got[m] > 0)
  BY DEF Send, TransportInv, GotSent
<1>5. m \in Commands =>
        /\ \A d \in Hosts : seen_data[d][<<h, q>>] = Forgotten
        /\ \A p \in net : p.kind = "data" => ~(p.seq = q /\ Src[p.msg] = h)
        /\ \A p \in net : p.kind = "ack" => ~(p.seq = q /\ p.to = h)
  BY DEF PacedSend, Free, Unused
<1>6. \A p \in net : p.kind = "data" => p.msg \in Msgs /\ p.msg # m
  BY <1>4, PacketsTyped DEF DataPackets, TransportInv, PacketsNamed
<1>7. \A n \in Msgs : n # m => /\ (Open(n))' = Open(n) /\ (Age(n))' = Age(n)
                               /\ (Waited(n))' = Waited(n)
  BY <1>1, <1>3 DEF Open, Age, Waited
<1>8. m \in Commands => (Age(m))' = Forgotten
  BY <1>2, <1>3, <1>5, ConstantsTyped DEF Age
<1>9. m \notin here BY <1>4 DEF TransportInv, CommandsTaken
<1>10. PacketsNamed' BY <1>1, <1>3, <1>6 DEF TransportInv, PacketsNamed
<1>11. OwnCommands'
  BY <1>1, <1>2, <1>3, <1>5, <1>6, <1>7, CommandsKnown DEF TransportInv, OwnCommands
<1>12. AcksTaken' BY <1>1, <1>2, <1>3, <1>5, <1>7, CommandsKnown DEF TransportInv, AcksTaken
<1>13. EntriesHere' BY <1>7, <1>8, ConstantsTyped, CommandsKnown DEF TransportInv, EntriesHere
<1>14. HereYoung' BY <1>7, <1>9, CommandsKnown DEF TransportInv, HereYoung
<1>15. HereRemembered' BY <1>3, <1>6, <1>7 DEF TransportInv, HereRemembered
<1>16. GotSent' BY <1>1, <1>2, <1>3 DEF TransportInv, GotSent
<1>17. CommandsTaken'
  <2>1. ~send[m].acked BY <1>4 DEF WaitersOf, AckedIsWriting
  <2> QED BY <1>1, <1>2, <1>3, <1>7, <2>1, CommandsKnown DEF TransportInv, CommandsTaken
<1> QED BY <1>10, <1>11, <1>12, <1>13, <1>14, <1>15, <1>16, <1>17 DEF TransportInv

(* A command that the kernel does not remember was not taken in this life. *)
LEMMA NewHere ==
    ASSUME TypeOK, TransportInv, MaxRetries + Lifetime <= Window,
           NEW p \in net, p.kind = "data", ~Remembered(Dst[p.msg], Src[p.msg], p.seq)
    PROVE  p.msg \notin here
<1>1. p.msg \in Msgs /\ p.seq = send[p.msg].seq /\ p.age \in 0 .. Lifetime
  BY PacketsTyped DEF DataPackets, TransportInv, PacketsNamed
<1>2. ~(Age(p.msg) <= Window) BY <1>1 DEF Remembered, Age
<1>3. ASSUME p.msg \in here PROVE FALSE
  <2>1. Age(p.msg) <= p.age + MaxRetries BY <1>3 DEF TransportInv, HereRemembered
  <2>2. Age(p.msg) \in 0 .. Forgotten BY <1>1, FieldsTyped
  <2> QED BY <1>1, <1>2, <2>1, <2>2, ConstantsTyped
<1> QED BY <1>3

LEMMA DataKeeps ==
    ASSUME TypeOK, TypeOK', WaitersOf(Clients), TransportInv, MaxRetries + Lifetime <= Window,
           NEW p \in net, ReceiveData(p),
           here' = here \cup {m \in Commands : got'[m] > got[m]}
    PROVE  TransportInv'
<1>0. PacketsNamed BY DEF TransportInv
<1> DEFINE src == Src[p.msg]
<1>1. /\ p.msg \in Msgs /\ p.seq = send[p.msg].seq /\ send[p.msg].st # "new"
      /\ p.kind = "data" /\ UNCHANGED send
  BY <1>0, Handed DEF ReceiveData
<1>2. \A n \in Msgs : Open(n)' = Open(n) /\ Waited(n)' = Waited(n) BY <1>1 DEF Open, Waited
<1>3. \A x \in net' :
         x \in net \/ (x.kind = "ack" /\ x.to = src /\ x.seq = p.seq)
  BY DEF ReceiveData, AckPacket
<1>4. \A x \in net : x.kind = "data" => x.msg \in Msgs
  BY PacketsTyped DEF DataPackets
<1>5. \A n \in Commands : Open(n) /\ Src[n] = src /\ send[n].seq = p.seq => n = p.msg
  BY <1>1 DEF TransportInv, OwnCommands
<1>6. \A n \in Msgs : /\ got[n] \in Nat /\ Age(n) \in Nat /\ Waited(n) \in Nat
                      /\ got'[n] = got[n] \/ (n = p.msg /\ got'[n] > 0 /\ got'[n] > got[n])
  BY <1>1, <1>0, Handed, FieldsTyped, ConstantsTyped
<1>7. \A n \in Commands : n \in here' => n \in here \/ (n = p.msg /\ got'[n] > got[n])
  BY <1>6, CommandsKnown
<1>8. here \subseteq here' /\ here' \subseteq Commands BY DEF TransportInv
<1>9. \A n \in Msgs : (Age(n))' = Age(n) \/ (Age(n))' = 0 BY <1>0, Handed
<1>10. \A n \in Commands : Open(n) /\ (Age(n))' # Age(n) => n = p.msg
  BY <1>5, <1>0, Handed, CommandsKnown
<1>11. got'[p.msg] # got[p.msg] => (Age(p.msg))' = 0 BY <1>1, <1>0, Handed
<1>12. p.msg \in Commands /\ Open(p.msg) => p.msg \in here'
  <2>1. CASE Remembered(Dst[p.msg], Src[p.msg], p.seq)
    <3>1. Age(p.msg) <= Window BY <1>1, <2>1 DEF Remembered, Age
    <3> QED BY <1>8, <3>1 DEF TransportInv, EntriesHere
  <2>2. CASE ~Remembered(Dst[p.msg], Src[p.msg], p.seq) BY <2>2, <1>0, Handed
  <2> QED BY <2>1, <2>2
<1>13. \A n \in Commands : n \in here' => got'[n] > 0
  BY <1>6, <1>7, CommandsKnown DEF TransportInv, CommandsTaken
<1> HIDE DEF src
<1>14. PacketsNamed' BY <1>1, <1>3 DEF TransportInv, PacketsNamed
<1>15. OwnCommands' BY <1>1, <1>2, <1>3, CommandsKnown DEF TransportInv, OwnCommands
<1>16. AcksTaken'
  <2> SUFFICES ASSUME NEW x \in net', NEW m \in Commands, x.kind = "ack", (Open(m))',
                      x.to = Src[m], x.seq = send'[m].seq
               PROVE  got'[m] > 0
    BY DEF AcksTaken
  <2>1. m \in Msgs /\ Open(m) /\ x.seq = send[m].seq BY <1>1, <1>2, CommandsKnown
  <2>2. CASE x \in net
    <3>1. got[m] > 0 BY <2>1, <2>2 DEF TransportInv, AcksTaken
    <3> QED BY <1>6, <2>1, <3>1
  <2>3. CASE x \notin net
    <3>1. m = p.msg BY <1>3, <1>5, <2>1, <2>3
    <3> QED BY <1>12, <1>13, <2>1, <3>1
  <2> QED BY <2>2, <2>3
<1>17. EntriesHere'
  <2> SUFFICES ASSUME NEW m \in Commands, (Open(m))', (Age(m))' <= Window PROVE m \in here'
    BY DEF EntriesHere
  <2>1. m \in Msgs /\ Open(m) BY <1>2, CommandsKnown
  <2>2. CASE (Age(m))' = Age(m) BY <1>8, <2>1, <2>2 DEF TransportInv, EntriesHere
  <2>3. CASE (Age(m))' # Age(m) BY <1>10, <1>12, <2>1, <2>3
  <2> QED BY <2>2, <2>3
<1>18. HereYoung'
  <2> SUFFICES ASSUME NEW m \in Commands, (Open(m))', m \in here' PROVE (Age(m))' <= (Waited(m))'
    BY DEF HereYoung
  <2>1. m \in Msgs /\ Open(m) /\ (Waited(m))' = Waited(m) BY <1>2, CommandsKnown
  <2>2. CASE (Age(m))' = 0 BY <1>6, <2>1, <2>2
  <2>3. CASE (Age(m))' # 0
    <3>1. (Age(m))' = Age(m) BY <1>9, <2>1, <2>3
    <3>2. m \in here BY <1>6, <1>7, <1>11, <2>1, <2>3
    <3> QED BY <2>1, <3>1, <3>2 DEF TransportInv, HereYoung
  <2> QED BY <2>2, <2>3
<1>19. HereRemembered'
  <2> SUFFICES ASSUME NEW x \in net', x.kind = "data", x.msg \in here'
               PROVE  (Age(x.msg))' <= x.age + MaxRetries
    BY DEF HereRemembered
  <2>1. x \in net BY <1>3
  <2>2. x.msg \in Msgs /\ x.age \in Nat
    BY <2>1, PacketsTyped, ConstantsTyped DEF DataPackets
  <2>3. CASE (Age(x.msg))' = 0 BY <2>2, <2>3, ConstantsTyped
  <2>4. CASE (Age(x.msg))' # 0
    <3>1. (Age(x.msg))' = Age(x.msg) BY <1>9, <2>2, <2>4
    <3>2. x.msg \in here BY <1>6, <1>7, <1>8, <1>11, <2>2, <2>4
    <3> QED BY <2>1, <3>1, <3>2 DEF TransportInv, HereRemembered
  <2> QED BY <2>3, <2>4
<1>20. GotSent' BY <1>1, <1>6 DEF TransportInv, GotSent
<1>21. CommandsTaken'
  <2> SUFFICES ASSUME NEW m \in Commands
               PROVE  /\ send[m].st = "ok" => got'[m] > 0
                      /\ Open(m) /\ send[m].acked => got'[m] > 0
    BY <1>1, <1>2, <1>13, CommandsKnown DEF CommandsTaken
  <2>1. m \in Msgs /\ (got[m] > 0 => got'[m] > 0) BY <1>6, CommandsKnown
  <2> QED BY <2>1 DEF TransportInv, CommandsTaken
<1> QED BY <1>8, <1>14, <1>15, <1>16, <1>17, <1>18, <1>19, <1>20, <1>21 DEF TransportInv

LEMMA TickKeeps ==
    ASSUME TypeOK, TypeOK', TransportInv, Tick, UNCHANGED here
    PROVE  TransportInv'
<1>1. UNCHANGED got BY DEF Tick
<1>2. ASSUME NEW n \in Msgs
      PROVE  /\ send'[n].st = send[n].st /\ send'[n].seq = send[n].seq
             /\ send'[n].acked = send[n].acked
             /\ Open(n) => (Waited(n))' = Waited(n) + 1
  <2>1. send'[n] = IF send[n].st = "wait" THEN [send[n] EXCEPT !.age = 1] ELSE send[n]
    BY DEF Tick
  <2>2. send[n] \in SendState /\ send[n].st # "write" /\ ~(send[n].st = "wait" /\ send[n].age = 1)
    BY DEF Tick, TypeOK
  <2>3. CASE send[n].st = "wait"
    <3>1. send'[n] = [send[n] EXCEPT !.age = 1] BY <2>1, <2>3
    <3>2. send[n].age = 0 BY <2>2, <2>3 DEF SendState
    <3>3. /\ send'[n].st = "wait" /\ send'[n].age = 1 /\ send'[n].attempt = send[n].attempt
          /\ send'[n].seq = send[n].seq /\ send'[n].acked = send[n].acked
      BY <2>2, <2>3, <3>1 DEF SendState
    <3>4. send[n].attempt \in Nat BY FieldsTyped, ConstantsTyped
    <3> QED BY <2>3, <3>2, <3>3, <3>4 DEF Waited
  <2>4. CASE send[n].st # "wait" BY <2>1, <2>2, <2>4 DEF Open
  <2> QED BY <2>3, <2>4
<1>3. ASSUME NEW n \in Msgs
      PROVE  (Age(n))' = IF Age(n) < Forgotten THEN Age(n) + 1 ELSE Forgotten
  <2>1. Dst[n] \in Hosts /\ <<Src[n], send[n].seq>> \in Hosts \X Seqs BY FieldsTyped
  <2> QED BY <1>2, <2>1 DEF Tick, Age
<1>4. \A n \in Msgs : /\ Age(n) \in 0 .. Forgotten /\ Waited(n) \in Nat
                      /\ (Open(n))' = Open(n)
  BY <1>2, FieldsTyped DEF Open
<1>5. \A n \in Msgs : (Age(n))' <= Age(n) + 1 /\ ((Age(n))' <= Window => Age(n) <= Window)
  BY <1>3, <1>4, ConstantsTyped
<1>6. \A x \in net' : \E p \in net : x = Older(p) BY DEF Tick
<1>7. ASSUME NEW x \in net'
      PROVE  \E p \in net : /\ x.kind = p.kind /\ x.seq = p.seq /\ x.age = p.age + 1 /\ p.age \in Nat
                            /\ p.kind = "data" => x.msg = p.msg /\ p.msg \in Msgs
                            /\ p.kind = "ack" => x.to = p.to
  <2>1. PICK p \in net : x = Older(p) BY <1>6
  <2>2. CASE p \in DataPackets BY <2>1, <2>2, ConstantsTyped DEF Older, DataPackets
  <2>3. CASE p \in AckPackets BY <2>1, <2>3, ConstantsTyped DEF Older, AckPackets
  <2> QED BY <2>2, <2>3 DEF TypeOK
<1>8. PacketsNamed' BY <1>2, <1>7 DEF TransportInv, PacketsNamed
<1>9. OwnCommands' BY <1>2, <1>4, <1>7, CommandsKnown DEF TransportInv, OwnCommands
<1>10. AcksTaken'
  <2> SUFFICES ASSUME NEW x \in net', NEW m \in Commands, x.kind = "ack", (Open(m))',
                      x.to = Src[m], x.seq = send'[m].seq
               PROVE  got[m] > 0
    BY <1>1 DEF AcksTaken
  <2>1. PICK p \in net : p.kind = "ack" /\ x.seq = p.seq /\ x.to = p.to BY <1>7
  <2>2. Open(m) /\ p.to = Src[m] /\ p.seq = send[m].seq BY <1>2, <1>4, <2>1, CommandsKnown
  <2> QED BY <2>1, <2>2 DEF TransportInv, AcksTaken
<1>11. EntriesHere' BY <1>4, <1>5, CommandsKnown DEF TransportInv, EntriesHere
<1>12. HereYoung'
  <2> SUFFICES ASSUME NEW m \in Commands, (Open(m))', m \in here PROVE (Age(m))' <= (Waited(m))'
    BY DEF HereYoung
  <2>1. m \in Msgs BY CommandsKnown
  <2>2. Age(m) <= Waited(m) BY <1>4, <2>1 DEF TransportInv, HereYoung
  <2>3. (Waited(m))' = Waited(m) + 1 /\ (Age(m))' <= Age(m) + 1 BY <1>2, <1>4, <1>5, <2>1
  <2>4. Age(m) \in Nat /\ Waited(m) \in Nat /\ (Age(m))' \in Nat
    BY <1>3, <1>4, <2>1, ConstantsTyped
  <2> QED BY <2>2, <2>3, <2>4
<1>13. HereRemembered'
  <2> SUFFICES ASSUME NEW x \in net', x.kind = "data", x.msg \in here
               PROVE  (Age(x.msg))' <= x.age + MaxRetries
    BY DEF HereRemembered
  <2>1. PICK p \in net : /\ p.kind = "data" /\ x.age = p.age + 1 /\ p.age \in Nat
                         /\ x.msg = p.msg /\ p.msg \in Msgs
    BY <1>7
  <2>2. Age(p.msg) <= p.age + MaxRetries
    BY <2>1 DEF TransportInv, HereRemembered
  <2>3. (Age(p.msg))' <= Age(p.msg) + 1 /\ Age(p.msg) \in Nat
    BY <1>4, <1>5, <2>1, ConstantsTyped
  <2>4. (Age(p.msg))' \in Nat BY <1>3, <1>4, <2>1, ConstantsTyped
  <2> QED BY <2>1, <2>2, <2>3, <2>4, ConstantsTyped
<1>14. GotSent' BY <1>1, <1>2 DEF TransportInv, GotSent
<1>15. CommandsTaken' BY <1>1, <1>2, <1>4, CommandsKnown DEF TransportInv, CommandsTaken
<1> QED BY <1>8, <1>9, <1>10, <1>11, <1>12, <1>13, <1>14, <1>15 DEF TransportInv

LEMMA RebootKeeps ==
    ASSUME TypeOK, TypeOK', WaitersOf(Clients), TransportInv, Restart(Kernel), here' = {}
    PROVE  TransportInv'
<1>1. UNCHANGED <<got, net>> BY DEF Restart
<1>2. \A n \in Msgs : /\ send'[n].seq = send[n].seq
                      /\ send'[n] = send[n] \/ (send'[n].st = "failed" /\ Open(n))
  BY Restarted, CommandsKnown
<1>3. \A n \in Msgs : /\ (Open(n))' => Open(n)
                      /\ send'[n].st = "new" <=> send[n].st = "new"
  BY <1>2 DEF Open
<1>4. \A m \in Commands : m \in Msgs /\ send'[m] = send[m] /\ (Age(m))' = Forgotten
  BY Restarted, CommandsKnown
<1>5. PacketsNamed'
  <2>1. \A p \in net : p.kind = "data" => p.msg \in Msgs
    BY PacketsTyped DEF DataPackets
  <2> QED BY <1>1, <1>2, <1>3, <2>1 DEF TransportInv, PacketsNamed
<1>6. OwnCommands' BY <1>1, <1>2, <1>3, CommandsKnown DEF TransportInv, OwnCommands
<1>7. AcksTaken' BY <1>1, <1>3, <1>4 DEF TransportInv, AcksTaken
<1>8. EntriesHere' BY <1>4, ConstantsTyped DEF EntriesHere
<1>9. HereYoung' /\ HereRemembered' BY DEF HereYoung, HereRemembered
<1>10. GotSent' BY <1>1, <1>3 DEF TransportInv, GotSent
<1>11. CommandsTaken' BY <1>1, <1>3, <1>4 DEF TransportInv, CommandsTaken
<1> QED BY <1>5, <1>6, <1>7, <1>8, <1>9, <1>10, <1>11 DEF TransportInv

(* A packet that gives the kernel no command starts no handler. *)
LEMMA NothingTaken ==
    ASSUME TypeOK, HandlersInv, NEW p \in net, Receive(p),
           \A m \in Commands : got'[m] = got[m]
    PROVE  UNCHANGED <<here, handlers, runs, life>>
<1>1. \A m \in Commands : ~(got'[m] > got[m])
  BY CommandsKnown, FieldsTyped
<1>2. {m \in Commands : got'[m] > got[m]} = {} BY <1>1
<1>3. here' = here BY <1>2 DEF Receive
<1>4. handlers' = [m \in Commands |-> handlers[m]] BY <1>2 DEF Receive
<1>5. [m \in Commands |-> handlers[m]] = handlers BY DEF HandlersInv
<1> QED BY <1>3, <1>4, <1>5 DEF Receive

LEMMA Received ==
    ASSUME TypeOK, HandlersInv, NEW p \in net, Receive(p)
    PROVE  \/ /\ ReceiveAck(p) \/ Lose(p)
              /\ UNCHANGED <<got, here, handlers, runs, life>>
           \/ /\ ReceiveData(p)
              /\ here' = here \cup {m \in Commands : got'[m] > got[m]}
<1>1. CASE ReceiveAck(p) BY <1>1, NothingTaken DEF ReceiveAck
<1>2. CASE Lose(p) BY <1>2, NothingTaken DEF Lose
<1>3. CASE ReceiveData(p) BY <1>3 DEF Receive
<1> QED BY <1>1, <1>2, <1>3 DEF Receive

(* A handler has a response left to send. *)
LEMMA ResponseLeft ==
    ASSUME HandlersInv, NEW m \in Commands, Handle(m)
    PROVE  /\ runs[m] + 1 \in 1 .. Len(Responses[m])
           /\ Responses[m][runs[m] + 1] \in Msgs \ Commands
<1>1. runs[m] \in Nat /\ runs[m] < Len(Responses[m])
  BY DEF Handle, HandlersInv
<1>2. Len(Responses[m]) \in Nat
  BY KernelAssumption
<1>3. runs[m] + 1 \in 1 .. Len(Responses[m])
  BY <1>1, <1>2
<1> QED BY <1>3, CommandsKnown

LEMMA TransportNext ==
    ASSUME TypeOK, TypeOK', WaitersOf(Clients), TransportInv, HandlersInv,
           MaxRetries + Lifetime <= Window, [KernelNext]_all
    PROVE  TransportInv'
<1>1. ASSUME UNCHANGED <<seen_data, send, got, here>>, net' \subseteq net
      PROVE  TransportInv'
  <2>1. \A n \in Msgs : /\ (Age(n))' = Age(n) /\ (Open(n))' = Open(n)
                        /\ (Waited(n))' = Waited(n)
    BY <1>1 DEF Age, Open, Waited
  <2>2. \A n \in Msgs : Waited(n) >= Waited(n)
    BY FieldsTyped
  <2> QED BY <1>1, <2>1, <2>2, Calm
<1>2. ASSUME NEW i \in 1 .. Len(Script), Type(i) PROVE TransportInv'
  <2>1. Script[i] \in Msgs BY KernelAssumption
  <2> QED BY <1>2, <2>1, SendKeeps DEF Type, PacedSend, kernel
<1>3. ASSUME NEW p \in net, Receive(p) PROVE TransportInv'
  <2>1. CASE ReceiveAck(p) /\ UNCHANGED here BY <2>1, AckKeeps
  <2>2. CASE Lose(p) /\ UNCHANGED here BY <1>1, <2>2 DEF Lose
  <2>3. CASE ReceiveData(p) /\ here' = here \cup {m \in Commands : got'[m] > got[m]}
    BY <2>3, DataKeeps
  <2> QED BY <1>3, <2>1, <2>2, <2>3, Received
<1>4. ASSUME NEW m \in Commands, Handle(m) PROVE TransportInv'
  <2>1. Responses[m][runs[m] + 1] \in Msgs \ Commands BY <1>4, ResponseLeft
  <2> QED BY <1>4, <2>1, SendKeeps DEF Handle
<1>5. CASE Transport
  BY <1>5, TickKeeps, ProgressKeeps DEF Transport, kernel
<1>6. CASE Reboot
  BY <1>6, RebootKeeps DEF Reboot
<1>7. CASE UNCHANGED all
  BY <1>1, <1>7 DEF all, vars, kernel
<1> QED BY <1>2, <1>3, <1>4, <1>5, <1>6, <1>7 DEF KernelNext

-------------------------------------------------------------------------------
(* The handlers.                                                           *)

(* A step that starts no send and no handler. *)
LEMMA SameHandlers ==
    ASSUME HandlersInv, UNCHANGED <<handlers, runs, here>>,
           \A n \in Msgs : send'[n].st = "new" <=> send[n].st = "new"
    PROVE  HandlersInv'
  BY CommandsKnown DEF HandlersInv, HandlersHere, ResponsesSent

LEMMA HandlersData ==
    ASSUME TypeOK, TransportInv, HandlersInv, MaxRetries + Lifetime <= Window,
           NEW p \in net, Receive(p), ReceiveData(p)
    PROVE  HandlersInv'
<1>0. PacketsNamed BY DEF TransportInv
<1> DEFINE new == {m \in Commands : got'[m] > got[m]}
<1>1. UNCHANGED <<send, runs>> /\ p.kind = "data" BY DEF Receive, ReceiveData
<1>2. /\ handlers' = [m \in Commands |-> IF m \in new THEN handlers[m] + 1 ELSE handlers[m]]
      /\ here' = here \cup new
  BY DEF Receive
<1>3. \A m \in new : m = p.msg /\ m \notin here
  <2> SUFFICES ASSUME NEW m \in new PROVE m = p.msg /\ m \notin here
    OBVIOUS
  <2>1. m \in Msgs /\ got[m] \in Nat /\ got'[m] > got[m] BY CommandsKnown, FieldsTyped
  <2>2. m = p.msg /\ ~Remembered(Dst[p.msg], Src[p.msg], p.seq)
    BY <2>1, <1>0, Handed
  <2> QED BY <1>1, <2>2, NewHere
<1>4. \A m \in new : handlers[m] = 0
  BY <1>3 DEF HandlersInv, HandlersHere
<1> HIDE DEF new
<1>5. handlers' \in [Commands -> Nat]
  BY <1>2 DEF HandlersInv
<1>6. ASSUME NEW m \in Commands
      PROVE  handlers'[m] = 0 \/ (handlers'[m] = 1 /\ m \in here')
  <2>1. CASE m \in new BY <1>2, <1>4, <2>1
  <2>2. CASE m \notin new BY <1>2, <2>2 DEF HandlersInv, HandlersHere
  <2> QED BY <2>1, <2>2
<1> QED BY <1>1, <1>5, <1>6 DEF HandlersInv, HandlersHere, ResponsesSent

LEMMA HandlersHandle ==
    ASSUME TypeOK, HandlersInv, NEW m \in Commands, Handle(m)
    PROVE  HandlersInv'
<1> DEFINE r == Responses[m][runs[m] + 1]
<1>1. runs[m] + 1 \in 1 .. Len(Responses[m]) /\ r \in Msgs
  BY ResponseLeft
<1>2. /\ handlers' = [handlers EXCEPT ![m] = @ - 1] /\ handlers[m] > 0
      /\ runs' = [runs EXCEPT ![m] = @ + 1] /\ UNCHANGED here
  BY DEF Handle
<1>3. \A n \in Msgs : n # r => send'[n] = send[n]
  BY <1>1 DEF Handle, Send, TypeOK
<1>4. /\ handlers \in [Commands -> Nat] /\ runs \in [Commands -> Nat]
      /\ \A n \in Commands : handlers[n] = 0 \/ (handlers[n] = 1 /\ n \in here)
  BY DEF HandlersInv, HandlersHere
<1>5. handlers[m] = 1 BY <1>2, <1>4
<1>6. /\ handlers'[m] = 0 /\ runs'[m] = runs[m] + 1
      /\ \A n \in Commands : n # m => handlers'[n] = handlers[n] /\ runs'[n] = runs[n]
      /\ handlers' \in [Commands -> Nat] /\ runs' \in [Commands -> Nat]
  BY <1>2, <1>4, <1>5
<1>7. HandlersHere' BY <1>2, <1>4, <1>6 DEF HandlersHere
<1>8. ResponsesSent'
  <2> SUFFICES ASSUME NEW n \in Commands, NEW k \in 1 .. Len(Responses[n]),
                      send'[Responses[n][k]].st # "new"
               PROVE  k <= runs'[n]
    BY DEF ResponsesSent
  <2>1. Responses[n][k] \in Msgs BY CommandsKnown
  <2>2. CASE Responses[n][k] = r
    <3>1. n = m /\ k = runs[m] + 1 BY <1>1, <2>2, CommandsKnown
    <3> QED BY <1>4, <1>6, <3>1
  <2>3. CASE Responses[n][k] # r
    <3>1. send[Responses[n][k]].st # "new" BY <1>3, <2>1, <2>3
    <3>2. k <= runs[n] BY <3>1 DEF HandlersInv, ResponsesSent
    <3>3. runs[n] \in Nat /\ k \in Nat /\ (runs'[n] = runs[n] \/ runs'[n] = runs[n] + 1)
      <4>1. Len(Responses[n]) \in Nat BY KernelAssumption
      <4> QED BY <1>4, <1>6, <4>1
    <3> QED BY <3>2, <3>3
  <2> QED BY <2>2, <2>3
<1> QED BY <1>6, <1>7, <1>8 DEF HandlersInv

LEMMA HandlersNext ==
    ASSUME TypeOK, WaitersOf(Clients), TransportInv, HandlersInv,
           MaxRetries + Lifetime <= Window, [KernelNext]_all
    PROVE  HandlersInv'
<1>1. ASSUME NEW i \in 1 .. Len(Script), Type(i) PROVE HandlersInv'
  <2>1. Script[i] \in Msgs /\ Script[i] \in Commands BY KernelAssumption DEF Commands
  <2>2. \A n \in Msgs : n # Script[i] => send'[n] = send[n]
    BY <1>1, <2>1 DEF Type, PacedSend, Send, TypeOK
  <2>3. UNCHANGED <<handlers, runs, here>> BY <1>1 DEF Type, kernel
  <2>4. \A m \in Commands : \A k \in 1 .. Len(Responses[m]) :
           send'[Responses[m][k]] = send[Responses[m][k]]
    BY <2>1, <2>2, CommandsKnown
  <2> QED BY <2>3, <2>4 DEF HandlersInv, HandlersHere, ResponsesSent
<1>2. ASSUME NEW p \in net, Receive(p) PROVE HandlersInv'
  <2>1. CASE ReceiveAck(p) /\ UNCHANGED <<got, here, handlers, runs, life>>
    <3>1. \A n \in Msgs : send'[n].st = "new" <=> send[n].st = "new"
      <4>1. PICK m \in Msgs : /\ Open(m) /\ send'[m].st \in {"ok", "write"}
                              /\ \A n \in Msgs : n # m => send'[n] = send[n]
        BY <2>1, Woken DEF WaitersOf
      <4> QED BY <4>1 DEF Open
    <3> QED BY <2>1, <3>1, SameHandlers
  <2>2. CASE Lose(p) /\ UNCHANGED <<got, here, handlers, runs, life>>
    BY <2>2, SameHandlers DEF Lose
  <2>3. CASE ReceiveData(p) BY <1>2, <2>3, HandlersData
  <2> QED BY <1>2, <2>1, <2>2, <2>3, Received
<1>3. ASSUME NEW m \in Commands, Handle(m) PROVE HandlersInv'
  BY <1>3, HandlersHandle
<1>4. CASE Transport
  <2>1. UNCHANGED <<handlers, runs, here>> BY <1>4 DEF Transport, kernel
  <2>2. CASE Tick
    <3>1. ASSUME NEW n \in Msgs PROVE send'[n].st = send[n].st
      <4>1. send'[n] = IF send[n].st = "wait" THEN [send[n] EXCEPT !.age = 1] ELSE send[n]
        BY <2>2 DEF Tick
      <4>2. send[n] \in SendState BY DEF TypeOK
      <4> QED BY <4>1, <4>2 DEF SendState
    <3> QED BY <2>1, <3>1, SameHandlers
  <2>3. ASSUME NEW m \in Msgs, Progress(m) PROVE HandlersInv'
    <3>1. /\ Open(m) /\ send'[m].st # "new"
          /\ \A n \in Msgs : n # m => send'[n] = send[n]
      BY <2>3, Turns
    <3>2. \A n \in Msgs : send'[n].st = "new" <=> send[n].st = "new" BY <3>1 DEF Open
    <3> QED BY <2>1, <3>2, SameHandlers
  <2> QED BY <1>4, <2>2, <2>3 DEF Transport
<1>5. CASE Reboot
  <2>1. \A n \in Msgs : send'[n].st = "new" <=> send[n].st = "new"
    BY <1>5, Restarted, CommandsKnown DEF Reboot, Open
  <2>2. handlers' = [m \in Commands |-> 0] /\ UNCHANGED runs BY <1>5 DEF Reboot
  <2> QED BY <2>1, <2>2, CommandsKnown DEF HandlersInv, HandlersHere, ResponsesSent
<1>6. CASE UNCHANGED all
  BY <1>6, SameHandlers DEF all, vars, kernel
<1> QED BY <1>1, <1>2, <1>3, <1>4, <1>5, <1>6 DEF KernelNext

LEMMA KernelStep ==
    ASSUME MaxRetries + Lifetime <= Window
    PROVE  KernelInv /\ [KernelNext]_all => KernelInv'
<1> SUFFICES ASSUME KernelInv, [KernelNext]_all PROVE KernelInv'
  OBVIOUS
<1>1. [PacedFrom(Clients)]_vars BY ClientPaced DEF KernelInv
<1>2. TypeOK' BY <1>1, PacedFromIsNext, TypeOKNext DEF KernelInv
<1>3. WaitersOf(Clients)' BY <1>1, WaitersNext DEF KernelInv
<1>4. TransportInv' BY <1>2, TransportNext DEF KernelInv
<1>5. HandlersInv' BY HandlersNext DEF KernelInv
<1> QED BY <1>2, <1>3, <1>4, <1>5 DEF KernelInv

-------------------------------------------------------------------------------
(* The steps of the kernel are steps of the remote shell.                  *)

LEMMA ShellStart == KernelInit => Shell!Init
<1> SUFFICES ASSUME KernelInit PROVE Shell!Init
  OBVIOUS
<1>1. /\ \A m \in Msgs : got[m] = 0 /\ send[m].st = "new"
      /\ handlers = [m \in Commands |-> 0] /\ runs = [m \in Commands |-> 0] /\ here = {}
  BY DEF KernelInit, Init
<1>2. Outcome = [m \in Commands |-> "new"]
  BY <1>1, CommandsKnown DEF Outcome, Open
<1>3. Took = {} /\ Running = {}
  BY <1>1, CommandsKnown DEF Took, Running
<1>4. \A m \in Commands : Shown(m) = {}
  BY <1>1, CommandsKnown DEF Shown
<1>5. Answered = [m \in Commands |-> 0]
  BY <1>4, FS_EmptySet DEF Answered
<1> QED BY <1>1, <1>2, <1>3, <1>5 DEF Shell!Init

(* The parts of the remote shell that a step leaves alone. *)
LEMMA SameOutcome ==
    ASSUME \A m \in Commands : send'[m].st = send[m].st \/ (Open(m) /\ (Open(m))')
    PROVE  Outcome' = Outcome
<1>1. \A m \in Commands : (IF (Open(m))' THEN "open" ELSE send'[m].st)
                             = (IF Open(m) THEN "open" ELSE send[m].st)
  BY DEF Open
<1> QED BY <1>1 DEF Outcome

LEMMA SameGot ==
    ASSUME UNCHANGED got
    PROVE  UNCHANGED <<Took, Answered>>
  BY DEF Took, Answered, Shown

LEMMA NewOutcome ==
    ASSUME NEW c \in Commands, NEW o, ~(Open(c))', send'[c].st = o,
           \A m \in Commands : m # c => send'[m] = send[m]
    PROVE  Outcome' = [Outcome EXCEPT ![c] = o]
<1>1. \A m \in Commands : (IF (Open(m))' THEN "open" ELSE send'[m].st)
                             = IF m = c THEN o ELSE IF Open(m) THEN "open" ELSE send[m].st
  BY DEF Open
<1> QED BY <1>1 DEF Outcome

LEMMA TypeRefines ==
    ASSUME TypeOK, NEW i \in 1 .. Len(Script), Type(i)
    PROVE  Shell!Type(Script[i]) /\ Script[i] \in Commands
<1> DEFINE c == Script[i]
<1>1. c \in Msgs /\ c \in Commands BY KernelAssumption DEF Commands
<1>2. /\ send[c].st = "new" /\ send'[c].st = "write"
      /\ \A m \in Msgs : m # c => send'[m] = send[m]
      /\ UNCHANGED <<got, handlers, runs, here>>
  BY <1>1 DEF Type, PacedSend, Send, TypeOK, SendState, kernel
<1>3. Outcome[c] = "new" BY <1>1, <1>2 DEF Outcome, Open
<1>4. Outcome' = [Outcome EXCEPT ![c] = "open"]
  <2>1. \A m \in Commands : (IF (Open(m))' THEN "open" ELSE send'[m].st)
                               = IF m = c THEN "open" ELSE IF Open(m) THEN "open" ELSE send[m].st
    BY <1>2, CommandsKnown DEF Open
  <2> QED BY <2>1 DEF Outcome
<1>5. UNCHANGED <<Took, Answered>> BY <1>2, SameGot
<1>6. UNCHANGED <<Running, here, runs>> BY <1>2 DEF Running
<1> QED BY <1>1, <1>3, <1>4, <1>5, <1>6 DEF Shell!Type

(* A call of send that returns or goes on. *)
LEMMA ReturnRefines ==
    ASSUME TypeOK, NEW n \in Msgs, Open(n),
           \A m \in Msgs : m # n => send'[m] = send[m],
           UNCHANGED <<got, handlers, runs, here>>,
           \/ (Open(n))'
           \/ send'[n].st = "failed"
           \/ send'[n].st = "ok" /\ (n \in Commands => got[n] > 0)
    PROVE  (\E m \in Commands : Shell!Return(m)) \/ UNCHANGED Shell!vars
<1>1. UNCHANGED <<Took, Answered, Running, here, runs>>
  BY SameGot DEF Running
<1>2. CASE n \notin Commands \/ (Open(n))'
  <2>1. \A m \in Commands : send'[m].st = send[m].st \/ (Open(m) /\ (Open(m))')
    BY <1>2, CommandsKnown
  <2>2. Outcome' = Outcome BY <2>1, SameOutcome
  <2> QED BY <1>1, <2>2 DEF Shell!vars
<1>3. CASE n \in Commands /\ ~(Open(n))'
  <2>1. send'[n].st \in {"ok", "failed"} BY <1>3
  <2>2. Outcome' = [Outcome EXCEPT ![n] = send'[n].st]
    BY <1>3, NewOutcome, CommandsKnown
  <2>3. Outcome[n] = "open" BY <1>3 DEF Outcome
  <2>4. send'[n].st = "ok" => n \in Took BY <1>3 DEF Took, Open
  <2>5. Shell!Return(n) BY <1>1, <1>3, <2>1, <2>2, <2>3, <2>4 DEF Shell!Return
  <2> QED BY <1>3, <2>5
<1> QED BY <1>2, <1>3

(* The kernel takes a command. *)
LEMMA TakeRefines ==
    ASSUME TypeOK, TransportInv, HandlersInv, MaxRetries + Lifetime <= Window,
           NEW p \in net, Receive(p), ReceiveData(p),
           p.msg \in Commands, got'[p.msg] # got[p.msg]
    PROVE  Shell!Take(p.msg)
<1>0. PacketsNamed BY DEF TransportInv
<1> DEFINE c == p.msg
           new == {m \in Commands : got'[m] > got[m]}
<1>1. /\ c \in Msgs /\ send[c].st # "new" /\ got'[c] > got[c] /\ got'[c] > 0 /\ c \notin here
      /\ \A n \in Msgs : n # c => got'[n] = got[n]
  <2>1. ~Remembered(Dst[c], Src[c], p.seq) /\ p.kind = "data" BY <1>0, Handed DEF ReceiveData
  <2> QED BY <2>1, <1>0, Handed, NewHere
<1>2. \A m \in Commands : got'[m] > got[m] <=> m = c
  <2> TAKE m \in Commands
  <2>1. m \in Msgs /\ got[m] \in Nat BY CommandsKnown, FieldsTyped
  <2> QED BY <1>1, <2>1
<1>3. new = {c} BY <1>2
<1>4. /\ handlers' = [m \in Commands |-> IF m = c THEN handlers[m] + 1 ELSE handlers[m]]
      /\ here' = here \cup {c} /\ UNCHANGED <<runs, send>>
  BY <1>3 DEF Receive, ReceiveData
<1>5. \A m \in Commands : handlers[m] \in Nat BY DEF HandlersInv
<1>6. Running' = Running \cup {c}
  <2>1. \A m \in Commands : handlers'[m] > 0 <=> handlers[m] > 0 \/ m = c
    BY <1>4, <1>5
  <2> QED BY <2>1 DEF Running
<1>7. Took' = Took \cup {c}
  <2>1. \A m \in Commands : got'[m] > 0 <=> got[m] > 0 \/ m = c
    BY <1>1, CommandsKnown
  <2> QED BY <2>1 DEF Took
<1>8. Answered' = Answered
  <2>1. \A m \in Commands : \A k \in 1 .. Len(Responses[m]) :
           got'[Responses[m][k]] = got[Responses[m][k]]
    BY <1>1, CommandsKnown
  <2>2. \A m \in Commands : Shown(m)' = Shown(m) BY <2>1 DEF Shown
  <2> QED BY <2>2 DEF Answered
<1>9. Outcome' = Outcome BY <1>4, SameOutcome
<1>10. Outcome[c] # "new" BY <1>1 DEF Outcome, Open
<1> QED BY <1>1, <1>4, <1>6, <1>7, <1>8, <1>9, <1>10 DEF Shell!Take

LEMMA IntervalSize ==
    ASSUME NEW n \in Nat
    PROVE  IsFiniteSet(1 .. n) /\ Cardinality(1 .. n) = n
<1>1. 1 \in Int /\ n \in Int OBVIOUS
<1>2. IsFiniteSet(1 .. n) /\ Cardinality(1 .. n) = IF 1 > n THEN 0 ELSE n - 1 + 1
  BY <1>1, FS_Interval
<1> QED BY <1>2

LEMMA ShownFinite ==
    ASSUME NEW m \in Commands
    PROVE  IsFiniteSet(Shown(m))
<1>1. Len(Responses[m]) \in Nat BY KernelAssumption
<1>2. IsFiniteSet(1 .. Len(Responses[m])) BY <1>1, FS_Interval
<1>3. Shown(m) \in SUBSET (1 .. Len(Responses[m])) BY DEF Shown
<1> QED BY <1>2, <1>3, FS_Subset

(* A response reaches the user; it is the answer of an execution. *)
LEMMA AnswerRefines ==
    ASSUME TypeOK, TransportInv, HandlersInv, TransportInv',
           NEW p \in net, Receive(p), ReceiveData(p),
           NEW c \in Commands, NEW k \in 1 .. Len(Responses[c]),
           p.msg = Responses[c][k], got'[p.msg] # got[p.msg]
    PROVE  Shell!Answer(c) \/ UNCHANGED Shell!vars
<1>0. PacketsNamed BY DEF TransportInv
<1>1. /\ p.msg \in Msgs /\ p.msg \notin Commands /\ got[p.msg] \in Nat
      /\ got'[p.msg] > 0 /\ \A n \in Msgs : n # p.msg => got'[n] = got[n]
  BY <1>0, Handed, CommandsKnown, FieldsTyped
<1>2. \A m \in Commands : got'[m] = got[m] BY <1>1, CommandsKnown
<1>3. UNCHANGED <<here, handlers, runs, send>>
  BY <1>2, NothingTaken DEF ReceiveData
<1>4. /\ Running' = Running /\ Took' = Took BY <1>2, <1>3 DEF Running, Took
<1>5. Outcome' = Outcome BY <1>3, SameOutcome
<1>6. \A m \in Commands : \A j \in 1 .. Len(Responses[m]) :
         ~(m = c /\ j = k) => got'[Responses[m][j]] = got[Responses[m][j]]
  BY <1>1, CommandsKnown
<1>7. \A m \in Commands : m # c => Shown(m)' = Shown(m)
  BY <1>6 DEF Shown
<1>8. Shown(c)' = Shown(c) \cup {k}
  BY <1>1, <1>6 DEF Shown
<1>9. CASE k \in Shown(c)
  <2>1. \A m \in Commands : Shown(m)' = Shown(m) BY <1>7, <1>8, <1>9
  <2>2. Answered' = Answered BY <2>1 DEF Answered
  <2> QED BY <1>3, <1>4, <1>5, <2>2 DEF Shell!vars
<1>10. CASE k \notin Shown(c)
  <2>1. IsFiniteSet(Shown(c)) BY ShownFinite
  <2>2. Cardinality(Shown(c)') = Cardinality(Shown(c)) + 1 /\ Cardinality(Shown(c)) \in Nat
    BY <1>8, <1>10, <2>1, FS_AddElement, FS_CardinalityType
  <2>3. Answered' = [Answered EXCEPT ![c] = @ + 1]
    BY <1>7, <2>2 DEF Answered
  <2>4. Answered[c] < runs[c]
    <3>1. runs[c] \in Nat BY DEF HandlersInv
    <3>2. Shown(c)' \in SUBSET (1 .. runs[c])
      <4> SUFFICES ASSUME NEW j \in Shown(c)' PROVE j \in 1 .. runs[c]
        BY <1>3 DEF Receive
      <4>1. j \in 1 .. Len(Responses[c]) /\ got'[Responses[c][j]] > 0 BY DEF Shown
      <4>2. send[Responses[c][j]].st # "new"
        BY <1>3, <4>1, CommandsKnown DEF TransportInv, GotSent
      <4>3. j <= runs[c] BY <4>1, <4>2 DEF HandlersInv, ResponsesSent
      <4>4. Len(Responses[c]) \in Nat BY KernelAssumption
      <4> QED BY <3>1, <4>1, <4>3, <4>4
    <3>3. IsFiniteSet(1 .. runs[c]) /\ Cardinality(1 .. runs[c]) = runs[c]
      BY <3>1, IntervalSize
    <3>4. Cardinality(Shown(c)') <= runs[c]
      BY <1>3, <3>2, <3>3, FS_Subset
    <3>5. Answered[c] = Cardinality(Shown(c)) BY DEF Answered
    <3> QED BY <2>2, <3>1, <3>4, <3>5
  <2> QED BY <1>3, <1>4, <1>5, <2>3, <2>4 DEF Shell!Answer
<1> QED BY <1>9, <1>10

LEMMA ReceiveRefines ==
    ASSUME TypeOK, WaitersOf(Clients), TransportInv, HandlersInv, TransportInv',
           MaxRetries + Lifetime <= Window, NEW p \in net, Receive(p)
    PROVE  [Shell!Next]_(Shell!vars)
<1>0. PacketsNamed BY DEF TransportInv
<1>1. CASE UNCHANGED got /\ ~ReceiveAck(p)
  <2>1. UNCHANGED <<here, handlers, runs, send>>
    BY <1>1, NothingTaken DEF Receive, Lose, ReceiveData
  <2>2. Outcome' = Outcome BY <2>1, SameOutcome
  <2> QED BY <1>1, <2>1, <2>2, SameGot DEF Shell!vars, Running
<1>2. CASE ReceiveAck(p)
  <2>1. UNCHANGED <<here, handlers, runs>> BY <1>2, NothingTaken DEF ReceiveAck
  <2>2. PICK m \in Msgs :
           /\ p.kind = "ack" /\ Open(m) /\ p.to = Src[m] /\ p.seq = send[m].seq
           /\ UNCHANGED <<got, seen_data, net>>
           /\ \A n \in Msgs : n # m => send'[n] = send[n]
           /\ send'[m].st \in {"ok", "write"}
    BY <1>2, Woken DEF WaitersOf
  <2>3. m \in Commands => got[m] > 0 BY <2>2 DEF TransportInv, AcksTaken
  <2>4. (\E n \in Commands : Shell!Return(n)) \/ UNCHANGED Shell!vars
    BY <2>1, <2>2, <2>3, ReturnRefines DEF Open
  <2> QED BY <2>4 DEF Shell!Next
<1>3. CASE ReceiveData(p) /\ got' # got
  <2>1. p.msg \in Msgs /\ got'[p.msg] # got[p.msg]
    <3>1. p.msg \in Msgs /\ got[p.msg] \in Nat BY <1>3, <1>0, Handed, FieldsTyped
    <3> QED BY <1>3, <3>1, <1>0, Handed
  <2>2. CASE p.msg \in Commands
    BY <1>3, <2>1, <2>2, TakeRefines DEF Shell!Next
  <2>3. CASE \E c \in Commands : \E k \in 1 .. Len(Responses[c]) : p.msg = Responses[c][k]
    <3>1. PICK c \in Commands : \E k \in 1 .. Len(Responses[c]) : p.msg = Responses[c][k]
      BY <2>3
    <3>2. PICK k \in 1 .. Len(Responses[c]) : p.msg = Responses[c][k]
      BY <3>1
    <3> QED BY <1>3, <2>1, <3>2, AnswerRefines DEF Shell!Next
  <2>4. CASE /\ p.msg \notin Commands
             /\ ~\E c \in Commands : \E k \in 1 .. Len(Responses[c]) : p.msg = Responses[c][k]
    <3>1. \A n \in Msgs : n # p.msg => got'[n] = got[n] BY <1>3, <1>0, Handed
    <3>2. \A m \in Commands : got'[m] = got[m] BY <2>4, <3>1, CommandsKnown
    <3>3. UNCHANGED <<here, handlers, runs, send>> BY <1>3, <3>2, NothingTaken DEF ReceiveData
    <3>4. \A m \in Commands : \A k \in 1 .. Len(Responses[m]) :
             got'[Responses[m][k]] = got[Responses[m][k]]
      BY <2>4, <3>1, CommandsKnown
    <3>5. \A m \in Commands : Shown(m)' = Shown(m) BY <3>4 DEF Shown
    <3>6. Outcome' = Outcome BY <3>3, SameOutcome
    <3> QED BY <3>2, <3>3, <3>5, <3>6 DEF Shell!vars, Running, Took, Answered
  <2> QED BY <2>2, <2>3, <2>4
<1> QED BY <1>1, <1>2, <1>3 DEF Receive, Lose

LEMMA HandleRefines ==
    ASSUME TypeOK, HandlersInv, NEW m \in Commands, Handle(m)
    PROVE  Shell!Execute(m)
<1> DEFINE r == Responses[m][runs[m] + 1]
<1>1. r \in Msgs /\ r \notin Commands BY ResponseLeft, CommandsKnown
<1>2. \A n \in Commands : send'[n] = send[n]
  BY <1>1, CommandsKnown DEF Handle, Send, TypeOK
<1>3. UNCHANGED <<got, here>> BY DEF Handle, Send
<1>4. Outcome' = Outcome BY <1>2, SameOutcome
<1>5. /\ handlers[m] = 1 /\ handlers' = [handlers EXCEPT ![m] = @ - 1]
      /\ runs' = [runs EXCEPT ![m] = @ + 1]
      /\ handlers \in [Commands -> Nat]
  BY DEF Handle, HandlersInv, HandlersHere
<1>6. \A n \in Commands : handlers'[n] > 0 <=> handlers[n] > 0 /\ n # m
  BY <1>5
<1>7. m \in Running /\ Running' = Running \ {m} BY <1>5, <1>6 DEF Running
<1> QED BY <1>3, <1>4, <1>5, <1>7, SameGot DEF Shell!Execute

LEMMA TransportRefines ==
    ASSUME TypeOK, WaitersOf(Clients), TransportInv, Transport
    PROVE  [Shell!Next]_(Shell!vars)
<1>1. UNCHANGED <<handlers, runs, here>> BY DEF Transport, kernel
<1>2. CASE Tick
  <2>1. ASSUME NEW n \in Msgs PROVE send'[n].st = send[n].st
    <3>1. send'[n] = IF send[n].st = "wait" THEN [send[n] EXCEPT !.age = 1] ELSE send[n]
      BY <1>2 DEF Tick
    <3>2. send[n] \in SendState BY DEF TypeOK
    <3> QED BY <3>1, <3>2 DEF SendState
  <2>2. Outcome' = Outcome BY <2>1, SameOutcome, CommandsKnown
  <2>3. UNCHANGED got BY <1>2 DEF Tick
  <2> QED BY <1>1, <2>2, <2>3, SameGot DEF Shell!vars, Running
<1>3. ASSUME NEW n \in Msgs, Progress(n) PROVE [Shell!Next]_(Shell!vars)
  <2>1. /\ Open(n) /\ UNCHANGED got
        /\ \A m \in Msgs : m # n => send'[m] = send[m]
        /\ \/ send'[n].st \in {"write", "wait"}
           \/ send'[n].st = "ok" /\ send[n].acked
           \/ send'[n].st = "failed"
    BY <1>3, Turns
  <2>2. n \in Commands /\ send[n].acked => got[n] > 0
    BY <2>1 DEF TransportInv, CommandsTaken
  <2>3. (\E m \in Commands : Shell!Return(m)) \/ UNCHANGED Shell!vars
    BY <1>1, <2>1, <2>2, ReturnRefines DEF Open
  <2> QED BY <2>3 DEF Shell!Next
<1> QED BY <1>2, <1>3 DEF Transport

LEMMA RebootRefines ==
    ASSUME TypeOK, Reboot
    PROVE  Shell!Restart
<1>1. \A m \in Commands : send'[m] = send[m]
  BY Restarted, CommandsKnown DEF Reboot
<1>2. Outcome' = Outcome BY <1>1, SameOutcome
<1>3. UNCHANGED <<got, runs>> /\ here' = {} /\ handlers' = [m \in Commands |-> 0]
  BY DEF Reboot, Restart
<1>4. Running' = {} BY <1>3 DEF Running
<1> QED BY <1>2, <1>3, <1>4, SameGot DEF Shell!Restart

LEMMA ShellStep ==
    ASSUME MaxRetries + Lifetime <= Window
    PROVE  KernelInv /\ KernelInv' /\ [KernelNext]_all => [Shell!Next]_(Shell!vars)
<1> SUFFICES ASSUME KernelInv, KernelInv', [KernelNext]_all
             PROVE  [Shell!Next]_(Shell!vars)
  OBVIOUS
<1> USE DEF KernelInv
<1>1. ASSUME NEW i \in 1 .. Len(Script), Type(i) PROVE Shell!Next
  BY <1>1, TypeRefines DEF Shell!Next
<1>2. ASSUME NEW p \in net, Receive(p) PROVE [Shell!Next]_(Shell!vars)
  BY <1>2, ReceiveRefines
<1>3. ASSUME NEW m \in Commands, Handle(m) PROVE Shell!Next
  BY <1>3, HandleRefines DEF Shell!Next
<1>4. CASE Transport BY <1>4, TransportRefines
<1>5. CASE Reboot BY <1>5, RebootRefines DEF Shell!Next
<1>6. CASE UNCHANGED all
  BY <1>6 DEF all, vars, kernel, Shell!vars, Outcome, Took, Running, Answered, Shown, Open
<1> QED BY <1>1, <1>2, <1>3, <1>4, <1>5, <1>6 DEF KernelNext

(* What the user sees of the commands, over retries, late duplicates and   *)
(* restarts of the kernel, is a behaviour of RemoteShell (unikernel.ml     *)
(* over stack.ml).  The hypothesis says that a number is remembered for as *)
(* long as a retry of it can still arrive: the kernel remembers it for     *)
(* 30 s (main.ml), and the client writes its last retry 1.6 s after the    *)
(* first attempt (client.ml).                                              *)
THEOREM RemoteShellKept ==
    ASSUME MaxRetries + Lifetime <= Window
    PROVE  KernelSpec => ImplementsRemoteShell
<1>1. KernelInit => KernelInv /\ Shell!Init BY KernelStart, ShellStart
<1>2. KernelInv /\ [KernelNext]_all => KernelInv' BY KernelStep
<1>3. KernelInv /\ KernelInv' /\ [KernelNext]_all => [Shell!Next]_(Shell!vars)
  BY ShellStep
<1> QED BY <1>1, <1>2, <1>3, PTL DEF KernelSpec, ImplementsRemoteShell, Shell!Spec
===============================================================================
