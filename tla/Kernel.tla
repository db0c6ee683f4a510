--------------------------------- MODULE Kernel ---------------------------------
(***************************************************************************)
(* NanoOS at work: a user types commands at the prompt of the client       *)
(* (nano_os/bin/client.ml), the transport of NanoStack carries them to the *)
(* kernel, whose request loop (nano_os/lib/unikernel.ml) starts a handler  *)
(* for each message that listen passes on, and a handler evaluates its     *)
(* command and sends the response back through the same transport.  The    *)
(* kernel may restart at any time and then has forgotten everything but    *)
(* its disk.                                                               *)
(*                                                                         *)
(* What a command does to the files is the subject of NanoFS; here an      *)
(* evaluation is one step, some time after its handler was started.        *)
(***************************************************************************)
EXTENDS NanoStack, Sequences

CONSTANTS
    Script,     \* the commands in the order in which they are typed
    Responses,  \* Responses[m]: the messages that answer its executions
    MaxLives    \* how often the kernel is started

Commands == {Script[i] : i \in 1 .. Len(Script)}
Kernel == Dst[Script[1]]

(* Commands go to the kernel from other hosts, and a response is a message  *)
(* of its own that goes back.                                               *)
ASSUME KernelAssumption ==
    /\ Script \in Seq(Msgs) /\ Script # <<>>
    /\ \A m \in Commands : Dst[m] = Kernel /\ Src[m] # Kernel
    /\ Responses \in [Commands -> Seq(Msgs)]
    /\ \A m \in Commands : \A i \in 1 .. Len(Responses[m]) :
          LET r == Responses[m][i]
          IN  /\ Src[r] = Kernel /\ Dst[r] = Src[m]
              /\ \A n \in Commands : \A j \in 1 .. Len(Responses[n]) :
                    Responses[n][j] = r => n = m /\ j = i

VARIABLES
    handlers,  \* handlers[m]: the handlers of command m that are evaluating it
    runs,      \* history: how often each command was executed
    here,      \* history: the commands this life of the kernel took
    life       \* how often the kernel was started

kernel == <<handlers, runs, here, life>>
all == <<vars, kernel>>

KernelInit ==
    /\ Init
    /\ handlers = [m \in Commands |-> 0]
    /\ runs = [m \in Commands |-> 0]
    /\ here = {}
    /\ life = 1

(* The prompt comes back when send has returned.                            *)
Prompt(i) == \A j \in 1 .. (i - 1) : send[Script[j]].st \in {"ok", "failed"}

Type(i) ==
    /\ Prompt(i)
    /\ PacedSend(Script[i])
    /\ UNCHANGED kernel

(* A packet is received; the callback of Unikernel.run starts a handler and *)
(* returns.                                                                 *)
Receive(p) ==
    /\ ReceiveAck(p) \/ ReceiveData(p) \/ Lose(p)
    /\ LET new == {m \in Commands : got'[m] > got[m]}
       IN  /\ handlers' = [m \in Commands |-> IF m \in new THEN handlers[m] + 1 ELSE handlers[m]]
           /\ here' = here \cup new
    /\ UNCHANGED <<runs, life>>

(* Mutant: the handler sends no response. *)
HandleSilently(m) ==
    /\ handlers[m] > 0
    /\ handlers' = [handlers EXCEPT ![m] = @ - 1]
    /\ runs' = [runs EXCEPT ![m] = @ + 1]
    /\ UNCHANGED <<vars, here, life>>

(* A handler has evaluated its command and starts to send the response,     *)
(* under the next number, which may be in use.                              *)
Handle(m) ==
    /\ handlers[m] > 0 /\ runs[m] < Len(Responses[m])
    /\ handlers' = [handlers EXCEPT ![m] = @ - 1]
    /\ runs' = [runs EXCEPT ![m] = @ + 1]
    /\ Send(Responses[m][runs[m] + 1])
    /\ UNCHANGED <<here, life>>

(* Time and the steps of calls of send that are open, on either host.       *)
Transport ==
    /\ Tick \/ \E m \in Msgs : Progress(m)
    /\ UNCHANGED kernel

(* The kernel is started again: its handlers and its tables are gone.       *)
Reboot ==
    /\ life < MaxLives
    /\ Restart(Kernel)
    /\ handlers' = [m \in Commands |-> 0]
    /\ here' = {}
    /\ life' = life + 1
    /\ UNCHANGED runs

KernelNext ==
    \/ \E i \in 1 .. Len(Script) : Type(i)
    \/ \E p \in net : Receive(p)
    \/ \E m \in Commands : Handle(m)
    \/ Transport \/ Reboot

(* Lwt runs what can run: timers, writes and handlers. *)
KernelFairness ==
    /\ WF_all(Tick /\ UNCHANGED kernel)
    /\ \A m \in Msgs : WF_all(Progress(m) /\ UNCHANGED kernel)
    /\ \A m \in Commands : WF_all(Handle(m))

KernelSpec == KernelInit /\ [][KernelNext]_all /\ KernelFairness

-------------------------------------------------------------------------------
(* Properties. *)

Shown(m) == {k \in 1 .. Len(Responses[m]) : got[Responses[m][k]] > 0}

(* What the user and the kernel know of the commands.                       *)
Outcome == [m \in Commands |-> IF Open(m) THEN "open" ELSE send[m].st]
Took == {m \in Commands : got[m] > 0}
Running == {m \in Commands : handlers[m] > 0}
Answered == [m \in Commands |-> Cardinality(Shown(m))]

Shell == INSTANCE RemoteShell WITH
    outcome <- Outcome, took <- Took, running <- Running, answered <- Answered

(* Retries, late duplicates and restarts of the kernel together: a command  *)
(* runs at most once per life, an answer shown to the user belongs to an    *)
(* execution, and Ok means that some life took the command (unikernel.ml    *)
(* over the dedupe of stack.ml).                                            *)
ImplementsRemoteShell == Shell!Spec

(* A command that the kernel took is executed and the send of its response  *)
(* returns, unless the kernel restarts, although the network may lose       *)
(* everything and both hosts wait for each other's acknowledgements         *)
(* ("Handle each request asynchronously so the listener keeps running.",    *)
(* unikernel.ml:19).                                                        *)
TakenIsAnswered ==
    \A m \in Commands : \A n \in 1 .. MaxLives :
        m \in here /\ life = n ~>
            \/ life # n
            \/ /\ handlers[m] = 0 /\ runs[m] > 0
               /\ send[Responses[m][runs[m]]].st \in {"ok", "failed"}
===============================================================================
