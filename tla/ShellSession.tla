----------------------------- MODULE ShellSession -----------------------------
(***************************************************************************)
(* A user of NanoOS who waits for each answer, with the files that the     *)
(* commands work on.  The commands travel over the transport of NanoStack. *)
(* The evaluation of a command (nano_os/lib/shell.ml) is split where the   *)
(* file system waits for its disk (nano_os/lib/fs.ml): when the handler    *)
(* starts it looks into the cache; later the superblock it asked for       *)
(* arrives; then the directory it computed is on disk; at last the cache   *)
(* is brought up to date and the answer sent.  What happens inside these   *)
(* steps, errors of the disk and its limits are the subject of NanoFS; a   *)
(* crash keeps the old directory or the new one.                           *)
(* The way back is the subject of Kernel: an answer arrives or is lost.    *)
(***************************************************************************)
EXTENDS NanoStack, Sequences

SequenceOps == INSTANCE SequencesExt

CONSTANTS
    Script,    \* the commands in the order in which they are typed
    Menu,      \* Menu[i]: what may be typed as line i: kind, name and content
    Empty,     \* the content of a file that was only touched
    MaxLives   \* how often the kernel is started

Commands == {Script[i] : i \in 1 .. Len(Script)}
Kernel == Dst[Script[1]]

(* The commands are messages, and each line is one that eval knows.         *)
ASSUME SessionAssumption ==
    /\ Script \in Seq(Msgs) /\ Script # <<>>
    /\ \A i \in 1 .. Len(Script) : \A r \in Menu[i] : r.kind \in {"cat", "write", "touch", "rm"}

VARIABLES
    files,    \* the directory on disk, with the contents
    cache,    \* its copy in memory
    work,     \* work[m]: the handlers of m, each with what it has read
    request,  \* request[m]: what was typed as command m, or NotTyped
    replies,  \* history: replies[m]: what the executions of m come to
    answered, \* the commands whose answer was sent
    seen,     \* the commands whose answer the user has seen
    life,     \* how often the kernel was started
    here,     \* history: the commands that this life of the kernel took
    overlap   \* history: whether it had two of them under way at once

NotTyped == [kind |-> "none"]

shell == <<files, cache, work, replies, answered>>
user == <<request, seen>>
era == <<life, here, overlap>>
everything == <<vars, shell, user, era>>

SessionInit ==
    /\ Init
    /\ files = [n \in {} |-> Empty]
    /\ cache = files
    /\ work = [m \in Commands |-> <<>>]
    /\ replies = [m \in Commands |-> <<>>]
    /\ request = [m \in Commands |-> NotTyped]
    /\ answered = {}
    /\ seen = {}
    /\ life = 1
    /\ here = {}
    /\ overlap = FALSE

(* The prompt is back, and the user has seen every answer.                  *)
Type(i, r) ==
    /\ \A j \in 1 .. (i - 1) : send[Script[j]].st \in {"ok", "failed"} /\ Script[j] \in seen
    /\ PacedSend(Script[i])
    /\ request' = [request EXCEPT ![Script[i]] = r]
    /\ UNCHANGED <<shell, seen, era>>

(* What a handler has read: the cache as it was when eval looked at it, and *)
(* the directory, which it holds from the load on.                          *)
Fresh == [st |-> "new", saw |-> cache, dir |-> cache]

(* The callback of Unikernel.run starts eval, which runs until it first     *)
(* waits: ls and the tests of create_file and read_file see the cache of    *)
(* that moment.                                                             *)
Receive(p) ==
    /\ ReceiveAck(p) \/ ReceiveData(p) \/ Lose(p)
    /\ LET new == {m \in Commands : got'[m] > got[m]}
       IN  /\ work' = [m \in Commands |-> IF m \in new THEN Append(work[m], Fresh) ELSE work[m]]
           /\ here' = here \cup new
           /\ overlap' = (overlap \/ \E m \in new, n \in Commands : n # m /\ work[n] # <<>>)
    /\ UNCHANGED <<files, cache, replies, answered, user, life>>

Exists(r, v) == r.name \in DOMAIN v

(* What write_file and delete_file wait for: touch and cat may be answered  *)
(* from the cache alone.                                                    *)
Loads(r, w) == r.kind \in {"write", "rm"} \/ (r.kind = "touch" /\ ~Exists(r, w.saw))

(* The superblock arrives in load_entries.                                  *)
Load(m, i) ==
    /\ work[m][i].st = "new" /\ Loads(request[m], work[m][i])
    /\ work' = [work EXCEPT ![m][i].st = "loaded", ![m][i].dir = files]
    /\ UNCHANGED <<vars, files, cache, replies, answered, user, era>>

(* The directory that write_superblock is given. *)
NewDirectory(r, dir) ==
    IF r.kind = "rm" THEN [n \in DOMAIN dir \ {r.name} |-> dir[n]]
    ELSE [n \in DOMAIN dir \cup {r.name} |->
            IF n # r.name THEN dir[n] ELSE IF r.kind = "touch" THEN Empty ELSE r.content]

(* The answer of eval, from what the handler has read. *)
Answer(r, w) ==
    CASE r.kind = "cat" -> IF Exists(r, w.saw) THEN <<"content", w.saw[r.name]>> ELSE <<"not found">>
      [] r.kind = "write" -> IF Exists(r, w.saw) THEN <<"overwritten">> ELSE <<"created">>
      [] r.kind = "touch" -> IF Exists(r, w.saw) THEN <<"exists">> ELSE <<"created">>
      [] r.kind = "rm" -> IF Exists(r, w.dir) THEN <<"deleted">> ELSE <<"not found">>

(* The new directory is on the disk.                                        *)
WriteSuper(m, i) ==
    LET r == request[m]
        w == work[m][i]
    IN  /\ w.st = "loaded" /\ (r.kind = "rm" => Exists(r, w.dir))
        /\ files' = NewDirectory(r, w.dir)
        /\ work' = [work EXCEPT ![m][i].st = "wrote", ![m][i].dir = files']
        /\ replies' = [replies EXCEPT ![m] = Append(@, Answer(r, w))]
        /\ UNCHANGED <<vars, cache, answered, user, era>>

(* The continuation of write_superblock: update_cache, and the answer.      *)
Publish(m, i) ==
    /\ work[m][i].st = "wrote"
    /\ cache' = work[m][i].dir
    /\ work' = [work EXCEPT ![m] = SequenceOps!RemoveAt(@, i)]
    /\ answered' = answered \cup {m}
    /\ UNCHANGED <<vars, files, replies, user, era>>

(* A command that has nothing to write is answered.                         *)
Reply(m, i) ==
    LET r == request[m]
        w == work[m][i]
    IN  /\ \/ w.st = "new" /\ ~Loads(r, w)
           \/ w.st = "loaded" /\ r.kind = "rm" /\ ~Exists(r, w.dir)
        /\ replies' = [replies EXCEPT ![m] = Append(@, Answer(r, w))]
        /\ work' = [work EXCEPT ![m] = SequenceOps!RemoveAt(@, i)]
        /\ answered' = answered \cup {m}
        /\ UNCHANGED <<vars, files, cache, user, era>>

Show(m) ==
    /\ m \in answered /\ m \notin seen
    /\ seen' = seen \cup {m}
    /\ UNCHANGED <<vars, shell, request, era>>

Transport ==
    /\ Tick \/ \E m \in Msgs : Progress(m)
    /\ UNCHANGED <<shell, user, era>>

(* A restart forgets what was delivered: a command that was executed is     *)
(* given to the kernel again if a packet of it is under way or is still     *)
(* written.                                                                 *)
Reboot ==
    /\ life < MaxLives
    /\ Restart(Kernel)
    /\ work' = [m \in Commands |-> <<>>]
    /\ life' = life + 1
    /\ here' = {} /\ overlap' = FALSE
    /\ cache' = files
    /\ UNCHANGED <<files, replies, answered, user>>

SessionNext ==
    \/ \E i \in 1 .. Len(Script) : \E r \in Menu[i] : Type(i, r)
    \/ \E p \in net : Receive(p)
    \/ \E m \in Commands : \E i \in DOMAIN work[m] :
            Load(m, i) \/ WriteSuper(m, i) \/ Publish(m, i) \/ Reply(m, i)
    \/ \E m \in Commands : Show(m)
    \/ Transport
    \/ Reboot

SessionSpec == SessionInit /\ [][SessionNext]_everything

-------------------------------------------------------------------------------
(* Properties. *)

(* How far the commands have come in this life of the kernel.               *)
Phase ==
    [m \in Commands |->
        CASE work[m] # <<>> /\ work[m][1].st = "wrote" -> "effect"
          [] work[m] # <<>> /\ work[m][1].st # "wrote" -> "taken"
          [] work[m] = <<>> -> IF m \in here THEN "ended" ELSE "none"]

User == INSTANCE Console WITH phase <- Phase

(* Transport, request loop, shell and file system together are a console:   *)
(* although packets are lost and come twice or late, handlers read the      *)
(* directory long before they write it, and the kernel restarts, a command  *)
(* takes effect at most once in each life of the kernel; the commands of a  *)
(* user who waits for the answers meet only when one of them, executed      *)
(* before a restart, is given to the kernel again; and in a life in which   *)
(* none meet, each takes effect at one instant and is answered from the     *)
(* files of that instant (eval in shell.ml over unikernel.ml:18-26 and      *)
(* stack.ml:154-171).                                                       *)
ImplementsConsole == User!Spec
===============================================================================
