--------------------------- MODULE ShellSessionProofs ---------------------------
(***************************************************************************)
(* The session of a user who waits for each answer is a console, for any   *)
(* script and any lines, any number of restarts, and any modulus and       *)
(* number of retries.                                                      *)
(*                                                                         *)
(* The kernel keeps a message that it was given in this life while packets *)
(* of it may arrive, so no second handler of a command starts before the   *)
(* next restart.  A line is typed when the answers to those before it were *)
(* seen, so of two commands that are under way at once one was answered    *)
(* before: an earlier life had executed it.  Until that happens the one    *)
(* handler finds on the disk what it has read.                             *)
(***************************************************************************)
EXTENDS ShellSession, NanoStackProofs

-------------------------------------------------------------------------------
(* The inductive invariant.                                                *)

HereKept == here \subseteq Commands /\ \A m \in here : Kept(m)

Typed(m) == request[m] # NotTyped

(* Lines are typed in the order of the script, each when the answers to     *)
(* those before it were seen.                                               *)
TypedInOrder ==
    \A m \in Commands :
        /\ Typed(m) <=> send[m].st # "new"
        /\ Typed(m) =>
              \E i \in 1 .. Len(Script) :
                  /\ Script[i] = m /\ request[m] \in Menu[i]
                  /\ \A j \in 1 .. (i - 1) : Script[j] \in seen

Handler(w) == [st |-> w.st, saw |-> w.saw, dir |-> w.dir]

OneHandler ==
    \A m \in Commands :
        work[m] = <<>> \/ (work[m] = <<Handler(work[m][1])>> /\ m \in here)

Wrote(m) == work[m] # <<>> /\ work[m][1].st = "wrote"

(* A command that was answered had taken effect, and if it is under way     *)
(* again it had done so before.                                             *)
AnswersReal ==
    /\ seen \subseteq answered /\ answered \subseteq Commands
    /\ \A m \in answered : Len(replies[m]) >= 1 /\ (Wrote(m) => Len(replies[m]) >= 2)
    /\ \A m \in Commands : Wrote(m) => Len(replies[m]) >= 1

(* What a handler has read is what is on the disk.                          *)
ReadsCurrent(m, w) ==
    \/ w.st = "new" /\ w.saw = files
    \/ w.st = "loaded" /\ w.saw = files /\ w.dir = files /\ Loads(request[m], w)
    \/ w.st = "wrote" /\ w.dir = files

Undisturbed ==
    /\ cache = files \/ \E m \in Commands : Wrote(m)
    /\ \A m \in Commands : work[m] # <<>> =>
          ReadsCurrent(m, work[m][1]) /\ \A n \in Commands : n # m => work[n] = <<>>

Tables ==
    /\ work = [m \in Commands |-> work[m]]
    /\ replies = [m \in Commands |-> replies[m]]
    /\ request = [m \in Commands |-> request[m]]
    /\ files = [n \in DOMAIN files |-> files[n]]
    /\ \A m \in Commands : \E S : replies[m] \in Seq(S)
    /\ overlap \in BOOLEAN

ShellInv == AnswersReal /\ OneHandler /\ (overlap \/ Undisturbed) /\ Tables

SessionInv == TypeOK /\ WaiterInv /\ NamedInv /\ HereKept /\ TypedInOrder /\ ShellInv

-------------------------------------------------------------------------------
(* Lemmas. *)

LEMMA CommandsKnown ==
    /\ Commands \subseteq Msgs /\ Kernel \in Hosts /\ Len(Script) \in Nat
    /\ \A i \in 1 .. Len(Script) : Script[i] \in Commands
<1>1. \A i \in 1 .. Len(Script) : Script[i] \in Msgs BY SessionAssumption
<1>2. Len(Script) \in Nat /\ Len(Script) # 0 BY SessionAssumption
<1>3. 1 \in 1 .. Len(Script) BY <1>2
<1>4. Kernel \in Hosts BY <1>1, <1>3 DEF Kernel, Hosts
<1> QED BY <1>1, <1>2, <1>4 DEF Commands

(* The list of a command's handlers with one handler. *)
LEMMA Single ==
    ASSUME NEW w
    PROVE  /\ <<w>> # <<>> /\ <<w>>[1] = w /\ DOMAIN <<w>> = {1}
           /\ Append(<<>>, w) = <<w>>
           /\ SequenceOps!RemoveAt(<<w>>, 1) = <<>>
           /\ \A v : [<<w>> EXCEPT ![1] = v] = <<v>>
<1>1. <<w>> # <<>> /\ <<w>>[1] = w /\ DOMAIN <<w>> = {1} /\ Append(<<>>, w) = <<w>> OBVIOUS
<1>2. SequenceOps!RemoveAt(<<w>>, 1) = <<>>
  <2>1. Len(<<w>>) = 1 OBVIOUS
  <2>2. SubSeq(<<w>>, 1, 0) = <<>> OBVIOUS
  <2>3. SubSeq(<<w>>, 2, 1) = <<>> OBVIOUS
  <2>4. <<>> \o <<>> = <<>> OBVIOUS
  <2> QED BY <2>1, <2>2, <2>3, <2>4 DEF SequenceOps!RemoveAt
<1>3. ASSUME NEW v PROVE [<<w>> EXCEPT ![1] = v] = <<v>> OBVIOUS
<1> QED BY <1>1, <1>2, <1>3

(* A reply is added to those of its command. *)
LEMMA Longer ==
    ASSUME NEW S, NEW s \in Seq(S), NEW x
    PROVE  /\ Append(s, x) \in Seq(S \cup {x}) /\ Len(Append(s, x)) = Len(s) + 1
           /\ Len(s) \in Nat
<1>1. s \in Seq(S \cup {x}) OBVIOUS
<1> QED BY <1>1

LEMMA Replied ==
    ASSUME Tables, NEW m \in Commands, NEW x,
           replies' = [replies EXCEPT ![m] = Append(@, x)]
    PROVE  /\ Len(replies[m]) \in Nat /\ Len(replies'[m]) = Len(replies[m]) + 1
           /\ \A n \in Commands : n # m => replies'[n] = replies[n]
           /\ replies' = [n \in Commands |-> replies'[n]]
           /\ \A n \in Commands : \E S : replies'[n] \in Seq(S)
<1>1. PICK S : replies[m] \in Seq(S) BY DEF Tables
<1>2. replies'[m] = Append(replies[m], x) BY DEF Tables
<1>3. \A n \in Commands : n # m => replies'[n] = replies[n] BY DEF Tables
<1>4. /\ replies'[m] \in Seq(S \cup {x}) /\ Len(replies[m]) \in Nat
      /\ Len(replies'[m]) = Len(replies[m]) + 1
  BY <1>1, <1>2, Longer
<1>5. \A n \in Commands : \E T : replies'[n] \in Seq(T)
  <2> TAKE n \in Commands
  <2>1. CASE n = m BY <1>4, <2>1
  <2>2. CASE n # m
    <3>1. PICK T : replies[n] \in Seq(T) BY DEF Tables
    <3> QED BY <1>3, <2>2, <3>1
  <2> QED BY <2>1, <2>2
<1>6. replies' = [n \in Commands |-> replies'[n]] BY DEF Tables
<1> QED BY <1>3, <1>4, <1>5, <1>6

LEMMA Counted ==
    ASSUME Tables, NEW m \in Commands
    PROVE  Len(replies[m]) \in Nat
<1>1. PICK S : replies[m] \in Seq(S) BY DEF Tables
<1> QED BY <1>1

(* How far a command has come. *)
Stage(m) ==
    IF work[m] # <<>> THEN IF work[m][1].st = "wrote" THEN "effect" ELSE "taken"
    ELSE IF m \in here THEN "ended" ELSE "none"

LEMMA PhaseIs ==
    /\ Phase = [m \in Commands |-> Stage(m)]
    /\ Phase' = [m \in Commands |-> Stage(m)']
<1>1. \A m \in Commands : Phase[m] = Stage(m) BY DEF Phase, Stage
<1>2. \A m \in Commands : Phase'[m] = Stage(m)' BY DEF Phase, Stage
<1>3. Phase = [m \in Commands |-> Phase[m]] /\ Phase' = [m \in Commands |-> Phase'[m]]
  BY DEF Phase
<1> QED BY <1>1, <1>2, <1>3

LEMMA SamePhase ==
    ASSUME UNCHANGED <<work, here>>
    PROVE  UNCHANGED Phase
  BY PhaseIs DEF Stage

LEMMA NewPhase ==
    ASSUME NEW m \in Commands, UNCHANGED here,
           \A n \in Commands : n # m => work'[n] = work[n]
    PROVE  Phase' = [Phase EXCEPT ![m] = Stage(m)']
<1>1. \A n \in Commands : n # m => Stage(n)' = Stage(n) BY DEF Stage
<1> QED BY <1>1, PhaseIs

-------------------------------------------------------------------------------
(* The transport under the session. *)

(* No step but the typing of a line begins or forgets a call of send, and   *)
(* what the callback is given was not remembered.                           *)
LEMMA Begun ==
    ASSUME TypeOK, WaiterInv, NamedInv,
           \/ Tick
           \/ \E m \in Msgs : Progress(m)
           \/ \E p \in net : ReceiveAck(p) \/ ReceiveData(p) \/ Lose(p)
    PROVE  \A n \in Msgs : send'[n].st = "new" <=> send[n].st = "new"
<1> SUFFICES ASSUME NEW n \in Msgs PROVE send'[n].st = "new" <=> send[n].st = "new"
  OBVIOUS
<1>1. CASE Tick
  <2>1. send'[n] = IF send[n].st = "wait" THEN [send[n] EXCEPT !.age = 1] ELSE send[n]
    BY <1>1 DEF Tick
  <2>2. send[n] \in SendState BY DEF TypeOK
  <2> QED BY <2>1, <2>2 DEF SendState
<1>2. ASSUME NEW m \in Msgs, Progress(m) PROVE send'[n].st = "new" <=> send[n].st = "new"
  <2>1. /\ Open(m) /\ \A k \in Msgs : k # m => send'[k] = send[k]
        /\ send'[m].st \in {"write", "wait", "ok", "failed"}
    BY <1>2, Turns
  <2> QED BY <2>1 DEF Open
<1>3. ASSUME NEW p \in net, ReceiveAck(p) PROVE send'[n].st = "new" <=> send[n].st = "new"
  <2>1. PICK m \in Msgs : /\ Open(m) /\ send'[m].st \in {"ok", "write"}
                          /\ \A k \in Msgs : k # m => send'[k] = send[k]
    BY <1>3, Woken DEF WaiterInv
  <2> QED BY <2>1 DEF Open
<1>4. ASSUME NEW p \in net, ReceiveData(p) \/ Lose(p)
      PROVE  send'[n].st = "new" <=> send[n].st = "new"
  BY <1>4 DEF ReceiveData, Lose
<1> QED BY <1>1, <1>2, <1>3, <1>4

(* A command that this life of the kernel took is not given to the callback *)
(* again.                                                                   *)
LEMMA GivenOnce ==
    ASSUME MaxRetries + Lifetime <= Window, TypeOK, TypeOK', WaiterInv, NamedInv, HereKept,
           NEW p \in net, ReceiveAck(p) \/ ReceiveData(p) \/ Lose(p),
           NEW m \in Commands, got'[m] > got[m]
    PROVE  /\ m \notin here /\ send[m].st # "new" /\ Kept(m)'
           /\ \A n \in Commands : got'[n] > got[n] => n = m
<1>0. Commands \subseteq Msgs BY CommandsKnown
<1>1. \A n \in Commands : got[n] \in Nat BY <1>0 DEF TypeOK
<1>2. ReceiveData(p)
  <2>1. CASE ReceiveAck(p) \/ Lose(p)
    <3>1. got' = got BY <2>1 DEF ReceiveAck, Lose
    <3> QED BY <1>1, <3>1
  <2> QED BY <2>1
<1>3. /\ p.msg \in Msgs /\ p.kind = "data" /\ send[p.msg].st # "new"
      /\ ~Remembered(Dst[p.msg], Src[p.msg], p.seq)
      /\ \A n \in Msgs : n # p.msg => got'[n] = got[n]
  <2>1. /\ p.msg \in Msgs /\ send[p.msg].st # "new"
        /\ \/ UNCHANGED got
           \/ /\ ~Remembered(Dst[p.msg], Src[p.msg], p.seq)
              /\ \A n \in Msgs : n # p.msg => got'[n] = got[n]
    BY <1>2, Handed DEF NamedInv
  <2>2. got' # got BY <1>1
  <2> QED BY <1>2, <2>1, <2>2 DEF ReceiveData
<1>4. \A n \in Commands : got'[n] > got[n] => n = p.msg BY <1>0, <1>1, <1>3
<1>5. m = p.msg BY <1>4
<1>6. Kept(m)' BY <1>2, <1>3, <1>5, GivenIsKept
<1>7. m \notin here
  <2> SUFFICES ASSUME m \in here PROVE FALSE OBVIOUS
  <2>1. Kept(p.msg) BY <1>5 DEF HereKept
  <2> QED BY <1>3, <2>1, KeptKnown
<1> QED BY <1>3, <1>4, <1>5, <1>6, <1>7

(* While the kernel runs, what is kept stays kept. *)
LEMMA TransportStep ==
    ASSUME TypeOK, WaiterInv, NamedInv, [Live]_vars
    PROVE  /\ TypeOK' /\ WaiterInv' /\ NamedInv'
           /\ \A m \in Msgs : Kept(m) => Kept(m)'
<1>1. [PacedNext]_vars BY DEF Live, PacedNext, Steps
<1>2. TypeOK' BY <1>1, TypeOKNext, PacedIsNext
<1>3. WaiterInv' BY <1>1, WaiterNext
<1> QED BY <1>2, <1>3, KeptNext

(* The order of the lines is kept when none is typed. *)
LEMMA OrderKept ==
    ASSUME TypedInOrder, UNCHANGED request, seen \subseteq seen',
           \A n \in Msgs : send'[n].st = "new" <=> send[n].st = "new"
    PROVE  TypedInOrder'
<1>1. \A m \in Commands : send'[m].st = "new" <=> send[m].st = "new" BY CommandsKnown
<1>2. ASSUME NEW m \in Commands, (Typed(m))'
      PROVE  \E i \in 1 .. Len(Script) :
                /\ Script[i] = m /\ request'[m] \in Menu[i]
                /\ \A j \in 1 .. (i - 1) : Script[j] \in seen'
  <2>1. Typed(m) BY <1>2 DEF Typed
  <2>2. PICK i \in 1 .. Len(Script) : /\ Script[i] = m /\ request[m] \in Menu[i]
                                      /\ \A j \in 1 .. (i - 1) : Script[j] \in seen
    BY <2>1 DEF TypedInOrder
  <2> QED BY <2>2
<1> QED BY <1>1, <1>2 DEF TypedInOrder, Typed

-------------------------------------------------------------------------------
(* The shell. *)

(* Only one line was typed of which the user has not seen the answer. *)
LEMMA Alone ==
    ASSUME TypedInOrder, NEW m \in Commands, NEW n \in Commands,
           Typed(m), Typed(n), m \notin seen, n \notin seen
    PROVE  m = n
<1>1. PICK i \in 1 .. Len(Script) :
         Script[i] = m /\ \A j \in 1 .. (i - 1) : Script[j] \in seen
  BY DEF TypedInOrder
<1>2. PICK k \in 1 .. Len(Script) :
         Script[k] = n /\ \A j \in 1 .. (k - 1) : Script[j] \in seen
  BY DEF TypedInOrder
<1>3. ~(i < k)
  <2> SUFFICES ASSUME i < k PROVE FALSE OBVIOUS
  <2>1. i \in 1 .. (k - 1) BY CommandsKnown
  <2> QED BY <1>1, <1>2, <2>1
<1>4. ~(k < i)
  <2> SUFFICES ASSUME k < i PROVE FALSE OBVIOUS
  <2>1. k \in 1 .. (i - 1) BY CommandsKnown
  <2> QED BY <1>1, <1>2, <2>1
<1>5. i = k BY <1>3, <1>4, CommandsKnown
<1> QED BY <1>1, <1>2, <1>5

(* A command that was taken was typed. *)
LEMMA HereTyped ==
    ASSUME HereKept, TypedInOrder, NEW m \in here
    PROVE  /\ m \in Commands /\ m \in Msgs /\ Kept(m) /\ Typed(m)
           /\ request[m].kind \in {"cat", "write", "touch", "rm"}
<1>1. m \in Commands /\ m \in Msgs /\ Kept(m) BY CommandsKnown DEF HereKept
<1>2. Typed(m) BY <1>1 DEF TypedInOrder, Kept
<1>3. PICK j \in 1 .. Len(Script) : request[m] \in Menu[j] BY <1>1, <1>2 DEF TypedInOrder
<1> QED BY <1>1, <1>2, <1>3, SessionAssumption

(* The one handler of a command. *)
LEMMA TheHandler ==
    ASSUME SessionInv, NEW m \in Commands, NEW i \in DOMAIN work[m]
    PROVE  /\ i = 1 /\ work[m] # <<>> /\ work[m] = <<Handler(work[m][1])>> /\ m \in here
           /\ work[m][1] = Handler(work[m][1])
           /\ request[m].kind \in {"cat", "write", "touch", "rm"}
           /\ \/ overlap
              \/ /\ ReadsCurrent(m, work[m][1])
                 /\ \A n \in Commands : n # m => work[n] = <<>>
<1>1. work[m] # <<>> OBVIOUS
<1>2. work[m] = <<Handler(work[m][1])>> /\ m \in here
  BY <1>1 DEF SessionInv, ShellInv, OneHandler
<1>3. DOMAIN work[m] = {1} /\ work[m][1] = Handler(work[m][1]) BY <1>2, Single
<1>4. request[m].kind \in {"cat", "write", "touch", "rm"}
  BY <1>2, HereTyped DEF SessionInv
<1>5. \/ overlap
      \/ ReadsCurrent(m, work[m][1]) /\ \A n \in Commands : n # m => work[n] = <<>>
  BY <1>1 DEF SessionInv, ShellInv, Undisturbed
<1> QED BY <1>1, <1>2, <1>3, <1>4, <1>5

(* The handlers of one command change. *)
LEMMA WorkOf ==
    ASSUME Tables, NEW m \in Commands, NEW v, work' = [work EXCEPT ![m] = v]
    PROVE  /\ work'[m] = v /\ \A n \in Commands : n # m => work'[n] = work[n]
           /\ work' = [n \in Commands |-> work'[n]]
  BY DEF Tables

(* What a step of the shell alone has to keep. *)
LEMMA ShellKeeps ==
    ASSUME SessionInv, UNCHANGED <<vars, request, here>>, seen \subseteq seen', ShellInv'
    PROVE  SessionInv'
<1>1. TypeOK' /\ WaiterInv' /\ NamedInv' /\ \A m \in Msgs : Kept(m) => Kept(m)'
  <2>1. [Live]_vars OBVIOUS
  <2> QED BY <2>1, TransportStep DEF SessionInv
<1>2. HereKept' BY <1>1, HereTyped DEF SessionInv, HereKept
<1>3. TypedInOrder'
  <2>1. UNCHANGED send BY DEF vars
  <2> QED BY <2>1, OrderKept DEF SessionInv
<1> QED BY <1>1, <1>2, <1>3 DEF SessionInv

LEMMA HandlerGoesOn ==
    ASSUME NEW w, w = Handler(w), NEW s, NEW d
    PROVE  [w EXCEPT !.st = s, !.dir = d] = [st |-> s, saw |-> w.saw, dir |-> d]
<1>1. ASSUME NEW a, NEW b, NEW c, w = [st |-> a, saw |-> b, dir |-> c]
      PROVE  [w EXCEPT !.st = s, !.dir = d] = [st |-> s, saw |-> b, dir |-> d]
  <2>1. [w EXCEPT !.st = s] = [st |-> s, saw |-> b, dir |-> c] BY <1>1
  <2>2. ASSUME NEW v, v = [st |-> s, saw |-> b, dir |-> c]
        PROVE  [v EXCEPT !.dir = d] = [st |-> s, saw |-> b, dir |-> d]
    BY <2>2
  <2>3. [w EXCEPT !.st = s, !.dir = d] = [[w EXCEPT !.st = s] EXCEPT !.dir = d]
    BY <1>1
  <2> QED BY <2>1, <2>2, <2>3
<1>2. w = [st |-> w.st, saw |-> w.saw, dir |-> w.dir] BY DEF Handler
<1> QED BY <1>1, <1>2

LEMMA OneKept ==
    ASSUME OneHandler, UNCHANGED here, NEW m \in here,
           \A n \in Commands : n # m => work'[n] = work[n],
           work'[m] = <<>> \/ \E w : work'[m] = <<w>> /\ w = Handler(w)
    PROVE  OneHandler'
<1>1. \A n \in Commands : n # m => (work'[n] = <<>> \/ (work'[n] = <<Handler(work'[n][1])>> /\ n \in here'))
  BY DEF OneHandler
<1>2. work'[m] = <<>> \/ work'[m] = <<Handler(work'[m][1])>>
  BY Single
<1> QED BY <1>1, <1>2 DEF OneHandler, Handler

(* The directory arrives: what is on the disk now is what the handler will  *)
(* build its own on.                                                        *)
LEMMA LoadKeeps ==
    ASSUME SessionInv, NEW m \in Commands, NEW i \in DOMAIN work[m], Load(m, i)
    PROVE  SessionInv' /\ UNCHANGED (User!vars)
<1> DEFINE w == work[m][1]
           loaded == [st |-> "loaded", saw |-> w.saw, dir |-> files]
<1>0. ShellInv BY DEF SessionInv
<1>1. /\ i = 1 /\ work[m] # <<>> /\ work[m] = <<Handler(w)>> /\ w = Handler(w) /\ m \in here
      /\ overlap \/ (ReadsCurrent(m, w) /\ \A n \in Commands : n # m => work[n] = <<>>)
  BY TheHandler
<1>2. /\ UNCHANGED <<vars, files, cache, replies, answered, request, seen, here, overlap>>
      /\ w.st = "new" /\ Loads(request[m], w)
      /\ work' = [work EXCEPT ![m][1].st = "loaded", ![m][1].dir = files]
  BY <1>1 DEF Load, user, era
<1>3. /\ work'[m] = <<loaded>> /\ \A n \in Commands : n # m => work'[n] = work[n]
      /\ work' = [n \in Commands |-> work'[n]]
  <2>1. work'[m] = [work[m] EXCEPT ![1] = [w EXCEPT !.st = "loaded", !.dir = files]]
    BY <1>0, <1>2 DEF ShellInv, Tables
  <2>2. [w EXCEPT !.st = "loaded", !.dir = files] = loaded BY <1>1, HandlerGoesOn
  <2>3. /\ \A n \in Commands : n # m => work'[n] = work[n]
        /\ work' = [n \in Commands |-> work'[n]]
    BY <1>0, <1>2 DEF ShellInv, Tables
  <2> QED BY <1>1, <2>1, <2>2, <2>3, Single
<1>4. work'[m] # <<>> /\ work'[m][1] = loaded BY <1>3, Single
<1>5. /\ \A n \in Commands : (Wrote(n))' <=> Wrote(n)
      /\ Stage(m)' = "taken" /\ Stage(m) = "taken"
  <2>1. work'[m] # <<>> /\ work'[m][1].st = "loaded" BY <1>4
  <2>2. work[m] # <<>> /\ work[m][1].st = "new" BY <1>1, <1>2
  <2>3. \A n \in Commands : n # m => ((Wrote(n))' <=> Wrote(n)) BY <1>3 DEF Wrote
  <2>4. ~Wrote(m) /\ ~(Wrote(m))' BY <2>1, <2>2 DEF Wrote
  <2>5. Stage(m)' = "taken" /\ Stage(m) = "taken" BY <2>1, <2>2 DEF Stage
  <2> QED BY <2>3, <2>4, <2>5
<1>6. AnswersReal' BY <1>0, <1>2, <1>5 DEF AnswersReal, ShellInv
<1>7. OneHandler'
  <2>1. loaded = Handler(loaded) BY DEF Handler
  <2> QED BY <1>0, <1>1, <1>2, <1>3, <2>1, OneKept DEF ShellInv
<1>8. (overlap \/ Undisturbed)'
  <2> SUFFICES ASSUME ~overlap PROVE Undisturbed' BY <1>2
  <2>1. /\ w.saw = files /\ \A n \in Commands : n # m => work'[n] = <<>>
    BY <1>1, <1>2, <1>3 DEF ReadsCurrent
  <2>2. (ReadsCurrent(m, work[m][1]))' BY <1>2, <1>4, <2>1 DEF ReadsCurrent, Loads
  <2>3. (cache = files \/ \E n \in Commands : Wrote(n))'
    BY <1>0, <1>2, <1>5 DEF ShellInv, Undisturbed
  <2> QED BY <2>1, <2>2, <2>3 DEF Undisturbed
<1>9. Tables' BY <1>0, <1>2, <1>3 DEF Tables, ShellInv
<1>10. SessionInv' BY <1>2, <1>6, <1>7, <1>8, <1>9, ShellKeeps DEF ShellInv
<1>11. UNCHANGED Phase
  <2>1. \A n \in Commands : n # m => Stage(n)' = Stage(n)
    <3>1. UNCHANGED here BY <1>2
    <3> QED BY <1>3, <3>1 DEF Stage
  <2> QED BY <1>5, <2>1, PhaseIs
<1> QED BY <1>2, <1>10, <1>11 DEF User!vars

(* What the file system and eval compute is what the console does. *)
LEMMA DirectoryAfter ==
    ASSUME NEW r, NEW f, r.kind \in {"write", "touch", "rm"},
           r.kind = "touch" => ~Exists(r, f)
    PROVE  NewDirectory(r, f) = User!After(r, f)
<1>1. CASE r.kind = "rm"
  BY <1>1 DEF NewDirectory, User!After, User!Without
<1>2. CASE r.kind = "write"
  <2>1. NewDirectory(r, f) =
          [n \in DOMAIN f \cup {r.name} |-> IF n = r.name THEN r.content ELSE f[n]]
    BY <1>2 DEF NewDirectory
  <2> QED BY <1>2, <2>1 DEF User!After, User!With
<1>3. CASE r.kind = "touch"
  <2>1. NewDirectory(r, f) =
          [n \in DOMAIN f \cup {r.name} |-> IF n = r.name THEN Empty ELSE f[n]]
    BY <1>3 DEF NewDirectory
  <2> QED BY <1>3, <2>1 DEF User!After, User!With, Exists
<1> QED BY <1>1, <1>2, <1>3

LEMMA NothingAfter ==
    ASSUME NEW r, NEW f, f = [n \in DOMAIN f |-> f[n]],
           \/ r.kind = "cat"
           \/ r.kind = "touch" /\ Exists(r, f)
           \/ r.kind = "rm" /\ ~Exists(r, f)
    PROVE  User!After(r, f) = f
<1>1. CASE r.kind = "rm" /\ ~Exists(r, f)
  <2>1. DOMAIN f \ {r.name} = DOMAIN f BY <1>1 DEF Exists
  <2> QED BY <1>1, <2>1 DEF User!After, User!Without
<1>2. CASE r.kind = "cat" BY <1>2 DEF User!After
<1>3. CASE r.kind = "touch" /\ Exists(r, f) BY <1>3 DEF User!After, Exists
<1> QED BY <1>1, <1>2, <1>3

LEMMA AnswerSays ==
    ASSUME NEW r, NEW w, NEW f, r.kind \in {"cat", "write", "touch", "rm"},
           r.kind # "rm" => w.saw = f, r.kind = "rm" => w.dir = f
    PROVE  Answer(r, w) = User!Says(r, f)
<1>1. CASE r.kind = "cat" BY <1>1 DEF Answer, User!Says, Exists
<1>2. CASE r.kind = "write" BY <1>2 DEF Answer, User!Says, Exists
<1>3. CASE r.kind = "touch" BY <1>3 DEF Answer, User!Says, Exists
<1>4. CASE r.kind = "rm" BY <1>4 DEF Answer, User!Says, Exists
<1> QED BY <1>1, <1>2, <1>3, <1>4

(* A handler that is done leaves the others as they are. *)
LEMMA StillUndisturbed ==
    ASSUME Undisturbed, NEW m \in Commands, work[m] # <<>>, work'[m] = <<>>,
           \A n \in Commands : n # m => work'[n] = work[n],
           cache' = files'
    PROVE  Undisturbed'
<1>1. \A n \in Commands : work'[n] = <<>> BY DEF Undisturbed
<1> QED BY <1>1 DEF Undisturbed

(* What a step of a handler that answers does to the console. *)
LEMMA Executes ==
    ASSUME SessionInv, NEW m \in Commands, m \in here, ~Wrote(m), work[m] # <<>>,
           NEW x, replies' = [replies EXCEPT ![m] = Append(@, x)],
           UNCHANGED <<request, seen, here, overlap>>,
           \A n \in Commands : n # m => work'[n] = work[n],
           work'[m] = <<>> \/ (Wrote(m))',
           ~overlap => /\ files' = User!After(request[m], files)
                       /\ x = User!Says(request[m], files)
    PROVE  User!Execute(m)
<1>1. Phase[m] = "taken" BY PhaseIs DEF Stage, Wrote
<1>2. \E p \in {"effect", "ended"} : Phase' = [Phase EXCEPT ![m] = p]
  <2>1. Stage(m)' \in {"effect", "ended"} BY DEF Stage, Wrote
  <2> QED BY <2>1, NewPhase
<1>3. \A n \in Commands :
         Len(replies'[n]) = IF n = m THEN Len(replies[n]) + 1 ELSE Len(replies[n])
  BY Replied DEF SessionInv, ShellInv
<1> QED BY <1>1, <1>2, <1>3 DEF User!Execute, User!Commands, Commands

(* The new directory is on the disk: this is the instant at which the       *)
(* command takes effect.                                                    *)
LEMMA WriteKeeps ==
    ASSUME SessionInv, NEW m \in Commands, NEW i \in DOMAIN work[m], WriteSuper(m, i)
    PROVE  SessionInv' /\ User!Execute(m)
<1> DEFINE w == work[m][1]
           r == request[m]
           wrote == [st |-> "wrote", saw |-> w.saw, dir |-> files']
<1>0. ShellInv BY DEF SessionInv
<1>1. /\ i = 1 /\ work[m] # <<>> /\ work[m] = <<Handler(w)>> /\ w = Handler(w) /\ m \in here
      /\ overlap \/ (ReadsCurrent(m, w) /\ \A n \in Commands : n # m => work[n] = <<>>)
      /\ r.kind \in {"cat", "write", "touch", "rm"}
  BY TheHandler
<1>2. UNCHANGED <<vars, cache, answered, request, seen, here, overlap>>
  BY DEF WriteSuper, user, era
<1>3. /\ w.st = "loaded" /\ (r.kind = "rm" => Exists(r, w.dir))
      /\ files' = NewDirectory(r, w.dir)
      /\ work' = [work EXCEPT ![m][1].st = "wrote", ![m][1].dir = files']
      /\ replies' = [replies EXCEPT ![m] = Append(@, Answer(r, w))]
  BY <1>1 DEF WriteSuper
<1>4. ~overlap => /\ files' = User!After(r, files) /\ Answer(r, w) = User!Says(r, files)
                  /\ \A n \in Commands : n # m => work[n] = <<>>
  <2> SUFFICES ASSUME ~overlap
               PROVE  /\ files' = User!After(r, files) /\ Answer(r, w) = User!Says(r, files)
                      /\ \A n \in Commands : n # m => work[n] = <<>>
    OBVIOUS
  <2>1. w.saw = files /\ w.dir = files /\ Loads(r, w) BY <1>1, <1>3 DEF ReadsCurrent
  <2>2. r.kind \in {"write", "touch", "rm"} /\ (r.kind = "touch" => ~Exists(r, files))
    BY <1>1, <2>1 DEF Loads
  <2>3. files' = User!After(r, files) BY <1>3, <2>1, <2>2, DirectoryAfter
  <2>4. Answer(r, w) = User!Says(r, files) BY <1>1, <2>1, AnswerSays
  <2> QED BY <1>1, <2>3, <2>4
<1>5. /\ work'[m] = <<wrote>> /\ \A n \in Commands : n # m => work'[n] = work[n]
      /\ work' = [n \in Commands |-> work'[n]]
  <2>1. work'[m] = [work[m] EXCEPT ![1] = [w EXCEPT !.st = "wrote", !.dir = files']]
    BY <1>0, <1>3 DEF ShellInv, Tables
  <2>2. [w EXCEPT !.st = "wrote", !.dir = files'] = wrote BY <1>1, HandlerGoesOn
  <2>3. /\ \A n \in Commands : n # m => work'[n] = work[n]
        /\ work' = [n \in Commands |-> work'[n]]
    BY <1>0, <1>3 DEF ShellInv, Tables
  <2> QED BY <1>1, <2>1, <2>2, <2>3, Single
<1>6. work'[m] # <<>> /\ work'[m][1] = wrote BY <1>5, Single
<1>7. (Wrote(m))' /\ ~Wrote(m) /\ \A n \in Commands : n # m => ((Wrote(n))' <=> Wrote(n))
  <2>1. work'[m] # <<>> /\ work'[m][1].st = "wrote" /\ work[m][1].st = "loaded"
    BY <1>3, <1>6
  <2>2. \A n \in Commands : n # m => ((Wrote(n))' <=> Wrote(n)) BY <1>5 DEF Wrote
  <2> QED BY <2>1, <2>2 DEF Wrote
<1>8. /\ Len(replies[m]) \in Nat /\ Len(replies'[m]) = Len(replies[m]) + 1
      /\ \A n \in Commands : n # m => replies'[n] = replies[n]
      /\ replies' = [n \in Commands |-> replies'[n]]
      /\ \A n \in Commands : \E S : replies'[n] \in Seq(S)
  BY <1>0, <1>3, Replied DEF ShellInv
<1>9. AnswersReal'
  <2>1. answered \subseteq Commands BY <1>0 DEF AnswersReal, ShellInv
  <2>2. m \in answered => Len(replies[m]) >= 1 BY <1>0 DEF AnswersReal, ShellInv
  <2>3. Len(replies'[m]) >= 1 /\ (m \in answered => Len(replies'[m]) >= 2) BY <1>8, <2>2
  <2> QED BY <1>0, <1>2, <1>7, <1>8, <2>1, <2>3 DEF AnswersReal, ShellInv
<1>10. OneHandler'
  <2>1. wrote = Handler(wrote) BY DEF Handler
  <2> QED BY <1>0, <1>1, <1>2, <1>5, <2>1, OneKept DEF ShellInv
<1>11. (overlap \/ Undisturbed)'
  <2> SUFFICES ASSUME ~overlap PROVE Undisturbed' BY <1>2
  <2>1. \A n \in Commands : n # m => work'[n] = <<>> BY <1>4, <1>5
  <2>2. (ReadsCurrent(m, work[m][1]))' BY <1>6 DEF ReadsCurrent
  <2> QED BY <1>7, <2>1, <2>2 DEF Undisturbed
<1>12. Tables'
  <2>1. files' = [n \in DOMAIN files' |-> files'[n]] BY <1>3 DEF NewDirectory
  <2> QED BY <1>0, <1>2, <1>5, <1>8, <2>1 DEF Tables, ShellInv
<1>13. SessionInv' BY <1>2, <1>9, <1>10, <1>11, <1>12, ShellKeeps DEF ShellInv
<1>14. User!Execute(m)
  BY <1>1, <1>2, <1>3, <1>4, <1>5, <1>7, Executes
<1> QED BY <1>13, <1>14

LEMMA PublishKeeps ==
    ASSUME SessionInv, NEW m \in Commands, NEW i \in DOMAIN work[m], Publish(m, i)
    PROVE  SessionInv' /\ User!End(m)
<1> DEFINE w == work[m][1]
<1>0. ShellInv BY DEF SessionInv
<1>1. /\ i = 1 /\ work[m] # <<>> /\ work[m] = <<Handler(w)>> /\ m \in here
      /\ overlap \/ (ReadsCurrent(m, w) /\ \A n \in Commands : n # m => work[n] = <<>>)
  BY TheHandler
<1>2. UNCHANGED <<vars, files, replies, request, seen, here, overlap>>
  BY DEF Publish, user, era
<1>3. /\ w.st = "wrote" /\ cache' = w.dir
      /\ work' = [work EXCEPT ![m] = SequenceOps!RemoveAt(@, 1)]
      /\ answered' = answered \cup {m}
  BY <1>1 DEF Publish
<1>4. /\ work'[m] = <<>> /\ \A n \in Commands : n # m => work'[n] = work[n]
      /\ work' = [n \in Commands |-> work'[n]]
  <2>1. SequenceOps!RemoveAt(work[m], 1) = <<>> BY <1>1, Single
  <2> QED BY <1>0, <1>3, <2>1 DEF ShellInv, Tables
<1>5. Wrote(m) /\ ~(Wrote(m))' /\ \A n \in Commands : n # m => ((Wrote(n))' <=> Wrote(n))
  BY <1>1, <1>3, <1>4 DEF Wrote
<1>6. AnswersReal'
  BY <1>0, <1>2, <1>3, <1>5 DEF AnswersReal, ShellInv
<1>7. OneHandler' BY <1>0, <1>1, <1>2, <1>4, OneKept DEF ShellInv
<1>8. (overlap \/ Undisturbed)'
  <2> SUFFICES ASSUME ~overlap PROVE Undisturbed' BY <1>2
  <2>1. cache' = files' BY <1>1, <1>2, <1>3 DEF ReadsCurrent
  <2> QED BY <1>0, <1>1, <1>4, <2>1, StillUndisturbed DEF ShellInv
<1>9. Tables' BY <1>0, <1>2, <1>4 DEF Tables, ShellInv
<1>10. SessionInv' BY <1>2, <1>6, <1>7, <1>8, <1>9, ShellKeeps DEF ShellInv
<1>11. User!End(m)
  <2>1. Phase[m] = "effect" BY <1>1, <1>3, PhaseIs DEF Stage
  <2>2. Stage(m)' = "ended" BY <1>1, <1>2, <1>4 DEF Stage
  <2>3. Phase' = [Phase EXCEPT ![m] = "ended"] BY <1>2, <1>4, <2>2, NewPhase
  <2> QED BY <1>2, <2>1, <2>3 DEF User!End
<1> QED BY <1>10, <1>11

(* A command that has nothing to write takes effect when it is answered. *)
LEMMA ReplyKeeps ==
    ASSUME SessionInv, NEW m \in Commands, NEW i \in DOMAIN work[m], Reply(m, i)
    PROVE  SessionInv' /\ User!Execute(m)
<1> DEFINE w == work[m][1]
           r == request[m]
<1>0. ShellInv BY DEF SessionInv
<1>1. /\ i = 1 /\ work[m] # <<>> /\ work[m] = <<Handler(w)>> /\ m \in here
      /\ overlap \/ (ReadsCurrent(m, w) /\ \A n \in Commands : n # m => work[n] = <<>>)
      /\ r.kind \in {"cat", "write", "touch", "rm"}
  BY TheHandler
<1>2. UNCHANGED <<vars, files, cache, request, seen, here, overlap>>
  BY DEF Reply, user, era
<1>3. /\ \/ w.st = "new" /\ ~Loads(r, w)
         \/ w.st = "loaded" /\ r.kind = "rm" /\ ~Exists(r, w.dir)
      /\ replies' = [replies EXCEPT ![m] = Append(@, Answer(r, w))]
      /\ work' = [work EXCEPT ![m] = SequenceOps!RemoveAt(@, 1)]
      /\ answered' = answered \cup {m}
  BY <1>1 DEF Reply
<1>4. ~overlap => files' = User!After(r, files) /\ Answer(r, w) = User!Says(r, files)
  <2> SUFFICES ASSUME ~overlap
               PROVE  files' = User!After(r, files) /\ Answer(r, w) = User!Says(r, files)
    OBVIOUS
  <2>1. /\ w.saw = files /\ (r.kind = "rm" => w.dir = files)
        /\ \/ r.kind = "cat"
           \/ r.kind = "touch" /\ Exists(r, files)
           \/ r.kind = "rm" /\ ~Exists(r, files)
    BY <1>1, <1>3 DEF ReadsCurrent, Loads
  <2>2. files = User!After(r, files)
    BY <1>0, <2>1, NothingAfter DEF ShellInv, Tables
  <2>3. Answer(r, w) = User!Says(r, files) BY <1>1, <2>1, AnswerSays
  <2> QED BY <1>2, <2>2, <2>3
<1>5. /\ work'[m] = <<>> /\ \A n \in Commands : n # m => work'[n] = work[n]
      /\ work' = [n \in Commands |-> work'[n]]
  <2>1. SequenceOps!RemoveAt(work[m], 1) = <<>> BY <1>1, Single
  <2> QED BY <1>0, <1>3, <2>1 DEF ShellInv, Tables
<1>6. ~Wrote(m) /\ ~(Wrote(m))' /\ \A n \in Commands : n # m => ((Wrote(n))' <=> Wrote(n))
  BY <1>3, <1>5 DEF Wrote
<1>7. /\ Len(replies[m]) \in Nat /\ Len(replies'[m]) = Len(replies[m]) + 1
      /\ \A n \in Commands : n # m => replies'[n] = replies[n]
      /\ replies' = [n \in Commands |-> replies'[n]]
      /\ \A n \in Commands : \E S : replies'[n] \in Seq(S)
  BY <1>0, <1>3, Replied DEF ShellInv
<1>8. AnswersReal'
  <2>1. Len(replies'[m]) >= 1 BY <1>7
  <2> QED BY <1>0, <1>2, <1>3, <1>6, <1>7, <2>1 DEF AnswersReal, ShellInv
<1>9. OneHandler' BY <1>0, <1>1, <1>2, <1>5, OneKept DEF ShellInv
<1>10. (overlap \/ Undisturbed)'
  <2> SUFFICES ASSUME ~overlap PROVE Undisturbed' BY <1>2
  <2>1. Undisturbed BY <1>0 DEF ShellInv
  <2>2. cache' = files' BY <1>2, <1>1, <1>6, <2>1 DEF Undisturbed, Wrote
  <2> QED BY <1>1, <1>5, <2>1, <2>2, StillUndisturbed
<1>11. Tables' BY <1>0, <1>2, <1>5, <1>7 DEF Tables, ShellInv
<1>12. SessionInv' BY <1>2, <1>8, <1>9, <1>10, <1>11, ShellKeeps DEF ShellInv
<1>13. User!Execute(m) BY <1>1, <1>2, <1>3, <1>4, <1>5, <1>6, Executes
<1> QED BY <1>12, <1>13

-------------------------------------------------------------------------------
(* The user, the network and the restart. *)

(* When no handler starts or moves the shell does not notice. *)
LEMMA ShellUnmoved ==
    ASSUME ShellInv, UNCHANGED <<files, cache, work, replies, answered, here, overlap>>,
           seen' \subseteq answered,
           \A m \in Commands : work[m] # <<>> => request'[m] = request[m],
           request' = [m \in Commands |-> request'[m]]
    PROVE  ShellInv'
<1>1. \A m \in Commands : (Wrote(m))' <=> Wrote(m) BY DEF Wrote
<1>2. AnswersReal' BY <1>1 DEF ShellInv, AnswersReal
<1>3. OneHandler' BY DEF ShellInv, OneHandler, Handler
<1>4. (overlap \/ Undisturbed)'
  <2> SUFFICES ASSUME Undisturbed PROVE Undisturbed' BY DEF ShellInv
  <2>1. (cache = files \/ \E m \in Commands : Wrote(m))' BY <1>1 DEF Undisturbed
  <2>2. ASSUME NEW m \in Commands, work'[m] # <<>>
        PROVE  (ReadsCurrent(m, work[m][1]))' /\ \A n \in Commands : n # m => work'[n] = <<>>
    <3>1. /\ ReadsCurrent(m, work[m][1]) /\ request'[m] = request[m]
          /\ \A n \in Commands : n # m => work[n] = <<>>
      BY <2>2 DEF Undisturbed
    <3> QED BY <3>1 DEF ReadsCurrent
  <2> QED BY <2>1, <2>2 DEF Undisturbed
<1>5. Tables' BY DEF ShellInv, Tables
<1> QED BY <1>2, <1>3, <1>4, <1>5 DEF ShellInv

LEMMA ShowKeeps ==
    ASSUME SessionInv, NEW m \in Commands, Show(m)
    PROVE  SessionInv' /\ User!See(m)
<1>1. /\ UNCHANGED <<vars, files, cache, work, replies, answered, request, here, overlap>>
      /\ m \in answered /\ seen' = seen \cup {m}
  BY DEF Show, shell, era
<1>2. replies[m] # <<>>
  <2>1. Len(replies[m]) >= 1 BY <1>1 DEF SessionInv, ShellInv, AnswersReal
  <2> QED BY <2>1
<1>3. ShellInv'
  <2>1. seen' \subseteq answered BY <1>1 DEF SessionInv, ShellInv, AnswersReal
  <2>2. request' = [n \in Commands |-> request'[n]]
    BY <1>1 DEF SessionInv, ShellInv, Tables
  <2> QED BY <1>1, <2>1, <2>2, ShellUnmoved DEF SessionInv
<1>4. SessionInv' BY <1>1, <1>3, ShellKeeps
<1>5. UNCHANGED Phase BY <1>1, SamePhase
<1> QED BY <1>1, <1>2, <1>4, <1>5 DEF User!See

LEMMA TypeKeeps ==
    ASSUME SessionInv, NEW i \in 1 .. Len(Script), NEW r \in Menu[i], Type(i, r)
    PROVE  SessionInv' /\ User!Type(i, r)
<1> DEFINE m == Script[i]
<1>1. /\ m \in Commands /\ m \in Msgs
      /\ \A j \in 1 .. (i - 1) : Script[j] \in seen
      /\ PacedSend(m) /\ request' = [request EXCEPT ![m] = r]
      /\ UNCHANGED <<files, cache, work, replies, answered, seen, here, overlap>>
  BY CommandsKnown DEF Type, shell, era
<1>2. send[m].st = "new" /\ send'[m].st = "write" /\ \A n \in Msgs : n # m => send'[n] = send[n]
  BY <1>1 DEF PacedSend, Send, SessionInv, TypeOK, SendState
<1>3. ~Typed(m) BY <1>1, <1>2 DEF SessionInv, TypedInOrder
<1>4. r # NotTyped
  <2>1. r.kind \in {"cat", "write", "touch", "rm"} BY SessionAssumption
  <2> QED BY <2>1 DEF NotTyped
<1>5. request'[m] = r /\ \A n \in Commands : n # m => request'[n] = request[n]
  BY <1>1 DEF SessionInv, ShellInv, Tables
<1>6. TypedInOrder'
  <2>1. ASSUME NEW n \in Commands PROVE (Typed(n))' <=> send'[n].st # "new"
    <3>1. CASE n = m BY <1>2, <1>4, <1>5, <3>1 DEF Typed
    <3>2. CASE n # m
      BY <1>2, <1>5, <3>2, CommandsKnown DEF SessionInv, TypedInOrder, Typed
    <3> QED BY <3>1, <3>2
  <2>2. ASSUME NEW n \in Commands, (Typed(n))'
        PROVE  \E k \in 1 .. Len(Script) : /\ Script[k] = n /\ request'[n] \in Menu[k]
                                           /\ \A j \in 1 .. (k - 1) : Script[j] \in seen'
    <3>1. CASE n = m BY <1>1, <1>5, <3>1
    <3>2. CASE n # m
      <4>1. Typed(n) /\ request'[n] = request[n] BY <1>5, <2>2, <3>2 DEF Typed
      <4> QED BY <1>1, <4>1 DEF SessionInv, TypedInOrder
    <3> QED BY <3>1, <3>2
  <2> QED BY <2>1, <2>2 DEF TypedInOrder
<1>7. TypeOK' /\ WaiterInv' /\ NamedInv' /\ \A n \in Msgs : Kept(n) => Kept(n)'
  <2>1. [Live]_vars BY <1>1 DEF Live
  <2> QED BY <2>1, TransportStep DEF SessionInv
<1>8. HereKept'
  <2>1. UNCHANGED here BY <1>1
  <2> QED BY <1>7, <2>1, HereTyped DEF SessionInv, HereKept
<1>9. work[m] = <<>>
  <2>1. m \notin here BY <1>3, HereTyped DEF SessionInv
  <2> QED BY <1>1, <2>1 DEF SessionInv, ShellInv, OneHandler
<1>10. ShellInv'
  <2>1. seen' \subseteq answered BY <1>1 DEF SessionInv, ShellInv, AnswersReal
  <2>2. request' = [n \in Commands |-> request'[n]]
    BY <1>1 DEF SessionInv, ShellInv, Tables
  <2>3. \A n \in Commands : work[n] # <<>> => request'[n] = request[n] BY <1>5, <1>9
  <2> QED BY <1>1, <2>1, <2>2, <2>3, ShellUnmoved DEF SessionInv
<1>11. SessionInv' BY <1>6, <1>7, <1>8, <1>10 DEF SessionInv
<1>12. User!Type(i, r)
  <2>1. request[m] = User!NotTyped BY <1>3 DEF Typed, NotTyped, User!NotTyped
  <2>2. UNCHANGED Phase BY <1>1, SamePhase
  <2> QED BY <1>1, <2>1, <2>2 DEF User!Type
<1> QED BY <1>11, <1>12

LEMMA TransportKeeps ==
    ASSUME SessionInv, UNCHANGED <<files, cache, work, replies, answered, request, seen, here, overlap>>,
           \/ Tick
           \/ \E m \in Msgs : Progress(m)
           \/ \E p \in net : ReceiveAck(p) \/ ReceiveData(p) \/ Lose(p)
    PROVE  SessionInv' /\ UNCHANGED (User!vars)
<1>1. TypeOK' /\ WaiterInv' /\ NamedInv' /\ \A n \in Msgs : Kept(n) => Kept(n)'
  <2>1. [Live]_vars BY DEF Live, Network
  <2> QED BY <2>1, TransportStep DEF SessionInv
<1>2. \A n \in Msgs : send'[n].st = "new" <=> send[n].st = "new"
  BY Begun DEF SessionInv
<1>3. TypedInOrder' BY <1>2, OrderKept DEF SessionInv
<1>4. ShellInv'
  <2>1. seen' \subseteq answered BY DEF SessionInv, ShellInv, AnswersReal
  <2>2. request' = [n \in Commands |-> request'[n]] BY DEF SessionInv, ShellInv, Tables
  <2> QED BY <2>1, <2>2, ShellUnmoved DEF SessionInv
<1>5. HereKept' BY <1>1, HereTyped DEF SessionInv, HereKept
<1>6. UNCHANGED Phase BY SamePhase
<1> QED BY <1>1, <1>3, <1>4, <1>5, <1>6 DEF SessionInv, User!vars

-------------------------------------------------------------------------------
(* A command is given to the callback. *)

(* The commands that are under way when m is given. *)
Others(m) == {n \in Commands : n # m /\ work[n] # <<>>}

LEMMA TheyMeet ==
    ASSUME NEW m \in Commands
    PROVE  User!Meets(m) = Others(m)
<1>1. \A n \in Commands : User!UnderWay(n) <=> work[n] # <<>>
  BY PhaseIs DEF User!UnderWay, Stage
<1> QED BY <1>1 DEF User!Meets, Others, User!Commands, Commands

(* If a command that was given meets another, one of the two was answered,  *)
(* so an earlier life of the kernel had executed it.                        *)
LEMMA MetBefore ==
    ASSUME HereKept, TypedInOrder, ShellInv,
           NEW m \in Commands, Typed(m), work[m] = <<>>, m \notin here,
           NEW n \in Others(m)
    PROVE  User!Before(m) \/ User!Before(n)
<1>1. n \in Commands /\ n # m /\ work[n] # <<>> BY DEF Others
<1>2. n \in here BY <1>1 DEF ShellInv, OneHandler
<1>3. Typed(n) BY <1>2, HereTyped
<1>4. m \in answered \/ n \in answered
  <2>1. m \in seen \/ n \in seen BY <1>1, <1>3, Alone
  <2> QED BY <2>1 DEF ShellInv, AnswersReal
<1>5. Phase[m] = "none" BY PhaseIs DEF Stage
<1>6. Phase[n] = IF Wrote(n) THEN "effect" ELSE "taken" BY <1>1, PhaseIs DEF Stage, Wrote
<1>7. CASE m \in answered
  <2>1. Len(replies[m]) >= 1 BY <1>7 DEF ShellInv, AnswersReal
  <2>2. Len(replies[m]) > 0 BY <2>1, Counted DEF ShellInv
  <2> QED BY <1>5, <2>2 DEF User!Before
<1>8. CASE n \in answered
  <2>1. Len(replies[n]) >= 1 /\ (Wrote(n) => Len(replies[n]) >= 2)
    BY <1>8 DEF ShellInv, AnswersReal
  <2>2. Len(replies[n]) > IF Wrote(n) THEN 1 ELSE 0 BY <1>1, <2>1, Counted DEF ShellInv
  <2> QED BY <1>6, <2>2 DEF User!Before
<1> QED BY <1>4, <1>7, <1>8

(* Its handler reads the cache, which is what is on the disk while no       *)
(* commands met.                                                            *)
LEMMA StartKeeps ==
    ASSUME HereKept, TypedInOrder, ShellInv,
           UNCHANGED <<files, cache, replies, answered, request, seen>>,
           NEW m \in Commands, Typed(m), m \notin here,
           work'[m] = Append(work[m], Fresh),
           \A n \in Commands : n # m => work'[n] = work[n],
           work' = [n \in Commands |-> work'[n]],
           here' = here \cup {m}, overlap' = (overlap \/ Others(m) # {})
    PROVE  ShellInv' /\ User!Take(m)
<1>1. work[m] = <<>> BY DEF ShellInv, OneHandler
<1>2. /\ work'[m] = <<Fresh>> /\ work'[m] # <<>> /\ work'[m][1] = Fresh
      /\ Handler(Fresh) = Fresh
  <2>1. work'[m] = <<Fresh>> BY <1>1, Single
  <2>2. Handler(Fresh) = Fresh BY DEF Handler, Fresh
  <2> QED BY <2>1, <2>2, Single
<1>3. ~(Wrote(m))' /\ ~Wrote(m) /\ \A n \in Commands : n # m => ((Wrote(n))' <=> Wrote(n))
  <2>1. work'[m][1].st = "new" BY <1>2 DEF Fresh
  <2> QED BY <1>1, <2>1 DEF Wrote
<1>4. AnswersReal' BY <1>3 DEF ShellInv, AnswersReal
<1>5. OneHandler'
  <2>1. ASSUME NEW n \in Commands, n # m
        PROVE  (work[n] = <<>> \/ (work[n] = <<Handler(work[n][1])>> /\ n \in here))'
    BY <2>1 DEF ShellInv, OneHandler, Handler
  <2>2. (work[m] = <<Handler(work[m][1])>> /\ m \in here)'
    BY <1>2
  <2> QED BY <2>1, <2>2 DEF OneHandler
<1>6. (overlap \/ Undisturbed)'
  <2> SUFFICES ASSUME ~overlap, Others(m) = {} PROVE Undisturbed' OBVIOUS
  <2>1. \A n \in Commands : work[n] = <<>> BY <1>1 DEF Others
  <2>2. cache = files BY <2>1 DEF ShellInv, Undisturbed, Wrote
  <2>3. (ReadsCurrent(m, work[m][1]))' BY <1>2, <2>2 DEF ReadsCurrent, Fresh
  <2>4. \A n \in Commands : n # m => work'[n] = <<>> BY <2>1
  <2> QED BY <2>2, <2>3, <2>4 DEF Undisturbed
<1>7. Tables' BY DEF ShellInv, Tables
<1>8. User!Take(m)
  <2>1. request[m] # User!NotTyped BY DEF Typed, NotTyped, User!NotTyped
  <2>2. Phase[m] = "none" BY <1>1, PhaseIs DEF Stage
  <2>3. \A n \in User!Meets(m) : User!Before(m) \/ User!Before(n)
    BY <1>1, TheyMeet, MetBefore
  <2>4. Phase' = [Phase EXCEPT ![m] = "taken"]
    <3>1. Stage(m)' = "taken" BY <1>2, <1>3 DEF Stage, Wrote
    <3>2. \A n \in Commands : n # m => Stage(n)' = Stage(n) BY DEF Stage
    <3> QED BY <3>1, <3>2, PhaseIs
  <2>5. overlap' = (overlap \/ User!Meets(m) # {}) BY TheyMeet
  <2> QED BY <2>1, <2>2, <2>3, <2>4, <2>5 DEF User!Take
<1> QED BY <1>4, <1>5, <1>6, <1>7, <1>8 DEF ShellInv

LEMMA ReceiveKeeps ==
    ASSUME MaxRetries + Lifetime <= Window, SessionInv, NEW p \in net, Receive(p)
    PROVE  SessionInv' /\ (UNCHANGED (User!vars) \/ \E m \in Commands : User!Take(m))
<1> DEFINE new == {m \in Commands : got'[m] > got[m]}
<1>1. /\ UNCHANGED <<files, cache, replies, answered, request, seen>>
      /\ ReceiveAck(p) \/ ReceiveData(p) \/ Lose(p)
      /\ work' = [m \in Commands |-> IF m \in new THEN Append(work[m], Fresh) ELSE work[m]]
      /\ here' = here \cup new
      /\ overlap' = (overlap \/ \E m \in new, n \in Commands : n # m /\ work[n] # <<>>)
  BY DEF Receive, user
<1>2. CASE new = {}
  <2>1. work' = work BY <1>1, <1>2 DEF SessionInv, ShellInv, Tables
  <2>2. here' = here BY <1>1, <1>2
  <2>3. overlap' = overlap
    <3>1. overlap \in BOOLEAN BY DEF SessionInv, ShellInv, Tables
    <3> QED BY <1>1, <1>2, <3>1
  <2> QED BY <1>1, <2>1, <2>2, <2>3, TransportKeeps
<1>3. ASSUME NEW m \in new PROVE SessionInv' /\ User!Take(m)
  <2>1. TypeOK' /\ WaiterInv' /\ NamedInv' /\ \A n \in Msgs : Kept(n) => Kept(n)'
    <3>1. [Live]_vars BY <1>1 DEF Live, Network
    <3> QED BY <3>1, TransportStep DEF SessionInv
  <2>2. \A n \in Msgs : send'[n].st = "new" <=> send[n].st = "new"
    BY <1>1, Begun DEF SessionInv
  <2>3. TypedInOrder' BY <1>1, <2>2, OrderKept DEF SessionInv
  <2>4. /\ m \in Commands /\ m \notin here /\ send[m].st # "new" /\ Kept(m)' /\ new = {m}
    <3>1. m \in Commands /\ got'[m] > got[m] OBVIOUS
    <3>2. /\ m \notin here /\ send[m].st # "new" /\ Kept(m)'
          /\ \A n \in Commands : got'[n] > got[n] => n = m
      BY <1>1, <2>1, <3>1, GivenOnce DEF SessionInv
    <3> QED BY <3>1, <3>2
  <2>5. Typed(m) BY <2>4 DEF SessionInv, TypedInOrder
  <2>6. /\ work'[m] = Append(work[m], Fresh)
        /\ \A n \in Commands : n # m => work'[n] = work[n]
        /\ work' = [n \in Commands |-> work'[n]]
    BY <1>1, <2>4
  <2>7. overlap' = (overlap \/ Others(m) # {}) BY <1>1, <2>4 DEF Others
  <2>8. ShellInv' /\ User!Take(m)
    BY <1>1, <2>4, <2>5, <2>6, <2>7, StartKeeps DEF SessionInv
  <2>9. HereKept' BY <1>1, <2>1, <2>4, HereTyped DEF SessionInv, HereKept
  <2> QED BY <2>1, <2>3, <2>8, <2>9 DEF SessionInv
<1> QED BY <1>2, <1>3

(* The restart forgets the handlers and the commands that were taken. *)
LEMMA RebootKeeps ==
    ASSUME SessionInv, Reboot
    PROVE  SessionInv' /\ User!Restart
<1>1. /\ UNCHANGED <<files, replies, answered, request, seen, net>>
      /\ Restart(Kernel) /\ Kernel \in Hosts
      /\ work' = [m \in Commands |-> <<>>] /\ cache' = files
      /\ here' = {} /\ overlap' = FALSE
  BY CommandsKnown DEF Reboot, user, Restart
<1>2. TypeOK /\ WaiterInv /\ NamedInv /\ [PacedNext]_vars
  BY <1>1 DEF SessionInv, PacedNext, Steps
<1>3. TypeOK' /\ WaiterInv' BY <1>2, TypeOKNext, PacedIsNext, WaiterNext
<1>4. ASSUME NEW n \in Msgs
      PROVE  /\ send'[n].seq = send[n].seq
             /\ send'[n].st = "new" <=> send[n].st = "new"
             /\ (Open(n))' => Open(n)
  <2>1. /\ send'[n].seq = send[n].seq
        /\ send'[n] = send[n] \/ (send'[n].st = "failed" /\ Open(n))
    BY <1>1, <1>2, Restarted
  <2> QED BY <2>1 DEF Open
<1>5. NamedInv' BY <1>1, <1>2, <1>4, NamedQuiet
<1>6. TypedInOrder' BY <1>1, <1>4, OrderKept DEF SessionInv
<1>7. HereKept' BY <1>1 DEF HereKept
<1>8. ShellInv'
  <2>1. \A m \in Commands : ~(Wrote(m))' BY <1>1 DEF Wrote
  <2>2. AnswersReal' BY <1>1, <2>1 DEF AnswersReal, SessionInv, ShellInv
  <2>3. OneHandler' BY <1>1 DEF OneHandler
  <2>4. Undisturbed' BY <1>1 DEF Undisturbed
  <2>5. Tables' BY <1>1 DEF Tables, SessionInv, ShellInv
  <2> QED BY <2>2, <2>3, <2>4, <2>5 DEF ShellInv
<1>9. Phase' = [m \in Commands |-> "none"]
  <2>1. \A m \in Commands : Stage(m)' = "none" BY <1>1 DEF Stage
  <2> QED BY <2>1, PhaseIs
<1>10. User!Restart BY <1>1, <1>9 DEF User!Restart, User!Commands, Commands
<1> QED BY <1>3, <1>5, <1>6, <1>7, <1>8, <1>10 DEF SessionInv

-------------------------------------------------------------------------------
(* The theorem. *)

LEMMA SessionStart == SessionInit => SessionInv /\ User!Init
<1> SUFFICES ASSUME SessionInit PROVE SessionInv /\ User!Init OBVIOUS
<1>1. TypeOK /\ WaiterInv BY TypeOKInit, WaiterInit, WaiterInvOf DEF SessionInit
<1>2. net = {} /\ \A m \in Msgs : send[m].st = "new" BY DEF SessionInit, Init
<1>3. \A m \in Commands : work[m] = <<>> /\ replies[m] = <<>> /\ request[m] = NotTyped
  BY DEF SessionInit
<1>4. NamedInv BY <1>2 DEF NamedInv, PacketsNamed, OwnPackets
<1>5. HereKept BY DEF HereKept, SessionInit
<1>6. TypedInOrder BY <1>2, <1>3, CommandsKnown DEF TypedInOrder, Typed
<1>7. AnswersReal /\ Undisturbed BY <1>3 DEF SessionInit, AnswersReal, Undisturbed, Wrote
<1>8. OneHandler BY <1>3 DEF OneHandler
<1>9. Tables
  <2>1. <<>> \in Seq({}) OBVIOUS
  <2>2. \A m \in Commands : \E S : replies[m] \in Seq(S)
    <3> TAKE m \in Commands
    <3> WITNESS {}
    <3> QED BY <1>3, <2>1
  <2> QED BY <2>2 DEF SessionInit, Tables
<1>10. Phase = [m \in Commands |-> "none"]
  <2>1. \A m \in Commands : Stage(m) = "none" BY <1>3 DEF SessionInit, Stage
  <2> QED BY <2>1, PhaseIs
<1>11. User!Init
  BY <1>10 DEF SessionInit, User!Init, User!Commands, Commands, NotTyped, User!NotTyped
<1> QED BY <1>1, <1>4, <1>5, <1>6, <1>7, <1>8, <1>9, <1>11 DEF SessionInv, ShellInv

LEMMA SessionStep ==
    ASSUME MaxRetries + Lifetime <= Window, SessionInv, [SessionNext]_everything
    PROVE  SessionInv' /\ [User!Next]_(User!vars)
<1>1. ASSUME NEW i \in 1 .. Len(Script), NEW r \in Menu[i], Type(i, r)
      PROVE  SessionInv' /\ User!Next
  BY <1>1, TypeKeeps DEF User!Next
<1>2. ASSUME NEW p \in net, Receive(p) PROVE SessionInv' /\ [User!Next]_(User!vars)
  BY <1>2, ReceiveKeeps DEF User!Next, User!Commands, Commands
<1>3. ASSUME NEW m \in Commands, NEW i \in DOMAIN work[m],
             Load(m, i) \/ WriteSuper(m, i) \/ Publish(m, i) \/ Reply(m, i)
      PROVE  SessionInv' /\ [User!Next]_(User!vars)
  <2>1. CASE Load(m, i) BY <2>1, LoadKeeps
  <2>2. CASE WriteSuper(m, i) BY <2>2, WriteKeeps DEF User!Next, User!Commands, Commands
  <2>3. CASE Publish(m, i) BY <2>3, PublishKeeps DEF User!Next, User!Commands, Commands
  <2>4. CASE Reply(m, i) BY <2>4, ReplyKeeps DEF User!Next, User!Commands, Commands
  <2> QED BY <1>3, <2>1, <2>2, <2>3, <2>4
<1>4. ASSUME NEW m \in Commands, Show(m) PROVE SessionInv' /\ User!Next
  BY <1>4, ShowKeeps DEF User!Next, User!Commands, Commands
<1>5. CASE Transport
  BY <1>5, TransportKeeps DEF Transport, shell, user, era
<1>6. CASE Reboot BY <1>6, RebootKeeps DEF User!Next
<1>7. CASE UNCHANGED everything
  <2>1. UNCHANGED <<vars, files, cache, work, replies, answered, request, seen, here, overlap>>
    BY <1>7 DEF everything, shell, user, era
  <2>2. ShellInv'
    <3>1. seen' \subseteq answered BY <2>1 DEF SessionInv, ShellInv, AnswersReal
    <3>2. request' = [n \in Commands |-> request'[n]]
      BY <2>1 DEF SessionInv, ShellInv, Tables
    <3> QED BY <2>1, <3>1, <3>2, ShellUnmoved DEF SessionInv
  <2>3. SessionInv' BY <2>1, <2>2, ShellKeeps
  <2>4. UNCHANGED Phase BY <2>1, SamePhase
  <2> QED BY <2>1, <2>3, <2>4 DEF User!vars
<1> QED BY <1>1, <1>2, <1>3, <1>4, <1>5, <1>6, <1>7 DEF SessionNext

(* When a packet dies, and the sender gives up, before the receiver forgets *)
(* the number, the session is a console: in one life of the kernel a        *)
(* command takes effect at most once, although packets come twice and late; *)
(* two commands meet only when one of them, executed before a restart, is   *)
(* given to the kernel again; and in a life in which none met each takes    *)
(* effect at one instant and is answered from the files of that instant,    *)
(* although handlers read the directory long before they write it.          *)
THEOREM ConsoleKept ==
    ASSUME MaxRetries + Lifetime <= Window
    PROVE  SessionSpec => ImplementsConsole
<1>1. SessionInit => SessionInv /\ User!Init BY SessionStart
<1>2. SessionInv /\ [SessionNext]_everything => SessionInv' /\ [User!Next]_(User!vars)
  BY SessionStep
<1> QED BY <1>1, <1>2, PTL DEF SessionSpec, ImplementsConsole, User!Spec
===============================================================================
