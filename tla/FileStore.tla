------------------------------- MODULE FileStore -------------------------------
(***************************************************************************)
(* What a caller of the NanoOS file system is promised: a map from names   *)
(* to contents on which every request takes effect at one instant between  *)
(* its call and its answer, a cat at its call.  A refused request has left *)
(* the files alone, and a crash can hide the answer of the request it      *)
(* interrupts but never undo one that was answered.  This is the meaning   *)
(* of the commands that nano_os/README.md lists and of the signature Fs.S, *)
(* with one exception: nothing is promised to a cat whose file is removed  *)
(* while it waits for the disk.                                            *)
(***************************************************************************)
CONSTANTS Clients, Requests, NoCall, Contents, Empty, Garbage

VARIABLES
    files,   \* the stored files: name -> content
    call,    \* the request a caller waits on, or NoCall
    answer,  \* the last answer a caller got, or NoAnswer
    shown    \* what a cat in progress may answer

vars == <<files, call, answer, shown>>

Reply(result, x) == [result |-> result, content |-> x]
NoAnswer == Reply("none", Garbage)
Refused(why) == Reply(why, Garbage)

Body(r) == IF r.kind = "touch" THEN Empty ELSE r.content

With(f, n, x) == [m \in DOMAIN f \cup {n} |-> IF m = n THEN x ELSE f[m]]
Without(f, n) == [m \in DOMAIN f \ {n} |-> f[m]]

Init ==
    /\ files = [n \in {} |-> Empty]
    /\ call = [c \in Clients |-> NoCall]
    /\ answer = [c \in Clients |-> NoAnswer]
    /\ shown = [c \in Clients |-> {}]

(* A cat in progress answers what its file held at the call; once the file  *)
(* was removed, its sectors may be those of any other file.                 *)
Anything == Contents \cup {Garbage}
Reading(r) == r # NoCall /\ r.kind = "cat"

Watch ==
    shown' = [c \in Clients |->
        IF ~Reading(call'[c]) THEN {}
        ELSE IF call'[c].name \notin DOMAIN files' THEN Anything
        ELSE IF ~Reading(call[c]) THEN {files'[call'[c].name]}
        ELSE shown[c]]

(* The change a request makes to the files when it succeeds. *)
Change(r) ==
    \/ r.kind \in {"write", "touch"} /\ files' = With(files, r.name, Body(r))
    \/ r.kind = "rm" /\ r.name \in DOMAIN files /\ files' = Without(files, r.name)

Tell(c, a) == answer' = [answer EXCEPT ![c] = a]

(* The answers of a request that changes nothing. *)
Observe(c, r) ==
    /\ UNCHANGED files
    /\ \/ r.kind \in {"cat", "rm"} /\ r.name \notin DOMAIN files /\ Tell(c, Refused("File_not_found"))
       \/ r.kind = "touch" /\ r.name \in DOMAIN files /\ Tell(c, Refused("File_exists"))
       \/ r.kind = "touch" /\ r.name \notin DOMAIN files /\ Tell(c, Refused("No_space"))
       \/ r.kind = "write" /\ Tell(c, Refused("No_space"))

Call(c, r) ==
    /\ call[c] = NoCall
    /\ r.kind = "cat" => r.name \in DOMAIN files
    /\ call' = [call EXCEPT ![c] = r]
    /\ Tell(c, NoAnswer)
    /\ UNCHANGED files

(* The instant of a request, which may also be that of its call. *)
Serve(c, r) ==
    /\ call[c] \in {r, NoCall}
    /\ call' = [call EXCEPT ![c] = NoCall]
    /\ Observe(c, r) \/ (Change(r) /\ Tell(c, Reply("ok", Body(r))))

(* The answer of a cat that found its file. *)
Show(c) ==
    /\ Reading(call[c])
    /\ call' = [call EXCEPT ![c] = NoCall]
    /\ \E x \in shown[c] : Tell(c, Reply("ok", x))
    /\ UNCHANGED files

(* A crash drops the calls in progress, one of which may have had its       *)
(* effect, and hides the answers of some callers.                           *)
Crash ==
    /\ call' = [c \in Clients |-> NoCall]
    /\ \E hidden \in SUBSET Clients :
          answer' = [c \in Clients |-> IF c \in hidden THEN NoAnswer ELSE answer[c]]
    /\ \/ UNCHANGED files
       \/ \E c \in Clients : call[c] # NoCall /\ Change(call[c])

Next ==
    /\ \/ \E c \in Clients : \E r \in Requests[c] : Call(c, r) \/ Serve(c, r)
       \/ \E c \in Clients : Show(c)
       \/ Crash
    /\ Watch

Spec == Init /\ [][Next]_vars
===============================================================================
