-------------------------------- MODULE Console --------------------------------
(***************************************************************************)
(* What the user of NanoOS who waits for each answer sees: a console that  *)
(* may be started again at any time.  In each of its lives a command is    *)
(* taken at most once and takes effect at most once; a command that took   *)
(* effect in an earlier life may be taken again.  Only then can two        *)
(* commands be under way together, and what they do to the files and       *)
(* answer is promised to nobody until the next start.  Otherwise every     *)
(* command takes effect at one instant, and answers from the files that it *)
(* finds.                                                                  *)
(***************************************************************************)
EXTENDS Naturals, Sequences

CONSTANTS
    Script,    \* the commands in the order in which they are typed
    Menu,      \* Menu[i]: what may be typed as line i: kind, name and content
    Empty      \* the content of a file that was only touched

VARIABLES
    files,    \* name -> content
    request,  \* request[m]: what was typed as command m, or NotTyped
    replies,  \* replies[m]: its answers, one for each time it took effect
    seen,     \* the commands whose answer the user has seen
    phase,    \* phase[m]: how far m has come in this life of the console
    overlap   \* whether two commands were under way together in this life

NotTyped == [kind |-> "none"]

vars == <<files, request, replies, seen, phase, overlap>>

Commands == {Script[i] : i \in 1 .. Len(Script)}

With(f, n, x) == [k \in DOMAIN f \cup {n} |-> IF k = n THEN x ELSE f[k]]
Without(f, n) == [k \in DOMAIN f \ {n} |-> f[k]]

(* The files after a command. *)
After(r, f) ==
    CASE r.kind = "write" -> With(f, r.name, r.content)
      [] r.kind = "touch" /\ r.name \notin DOMAIN f -> With(f, r.name, Empty)
      [] r.kind = "rm" -> Without(f, r.name)
      [] OTHER -> f

(* Its answer. *)
Says(r, f) ==
    CASE r.kind = "cat" /\ r.name \in DOMAIN f -> <<"content", f[r.name]>>
      [] r.kind \in {"cat", "rm"} /\ r.name \notin DOMAIN f -> <<"not found">>
      [] r.kind = "rm" /\ r.name \in DOMAIN f -> <<"deleted">>
      [] r.kind = "touch" /\ r.name \in DOMAIN f -> <<"exists">>
      [] r.kind = "write" /\ r.name \in DOMAIN f -> <<"overwritten">>
      [] OTHER -> <<"created">>

Init ==
    /\ files = [n \in {} |-> Empty]
    /\ request = [m \in Commands |-> NotTyped]
    /\ replies = [m \in Commands |-> <<>>]
    /\ seen = {}
    /\ phase = [m \in Commands |-> "none"]
    /\ overlap = FALSE

Type(i, r) ==
    /\ request[Script[i]] = NotTyped
    /\ \A j \in 1 .. (i - 1) : Script[j] \in seen
    /\ request' = [request EXCEPT ![Script[i]] = r]
    /\ UNCHANGED <<files, replies, seen, phase, overlap>>

UnderWay(m) == phase[m] \in {"taken", "effect"}

(* Command m took effect in an earlier life. *)
Before(m) == Len(replies[m]) > IF phase[m] \in {"effect", "ended"} THEN 1 ELSE 0

Meets(m) == {n \in Commands : n # m /\ UnderWay(n)}

Take(m) ==
    /\ request[m] # NotTyped /\ phase[m] = "none"
    /\ \A n \in Meets(m) : Before(m) \/ Before(n)
    /\ phase' = [phase EXCEPT ![m] = "taken"]
    /\ overlap' = (overlap \/ Meets(m) # {})
    /\ UNCHANGED <<files, request, replies, seen>>

Execute(m) ==
    /\ phase[m] = "taken"
    /\ \E p \in {"effect", "ended"} : phase' = [phase EXCEPT ![m] = p]
    /\ \/ /\ ~overlap
          /\ files' = After(request[m], files)
          /\ replies' = [replies EXCEPT ![m] = Append(@, Says(request[m], files))]
       \/ /\ overlap
          /\ \A n \in Commands :
                Len(replies'[n]) = IF n = m THEN Len(replies[n]) + 1 ELSE Len(replies[n])
    /\ UNCHANGED <<request, seen, overlap>>

End(m) ==
    /\ phase[m] = "effect"
    /\ phase' = [phase EXCEPT ![m] = "ended"]
    /\ UNCHANGED <<files, request, replies, seen, overlap>>

See(m) ==
    /\ replies[m] # <<>>
    /\ seen' = seen \cup {m}
    /\ UNCHANGED <<files, request, replies, phase, overlap>>

Restart ==
    /\ phase' = [m \in Commands |-> "none"]
    /\ overlap' = FALSE
    /\ UNCHANGED <<files, request, replies, seen>>

Next ==
    \/ \E i \in 1 .. Len(Script) : \E r \in Menu[i] : Type(i, r)
    \/ \E m \in Commands : Take(m) \/ Execute(m) \/ End(m) \/ See(m)
    \/ Restart

Spec == Init /\ [][Next]_vars
===============================================================================
