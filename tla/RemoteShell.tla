------------------------------ MODULE RemoteShell ------------------------------
(***************************************************************************)
(* What the user of the NanoOS client is promised of a command typed at    *)
(* the prompt: the kernel takes it at most once in each of its lives,      *)
(* executes what it took at most once, and answers an execution at most    *)
(* once; a command whose send returned Ok was taken.  A restart of the     *)
(* kernel forgets what was taken and not executed.                         *)
(***************************************************************************)
EXTENDS Naturals

CONSTANT Commands

VARIABLES
    outcome,  \* per command: not typed, open, or what its send returned
    took,     \* the commands that any life of the kernel took
    here,     \* the commands that this life took
    running,  \* those of them that are not executed yet
    runs,     \* how often a command was executed, in all lives
    answered  \* how many of its executions the user saw the answer of

vars == <<outcome, took, here, running, runs, answered>>

Init ==
    /\ outcome = [m \in Commands |-> "new"]
    /\ took = {} /\ here = {} /\ running = {}
    /\ runs = [m \in Commands |-> 0]
    /\ answered = [m \in Commands |-> 0]

Type(m) ==
    /\ outcome[m] = "new"
    /\ outcome' = [outcome EXCEPT ![m] = "open"]
    /\ UNCHANGED <<took, here, running, runs, answered>>

Take(m) ==
    /\ outcome[m] # "new" /\ m \notin here
    /\ took' = took \cup {m} /\ here' = here \cup {m} /\ running' = running \cup {m}
    /\ UNCHANGED <<outcome, runs, answered>>

Return(m) ==
    /\ outcome[m] = "open"
    /\ \/ m \in took /\ outcome' = [outcome EXCEPT ![m] = "ok"]
       \/ outcome' = [outcome EXCEPT ![m] = "failed"]
    /\ UNCHANGED <<took, here, running, runs, answered>>

Execute(m) ==
    /\ m \in running
    /\ running' = running \ {m}
    /\ runs' = [runs EXCEPT ![m] = @ + 1]
    /\ UNCHANGED <<outcome, took, here, answered>>

Answer(m) ==
    /\ answered[m] < runs[m]
    /\ answered' = [answered EXCEPT ![m] = @ + 1]
    /\ UNCHANGED <<outcome, took, here, running, runs>>

Restart ==
    /\ here' = {} /\ running' = {}
    /\ UNCHANGED <<outcome, took, runs, answered>>

Next == Restart \/ \E m \in Commands : Type(m) \/ Take(m) \/ Return(m) \/ Execute(m) \/ Answer(m)

Spec == Init /\ [][Next]_vars
===============================================================================
