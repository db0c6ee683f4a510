------------------------------- MODULE Delivery -------------------------------
(***************************************************************************)
(* What "reliable transport" (nano_os/README.md:35) promises the callers   *)
(* of Stack.send and Stack.listen: a message is handed to the receiver at  *)
(* most once, and send returns Ok only when it was.  A send that returns   *)
(* an error has promised nothing: its message may still arrive.            *)
(***************************************************************************)
EXTENDS Naturals

CONSTANT Msgs

VARIABLES
    outcome,  \* per message: not sent, open, or what send returned
    got       \* how often the receiver's callback was given the message

Init ==
    /\ outcome = [m \in Msgs |-> "new"]
    /\ got = [m \in Msgs |-> 0]

Send(m) ==
    /\ outcome[m] = "new"
    /\ outcome' = [outcome EXCEPT ![m] = "open"]
    /\ UNCHANGED got

Deliver(m) ==
    /\ outcome[m] # "new"
    /\ got[m] = 0
    /\ got' = [got EXCEPT ![m] = 1]
    /\ UNCHANGED outcome

Return(m) ==
    /\ outcome[m] = "open"
    /\ \/ got[m] = 1 /\ outcome' = [outcome EXCEPT ![m] = "ok"]
       \/ outcome' = [outcome EXCEPT ![m] = "failed"]
    /\ UNCHANGED got

(* A host that goes away fails its sends together.                          *)
Fail(sends) ==
    /\ \A m \in sends : outcome[m] = "open"
    /\ outcome' = [m \in Msgs |-> IF m \in sends THEN "failed" ELSE outcome[m]]
    /\ UNCHANGED got

Next ==
    \/ \E m \in Msgs : Send(m) \/ Deliver(m) \/ Return(m)
    \/ \E sends \in SUBSET Msgs : Fail(sends)

Spec == Init /\ [][Next]_<<outcome, got>>
===============================================================================
