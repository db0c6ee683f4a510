-------------------------------- MODULE KeyValue --------------------------------
(***************************************************************************)
(* What Mini Redis promises: the commands of each client are executed in   *)
(* the order it asked them, each once and in one step, and each is         *)
(* answered with its own result.                                           *)
(***************************************************************************)
EXTENDS Naturals, Sequences

CONSTANTS
    Clients,
    Commands   \* records [op, key, value]

VARIABLES
    store,     \* the values of the keys that were set
    asked,     \* the commands of each client
    answers    \* their answers so far

vars == <<store, asked, answers>>

Empty == [k \in {} |-> <<>>]

Init ==
    /\ store = Empty
    /\ asked = [c \in Clients |-> <<>>]
    /\ answers = [c \in Clients |-> <<>>]

Ask(c, cmd) ==
    /\ asked' = [asked EXCEPT ![c] = Append(@, cmd)]
    /\ UNCHANGED <<store, answers>>

Reply(cmd) ==
    CASE cmd.op = "Set"     -> [type |-> "Simple", value |-> <<"OK">>]
      [] cmd.op = "Get"     -> IF cmd.key \in DOMAIN store
                               THEN [type |-> "Bulk", value |-> store[cmd.key]]
                               ELSE [type |-> "NullBulk", value |-> <<>>]
      [] cmd.op = "Ping"    -> [type |-> "Simple", value |-> <<"PONG">>]
      [] cmd.op = "Echo"    -> [type |-> "Bulk", value |-> cmd.value]
      [] cmd.op = "Invalid" -> [type |-> "Error", value |-> <<"ERR">>]

Answer(c) ==
    /\ Len(answers[c]) < Len(asked[c])
    /\ LET cmd == asked[c][Len(answers[c]) + 1]
       IN  /\ answers' = [answers EXCEPT ![c] = Append(@, Reply(cmd))]
           /\ store' =
                IF cmd.op = "Set"
                THEN [k \in DOMAIN store \cup {cmd.key} |->
                         IF k = cmd.key THEN cmd.value ELSE store[k]]
                ELSE store
    /\ UNCHANGED asked

Next == \E c \in Clients : Answer(c) \/ \E cmd \in Commands : Ask(c, cmd)

Spec == Init /\ [][Next]_vars
===============================================================================
