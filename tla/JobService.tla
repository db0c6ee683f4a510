------------------------------ MODULE JobService ------------------------------
(***************************************************************************)
(* What Lwt_unix.run_job promises: a job that was asked for is refused at  *)
(* once or its function is called exactly once, and after that the caller  *)
(* is answered.                                                            *)
(***************************************************************************)
CONSTANT Jobs

VARIABLE phase

Init == phase = [j \in Jobs |-> "new"]

Becomes(j, from, to) == phase[j] = from /\ phase' = [phase EXCEPT ![j] = to]

Ask(j) == Becomes(j, "new", "asked")
Refuse(j) == Becomes(j, "new", "refused")
Run(j) == Becomes(j, "asked", "ran")
Answer(j) == Becomes(j, "ran", "answered")
RunAndAnswer(j) == Becomes(j, "asked", "answered")

Next == \E j \in Jobs : Ask(j) \/ Refuse(j) \/ Run(j) \/ Answer(j) \/ RunAndAnswer(j)

Spec ==
    /\ Init /\ [][Next]_phase
    /\ \A j \in Jobs : WF_phase(Run(j) \/ RunAndAnswer(j)) /\ WF_phase(Answer(j))
===============================================================================
