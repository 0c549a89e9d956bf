----------------------------- MODULE TaskBatch -----------------------------
(***************************************************************************)
(* What a parallel executor promises for a batch of tasks, with no queue,  *)
(* workers, retries or ceiling in it: every task gets exactly one result,  *)
(* one task's failure stops no other, and in the end all have one.         *)
(* AdaptiveExecutor implements this specification.                         *)
(***************************************************************************)
CONSTANTS Tasks

VARIABLE result  \* result[t]: "none", "ok" or "failed"

Init == result = [t \in Tasks |-> "none"]

Finish(t) ==
    /\ result[t] = "none"
    /\ \E r \in {"ok", "failed"} : result' = [result EXCEPT ![t] = r]

Next == \E t \in Tasks : Finish(t)

Safe == Init /\ [][Next]_result
Spec == Safe /\ WF_result(Next)
=============================================================================
