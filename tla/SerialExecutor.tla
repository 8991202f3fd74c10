--------------------------- MODULE SerialExecutor ---------------------------
(***************************************************************************)
(* What the job manager promises about the coroutines it is handed, with   *)
(* no queue, no database and no cancellation: a job's body is executed at  *)
(* most once in the life of its row, and never beside another one.         *)
(***************************************************************************)

CONSTANT Jobs

VARIABLE exec        \* [Jobs -> Stages]

Stages == {"waiting", "executing", "over"}

Init == exec = [j \in Jobs |-> "waiting"]

Start(j) ==
  /\ exec[j] = "waiting"
  /\ \A k \in Jobs : exec[k] # "executing"
  /\ exec' = [exec EXCEPT ![j] = "executing"]

\* A body is over when it returns, raises, is cancelled, or its process dies.
Finish(j) ==
  /\ exec[j] = "executing"
  /\ exec' = [exec EXCEPT ![j] = "over"]

Next == \E j \in Jobs : Start(j) \/ Finish(j)

Spec == Init /\ [][Next]_exec
=============================================================================
