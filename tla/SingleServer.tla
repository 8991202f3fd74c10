---------------------------- MODULE SingleServer ----------------------------
(***************************************************************************)
(* The single-server rule the supervisor promises: over the definitions    *)
(* that are stored, at most one runs, and another one is launched only     *)
(* after the running one has ended.                                        *)
(***************************************************************************)

CONSTANTS Servers, Nobody

VARIABLE running     \* the definition whose game process is alive, or Nobody

Init == running = Nobody

Launch(s) == running = Nobody /\ running' = s

End == running # Nobody /\ running' = Nobody

Next == End \/ \E s \in Servers : Launch(s)

Spec == Init /\ [][Next]_running
=============================================================================
