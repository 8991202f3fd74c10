----------------------------- MODULE RemoteCall -----------------------------
(***************************************************************************)
(* What a caller of the RCON client may rely on: a command is executed at  *)
(* most once, an answer is the answer of that very command, and a failure  *)
(* says nothing about whether the command was, or will still be, executed. *)
(***************************************************************************)
CONSTANT Commands

VARIABLES
  state,      \* of each command, as its caller sees it
  executed    \* the commands the server has carried out

Init ==
  /\ state = [k \in Commands |-> "none"]
  /\ executed = {}

Send(k) ==
  /\ state[k] = "none"
  /\ state' = [state EXCEPT ![k] = "sent"]
  /\ UNCHANGED executed

Execute(k) ==
  /\ state[k] # "none" /\ k \notin executed
  /\ executed' = executed \union {k}
  /\ UNCHANGED state

Answer(k) ==
  /\ state[k] = "sent" /\ k \in executed
  /\ state' = [state EXCEPT ![k] = "answered"]
  /\ UNCHANGED executed

Fail(k) ==
  /\ state[k] \in {"none", "sent"}
  /\ state' = [state EXCEPT ![k] = "failed"]
  /\ UNCHANGED executed

Next == \E k \in Commands : Send(k) \/ Execute(k) \/ Answer(k) \/ Fail(k)

Spec == Init /\ [][Next]_<<state, executed>>
=============================================================================
