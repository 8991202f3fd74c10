---- MODULE MCInstallation ----
(* Installation with few things going on at once. *)
EXTENDS Installation, TLC

CONSTANTS n1, n2, p1, a1

Symmetry == Permutations(Schedulers)

(* Any two of: a client asks for an engine update, a job waits, a job runs, *)
(* a nightly cycle runs, the settings are changed; servers start and stop   *)
(* and tools run on beside any of them.                                     *)
Busy ==
    {a \in Askers : asking[a] # "idle"} \cup (IF queue = <<>> THEN {} ELSE {None})
        \cup {r \in Runners : task[r].pc \notin {"rest", "sleep"}}
        \cup {p \in Patches : patch[p].pc # "idle"}

TwoAtOnce == Cardinality(Busy) <= 2

OneLeft == Cardinality({k \in kids : k.left # "no"}) <= 1

(* What start_server would have to look for: no tool at all works on the    *)
(* installation beside a server.                                            *)
NoToolBesideServer == running => \A k \in kids : k.tool = "appinfo"
====
