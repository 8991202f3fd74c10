---- MODULE MCLibrary ----
(* Library with a mod a that needs b, and a worker beside the nightly check. *)
EXTENDS Library

CONSTANTS a, b, c1, Worker, Nightly

AB == <<a, b>>
Chain == {<<a, b>>}
BodiesApart == [t \in Tasks |-> IF t = Worker THEN {"download"} ELSE {"sync"}]

(* Bound: any two of the worker, the nightly check, the server and the       *)
(* request at once.                                                          *)
TwoAtOnce ==
    /\ Cardinality({t \in Tasks : task[t].pc # "rest"} \cup {c \in Clients : Busy(c)}) <= 2
    /\ running => \A t \in Tasks, c \in Clients : task[t].pc = "rest" \/ ~Busy(c)

(* Bound: a mod is assigned or packed.                                      *)
UsedOnce == assigned \cap packed = {}

(* Bound: one directory at a time is torn.                                  *)
TornOnce == Cardinality({m \in Mods : disk[m] = "torn"}) <= 1
====
