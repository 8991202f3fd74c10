---- MODULE MCSaveSnapshots ----
(* SaveSnapshots with saves that may be in any of the directories.  Runs    *)
(* are cut where nothing is left to lose, at a second damaged copy, and     *)
(* where two clients make, rename or delete something of the same kind.     *)
EXTENDS SaveSnapshots, TLC

CONSTANTS s1, s2, d1, d2, i1, i2, c1, c2

MCRoots == [s \in Saves |-> Dirs]
MCPlaythroughs == {Dirs}
Symmetry ==
    Permutations(Ids) \cup Permutations(Clients) \cup Permutations(Saves) \cup Permutations(Dirs)

SomethingToLose == discarded # Saves

OneDamaged ==
    Cardinality({d \in Dirs : disk[d] # None /\ disk[d].state # "whole"})
      + Cardinality({i \in Ids : archive[i] # None /\ archive[i].content.state # "whole"}) <= 1

UnlikeRequests ==
    \A c, k \in Clients :
        c # k /\ req[c].op = req[k].op => req[c].op \in {"none", "restore", "upload"}
====
