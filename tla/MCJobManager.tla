---------------------------- MODULE MCJobManager ----------------------------
(* Instances of JobManager for TLC. *)
EXTENDS JobManager, TLC

\* Clients are interchangeable; so are jobs when all or none are Registered.
ClientSymmetry == Permutations(Clients)
Symmetry == Permutations(Clients) \union Permutations(Registered)
=============================================================================
