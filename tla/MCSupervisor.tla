---------------------------- MODULE MCSupervisor ----------------------------
(* Instances of Supervisor for TLC. *)
EXTENDS Supervisor, TLC

\* Definitions are interchangeable, and so are slots.
ServerSymmetry == Permutations(Servers) \union Permutations(Slots)
SlotSymmetry == Permutations(Slots)
=============================================================================
