---------------------------- MODULE MCServerStart ----------------------------
(* The files of a name b and those of c name a; the Workshop lists b for a   *)
(* and a for b, a cycle, and does not know c.                               *)
EXTENDS ServerStart

CONSTANTS a, b, c

MCMods == {a, b, c}
MCGproj == {<<a, b>>, <<c, a>>}
MCWorkshop == {<<a, b>>, <<b, a>>}
Layout(m, enabled) == [mod |-> m, on |-> enabled]
MCLayouts == {<<Layout(b, TRUE)>>, <<Layout(a, TRUE), Layout(b, TRUE)>>,
              <<Layout(b, FALSE), Layout(c, TRUE)>>}
(* The releases of a are built for the engine of their time, b declares      *)
(* nothing, c the first engine.                                             *)
MCDeclares == (a :> <<1, 2>>) @@ (b :> <<0, 0>>) @@ (c :> <<1, 1>>)

(* No job reads the engine or what the Workshop withdrew, and they no job, so *)
(* they move where none is queued, which leaves out no library beside them.  *)
EngineApart == job # NoJob => build = 1 /\ engine = 0 /\ \A m \in Mods : oldest[m] = 1

(* The post-order of resolved_mod_entries, on every graph of three mods.     *)
ASSUME EveryGraphInOrder ==
    \A child \in [MCMods -> SUBSET MCMods], l \in {<<Layout(a, TRUE), Layout(b, FALSE)>>,
        <<Layout(b, TRUE), Layout(a, TRUE)>>, <<Layout(a, TRUE), Layout(b, TRUE), Layout(c, TRUE)>>} :
       /\ ToSet(Ordered(l, child)) = Reach({l[i].mod : i \in {j \in DOMAIN l : l[j].on}}, child)
       /\ InOrder(Ordered(l, child), child)
==============================================================================
