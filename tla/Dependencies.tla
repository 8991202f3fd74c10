------------------------------ MODULE Dependencies ------------------------------
(***************************************************************************)
(* The two searches of the dependency graph that the other modules share:   *)
(* that of resolve_dependencies (mods/resolve.py), as the set it visits and  *)
(* the depths it has, and the load order of resolved_mod_entries             *)
(* (servers/config_gen.py).  A graph is a function from mods to the mods     *)
(* they name; it may have cycles.                                           *)
(***************************************************************************)
EXTENDS Naturals, FiniteSets, Sequences, SequencesExt

-----------------------------------------------------------------------------
(* The search visits each mod once, whatever order the rows come in, so what *)
(* it returns is the least set that holds the roots and what its mods name.  *)

IsClosed(M, child) == \A m \in M : child[m] \subseteq M

Reach(roots, child) ==
    {m \in DOMAIN child :
        \A M \in SUBSET DOMAIN child : roots \subseteq M /\ IsClosed(M, child) => m \in M}

(* The search is breadth first, so the depth it gives a mod is its distance  *)
(* from the roots: the mods visited at a depth less than max_depth.         *)
Near(roots, child, depth) ==
    LET near[n \in 0..depth] ==
            IF n = 0 THEN {} ELSE roots \cup UNION {child[m] : m \in near[n - 1]}
    IN  near[depth]

-----------------------------------------------------------------------------
(* The post-order visit, one call or return of visit() at a time: todo are   *)
(* the assignments not looked at yet, path is on_stack in the order of the   *)
(* calls, and ordered lists what was seen.                                  *)

Visiting(todo, path, ordered) == [todo |-> todo, path |-> path, ordered |-> ordered]

(* An assignment that is disabled, or was visited as a dependency, is passed *)
(* over.  The rows of mod_dependencies have no order of their own.          *)
NextRoot(v) ==
    LET e == Head(v.todo)
    IN  Visiting(Tail(v.todo),
                 IF e.on /\ e.mod \notin ToSet(v.ordered) THEN <<e.mod>> ELSE <<>>, v.ordered)

Visits(v, child) ==
    LET m == Last(v.path)
        next == child[m] \ (ToSet(v.path) \cup ToSet(v.ordered))
    IN  IF v.path = <<>> THEN IF v.todo = <<>> THEN v ELSE NextRoot(v)
        ELSE IF next # {}
        THEN Visiting(v.todo, Append(v.path, CHOOSE c \in next : TRUE), v.ordered)
        ELSE Visiting(v.todo, Front(v.path), Append(v.ordered, m))

(* Each mod is entered and left at most once.                               *)
Calls(layout, child) == Len(layout) + 2 * Cardinality(DOMAIN child)

Ordered(layout, child) ==
    LET run[n \in 0..Calls(layout, child)] ==
            IF n = 0 THEN Visiting(layout, <<>>, <<>>) ELSE Visits(run[n - 1], child)
    IN  run[Calls(layout, child)].ordered

(* A mod comes after each one it names, unless that one leads back to it.   *)
InOrder(list, child) ==
    \A i, j \in DOMAIN list : i < j =>
       /\ list[i] # list[j]
       /\ list[j] \in child[list[i]] => list[i] \in Reach({list[j]}, child)
================================================================================
