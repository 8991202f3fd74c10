-------------------------------- MODULE Library --------------------------------
(***************************************************************************)
(* The mod library: the addon directories on disk, the rows that describe   *)
(* them (mods, mod_dependencies, mod_scenarios), and everything that changes *)
(* either: mod_sync (mods/sync.py over mods/scanner.py), mod_download       *)
(* (main.py, mods/downloader.py), POST /mods/add, POST /scenarios/resolve   *)
(* and the two deletes (api/mods.py), which keep what server definitions and *)
(* modpacks need (api/storage.py, mods/resolve.py).                          *)
(*                                                                         *)
(* A transaction is one step; between two of them, and across an await on   *)
(* the Workshop or on the engine, every other actor may move.  A mod has at *)
(* most one mission, whose id is known ("named", from the Workshop) or      *)
(* guessed from the files ("guess").  Left out are the engine's own addons, *)
(* which are never listed, downloaded or deleted, and mods.api_state, which *)
(* spares the resolver a call that would fail again.                        *)
(***************************************************************************)
EXTENDS Dependencies

CONSTANTS
    Mods,       \* addon GUIDs
    Order,      \* Mods in directory order, the order of a scan
    Gproj,      \* <<m, d>>: the addon.gproj of m names d as a dependency
    Workshop,   \* <<m, d>>: the Workshop lists d as a dependency of m
    Listed,     \* the mods the Workshop resolves
    Missions,   \* the mods that have a mission
    Picked,     \* bound on the mods users add, assign and download by name
    Tasks,      \* the job worker and the nightly scheduler
    Bodies,     \* Bodies[t]: which of "sync", "download" task t runs
    Clients     \* concurrent requests of a route with a wait in its middle

ASSUME GraphAssumption == Gproj \subseteq Mods \X Mods /\ Workshop \subseteq Listed \X Mods
ASSUME CatalogueAssumption == Listed \subseteq Mods /\ Missions \subseteq Mods /\ Picked \subseteq Mods
ASSUME OrderAssumption == IsInjective(Order) /\ Range(Order) = Mods

VARIABLES
    disk,       \* the addon directory: absent, torn (without a meta file) or whole
    lib,        \* the row of mods: none, or by its is_local
    edges,      \* mod_dependencies
    scenes,     \* mod_scenarios
    assigned,   \* the GUIDs in server_mods
    packed,     \* the GUIDs in modpack_items
    running,    \* supervisor.is_running()
    task,       \* the body each task executes
    req,        \* the request of each client
    steady      \* history: what was assigned and packed, and which edges there
                \* were, all the time since the delete of a client began

rows == <<lib, edges, scenes>>
uses == <<assigned, packed>>
vars == <<disk, rows, uses, running, task, req, steady>>

-----------------------------------------------------------------------------
(* What the code reads from the files and from the database *)

DiskStates == {"absent", "torn", "whole"}
RowStates == {"none", "remote", "local"}
Edges == [from : Mods, to : Mods, source : {"gproj", "api"}]
Scenes == [mod : Mods, id : {"guess", "named"}]

(* resolve_addon_dir finds a directory by its name, with or without a meta  *)
(* file; scan_all skips one that has none.                                  *)
HasDir(m) == disk[m] # "absent"
Scanned == {m \in Mods : disk[m] = "whole"}

Known(m) == lib[m] # "none"
Local(m) == lib[m] = "local"
Declared(m) == {d \in Mods \ {m} : <<m, d>> \in Gproj}
ApiDeps(m) == {d \in Mods : <<m, d>> \in Workshop}
Children(m) == {e.to : e \in {f \in edges : f.from = m}}

(* resolve_dependencies over the rows alone.                                *)
Closure(roots) == Reach(roots, [m \in Mods |-> Children(m)])

(* What definitions and modpacks name: the roots of orphan_reference_sets.  *)
Named == assigned \cup packed

(* The closure a download verifies: the Workshop's lists where it answers,  *)
(* merged with the rows, and the rows alone where it does not.              *)
Expected(want, up) ==
    Reach(want, [m \in Mods |-> Children(m) \cup (IF up /\ m \in Listed THEN ApiDeps(m) ELSE {})])

Busy(c) == req[c].op # "none"
Idle == [op |-> "none"]
AtRest == [pc |-> "rest", seen |-> {}, todo |-> <<>>, want |-> {}, expected |-> {},
           again |-> FALSE]

NothingSteady == [assigned |-> {}, packed |-> {}, edges |-> {}]

Init ==
    /\ disk \in [Mods -> {"absent", "whole"}]
    /\ lib = [m \in Mods |-> "none"]
    /\ edges = {}
    /\ scenes = {}
    /\ assigned = {}
    /\ packed = {}
    /\ running = FALSE
    /\ task = [t \in Tasks |-> AtRest]
    /\ req = [c \in Clients |-> Idle]
    /\ steady = [c \in Clients |-> NothingSteady]

-----------------------------------------------------------------------------
(* _upsert_local over a set of scanned addons, in one transaction *)

UpsertedEdges(M) ==
    {e \in edges : e.from \notin M}
        \cup {e \in [from : M, to : Mods, source : {"gproj"}] : e.to \in Declared(e.from)}

(* Only guesses are replaced, and only where the path has no named row.     *)
(* Mutant of UpsertedScenes: every row of a scanned mod is replaced.        *)
UpsertedScenesBlindly(M) ==
    {s \in scenes : s.mod \notin M} \cup {[mod |-> m, id |-> "guess"] : m \in M \cap Missions}

UpsertedScenes(M) ==
    LET named == {s \in scenes : s.id = "named"}
    IN  {s \in scenes : s.mod \notin M} \cup named
          \cup {[mod |-> m, id |-> "guess"] :
                    m \in {n \in M \cap Missions : \A s \in named : s.mod # n}}

Upserts(M) ==
    /\ lib' = [m \in Mods |-> IF m \in M THEN "local" ELSE lib[m]]
    /\ edges' = UpsertedEdges(M)
    /\ scenes' = UpsertedScenes(M)

(* enrich_one and enrich_local_one.  Success merges the Workshop's edges    *)
(* over those of the files, names the mission in place of its guess, and    *)
(* gives every dependency a row, local if a directory of its name exists.   *)
(* Mutant of EnrichedEdges: edges of the files stay beside the Workshop's.  *)
EnrichedEdgesTwice(m) ==
    edges \cup {[from |-> m, to |-> d, source |-> "api"] : d \in ApiDeps(m)}

EnrichedEdges(m) ==
    {e \in edges : e.from # m \/ e.to \notin ApiDeps(m)}
        \cup {[from |-> m, to |-> d, source |-> "api"] : d \in ApiDeps(m)}

StubRow(d) == IF Local(d) \/ HasDir(d) THEN "local" ELSE "remote"
CreatedRow(m) == IF Known(m) THEN lib[m] ELSE "remote"

Enriches(m) ==
    LET stubs == {e.to : e \in {f \in EnrichedEdges(m) : f.from = m}} \ {m}
    IN  /\ m \in Listed
        /\ edges' = EnrichedEdges(m)
        /\ scenes' = IF m \notin Missions THEN scenes
                     ELSE {s \in scenes : s.mod # m} \cup {[mod |-> m, id |-> "named"]}
        /\ lib' = [n \in Mods |->
                     IF n = m THEN CreatedRow(m)
                     ELSE IF n \in stubs THEN StubRow(n) ELSE lib[n]]

EnrichNotFound(m) ==
    /\ m \notin Listed
    /\ lib' = [lib EXCEPT ![m] = CreatedRow(m)]
    /\ UNCHANGED <<edges, scenes>>

-----------------------------------------------------------------------------
(* mod_sync *)

Goes(t, pc) == task' = [task EXCEPT ![t].pc = pc]
Rests(t) == task' = [task EXCEPT ![t] = AtRest]

SyncScans(t) ==
    /\ "sync" \in Bodies[t]
    /\ task[t].pc = "rest"
    /\ task' = [task EXCEPT ![t] = [AtRest EXCEPT !.pc = "scanned", !.seen = Scanned,
                    !.todo = SelectSeq(Order, LAMBDA m : m \in Scanned)]]
    /\ UNCHANGED <<disk, rows, uses, running, req>>

SyncUpserts(t) ==
    /\ task[t].pc = "scanned"
    /\ Upserts(task[t].seen)
    /\ Goes(t, "enrich")
    /\ UNCHANGED <<disk, uses, running, req>>

(* One mod at a time; an error of one is logged and skipped.                *)
SyncEnriches(t) ==
    /\ task[t].pc = "enrich"
    /\ task[t].todo # <<>>
    /\ LET m == Head(task[t].todo)
       IN  Enriches(m) \/ EnrichNotFound(m) \/ UNCHANGED rows
    /\ task' = [task EXCEPT ![t].todo = Tail(@)]
    /\ UNCHANGED <<disk, uses, running, req>>

(* Mutant of Pruned: only rows the scan saw are looked at.                  *)
PrunedNever(seen) == lib

Pruned(seen) ==
    [m \in Mods |-> IF Local(m) /\ m \notin seen THEN "remote" ELSE lib[m]]

SyncPrunes(t) ==
    /\ task[t].pc = "enrich"
    /\ task[t].todo = <<>>
    /\ lib' = Pruned(task[t].seen)
    /\ Rests(t)
    /\ UNCHANGED <<disk, edges, scenes, uses, running, req>>

-----------------------------------------------------------------------------
(* mod_download *)

(* The routes take GUIDs of the library; the engine is not started while a  *)
(* server runs.                                                             *)
DownloadBegins(t, m) ==
    /\ "download" \in Bodies[t]
    /\ task[t].pc = "rest"
    /\ Known(m)
    /\ ~running
    /\ task' = [task EXCEPT ![t] = [AtRest EXCEPT !.pc = "fetch", !.want = {m}]]
    /\ UNCHANGED <<disk, rows, uses, running, req>>

(* The engine fetches an addon and what its files name.  It may die in the  *)
(* middle of one, and may take such a directory for one already present.    *)
Lands(asked, m) ==
    /\ m \in Reach(asked, [n \in Mods |-> Declared(n)])
    /\ disk[m] # "whole"
    /\ \E s \in {"torn", "whole"} : disk' = [disk EXCEPT ![m] = s]
    /\ UNCHANGED <<rows, uses, running, task, req>>

EngineLands(t, m) ==
    /\ task[t].pc = "fetch"
    /\ Lands(task[t].want, m)

EngineReady(t) ==
    /\ task[t].pc = "fetch"
    /\ Goes(t, "closure")
    /\ UNCHANGED <<disk, rows, uses, running, req>>

(* What is missing is asked for once more; the closure is resolved once.    *)
Missing(expected) == expected \ Scanned

ChecksClosure(t) ==
    /\ task[t].pc = "closure"
    /\ \E expected \in IF task[t].again THEN {task[t].expected}
                       ELSE {Expected(task[t].want, up) : up \in BOOLEAN} :
         LET missing == Missing(expected)
         IN  \/ /\ missing = {}
                /\ task' = [task EXCEPT ![t] = [@ EXCEPT !.pc = "local", !.expected = expected]]
             \/ /\ missing # {}
                /\ ~task[t].again
                /\ ~running
                /\ task' = [task EXCEPT ![t] = [@ EXCEPT !.pc = "fetch", !.expected = expected,
                                                  !.want = @ \cup missing, !.again = TRUE]]
             \/ /\ missing # {}
                /\ running \/ task[t].again
                /\ Rests(t)
    /\ UNCHANGED <<disk, rows, uses, running, req>>

(* refresh_local_mods scans every directory, and then upserts those asked   *)
(* for in one transaction.                                                  *)
LocalScans(t) ==
    /\ task[t].pc = "local"
    /\ task' = [task EXCEPT ![t] = [AtRest EXCEPT !.pc = "reflect",
                    !.seen = task[t].want \cap Scanned, !.expected = task[t].expected \cap Scanned]]
    /\ UNCHANGED <<disk, rows, uses, running, req>>

LocalRefreshed(t) ==
    /\ task[t].pc = "reflect"
    /\ Upserts(task[t].seen)
    /\ Rests(t)
    /\ UNCHANGED <<disk, uses, running, req>>

(* A body raises or is cancelled at a wait; what it committed stays.        *)
Stops(t) ==
    /\ task[t].pc # "rest"
    /\ Rests(t)
    /\ UNCHANGED <<disk, rows, uses, running, req>>

-----------------------------------------------------------------------------
(* The routes *)

(* POST /mods/add; a mod the Workshop does not resolve is refused.          *)
AddMod(m) ==
    /\ Enriches(m)
    /\ UNCHANGED <<disk, uses, running, task, req>>

(* POST /scenarios/resolve asks the Workshop for a mod with no cached row,  *)
(* and caches what it answers next to what has appeared since.              *)
ResolveReads(c, m) ==
    /\ ~Busy(c)
    /\ \A s \in scenes : s.mod # m
    /\ m \in Listed
    /\ req' = [req EXCEPT ![c] = [op |-> "resolve", mod |-> m]]
    /\ UNCHANGED <<disk, rows, uses, running, task>>

ResolveCaches(c) ==
    /\ req[c].op = "resolve"
    /\ LET m == req[c].mod
       IN  IF m \in Missions
           THEN /\ scenes' = scenes \cup {[mod |-> m, id |-> "named"]}
                /\ lib' = [lib EXCEPT ![m] = CreatedRow(m)]
           ELSE UNCHANGED <<scenes, lib>>
    /\ req' = [req EXCEPT ![c] = Idle]
    /\ UNCHANGED <<disk, edges, uses, running, task>>

(* A PATCH of a definition, and of a modpack; no row of mods is required.   *)
Flipped(M, m) == IF m \in M THEN M \ {m} ELSE M \cup {m}

Assigns(m) ==
    /\ assigned' = Flipped(assigned, m)
    /\ UNCHANGED <<disk, rows, packed, running, task, req>>

Packs(m) ==
    /\ packed' = Flipped(packed, m)
    /\ UNCHANGED <<disk, rows, assigned, running, task, req>>

(* A server that starts lets its engine fetch what its mods need.           *)
StartServer ==
    /\ ~running
    /\ running' = TRUE
    /\ UNCHANGED <<disk, rows, uses, task, req>>

ServerStops ==
    /\ running
    /\ running' = FALSE
    /\ UNCHANGED <<disk, rows, uses, task, req>>

ServerLands(m) == running /\ Lands(assigned, m)

-----------------------------------------------------------------------------
(* The deletes.  Both look at the row and at the supervisor, and then read  *)
(* what is assigned and what is packed.                                     *)

Deletes(c) == req[c].op \in {"deleteLocal", "deleteRow"}
DeletesAt(c, pc) == Deletes(c) /\ req[c].pc = pc
Answers(c) == req' = [req EXCEPT ![c] = Idle]

DeleteReads(c, op, m) ==
    /\ ~Busy(c)
    /\ Known(m)
    /\ IF op = "deleteLocal" THEN Local(m) /\ ~running ELSE ~(Local(m) /\ running)
    /\ req' = [req EXCEPT ![c] =
                 [op |-> op, mod |-> m, local |-> Local(m), pc |-> "assigned", roots |-> {},
                  left |-> {}, queue |-> {}, seen |-> {}, owned |-> FALSE]]
    /\ UNCHANGED <<disk, rows, uses, running, task>>

ReadsAssigned(c) ==
    /\ DeletesAt(c, "assigned")
    /\ req' = [req EXCEPT ![c] = [@ EXCEPT !.pc = "packed", !.roots = assigned]]
    /\ UNCHANGED <<disk, rows, uses, running, task>>

ReadsPacked(c) ==
    /\ DeletesAt(c, "packed")
    /\ LET roots == req[c].roots \cup packed
       IN  req' = [req EXCEPT ![c] = [@ EXCEPT !.pc = "walk", !.roots = roots, !.left = roots]]
    /\ UNCHANGED <<disk, rows, uses, running, task>>

(* orphan_reference_sets resolves each root by itself, a mod at a time with  *)
(* the edges of that moment; owned says that some root's walk met the mod.  *)
Frontier(r) == IF r.queue = {} THEN r.left ELSE r.queue
Walked(r) == Frontier(r) = {}

DeleteVisits(c) ==
    /\ DeletesAt(c, "walk")
    /\ \E n \in Frontier(req[c]) :
         LET r == req[c]
             seen == (IF r.queue = {} THEN {} ELSE r.seen) \cup {n}
         IN  req' = [req EXCEPT ![c] =
                       [r EXCEPT !.left = IF r.queue = {} THEN @ \ {n} ELSE @,
                                 !.seen = seen,
                                 !.queue = (@ \cup Children(n)) \ seen,
                                 !.owned = @ \/ n = r.mod]]
    /\ UNCHANGED <<disk, rows, uses, running, task>>

(* What a start asks the engine to load: the same closure, except that an   *)
(* addon with no edges in the library is asked for those of its files.      *)
StartNeeds ==
    Reach(assigned, [m \in Mods |-> IF Children(m) = {} /\ HasDir(m) THEN Declared(m)
                                    ELSE Children(m)])

(* The owners of a mod are the roots whose closure holds it.                *)
Owners(m, roots) == {r \in roots : m \in Closure({r})}

(* Mutant of Spared: only what is named itself is looked at.                *)
SparedDirectly(op, m, roots, owned) == op = "deleteRow" /\ m \in roots

(* The files of an assigned mod may go, a later start fetches them again;   *)
(* those of a mod that only a dependency keeps may not, nor its row.        *)
Spared(op, m, roots, owned) ==
    \/ op = "deleteLocal" /\ m \notin roots /\ owned
    \/ op = "deleteRow" /\ (m \in roots \/ owned)

SparedNow(op, m) == Spared(op, m, Named, Owners(m, Named) # {})

(* The lists of GET /storage, which the deletes are offered from.           *)
(* Mutant of Orphans: on disk and named by no definition or modpack.        *)
OrphansNaive == {m \in Mods : Local(m) /\ m \notin Named}

Orphans == {m \in Mods : Local(m) /\ m \notin Named /\ Owners(m, Named) = {}}
KeptAsDependency == {m \in Mods : Local(m) /\ m \notin Named /\ Owners(m, Named) # {}}
Unreferenced == {m \in Mods : Known(m) /\ ~Local(m) /\ m \notin Named /\ Owners(m, Named) = {}}

SparesIt(c) == Spared(req[c].op, req[c].mod, req[c].roots, req[c].owned)

DeleteRefused(c) ==
    /\ DeletesAt(c, "walk")
    /\ Walked(req[c])
    /\ SparesIt(c) \/ (req[c].op = "deleteLocal" /\ ~HasDir(req[c].mod))
    /\ Answers(c)
    /\ UNCHANGED <<disk, rows, uses, running, task>>

(* The files go before the row is committed.  Where the first delete cannot *)
(* remove them all it raises, with what it removed gone; the second passes  *)
(* over that, and removes none that had no row as local when it began.      *)
DeletesFiles(c) ==
    /\ DeletesAt(c, "walk")
    /\ Walked(req[c])
    /\ ~SparesIt(c)
    /\ req[c].op = "deleteLocal" => HasDir(req[c].mod)
    /\ LET m == req[c].mod
           takes == req[c].local /\ HasDir(m)
       IN  \E s \in IF takes THEN {"absent", "torn", disk[m]} ELSE {disk[m]} :
             /\ disk' = [disk EXCEPT ![m] = s]
             /\ IF req[c].op = "deleteLocal" /\ s # "absent"
                THEN Answers(c)
                ELSE req' = [req EXCEPT ![c] = [op |-> @.op, mod |-> m, pc |-> "commit"]]
    /\ UNCHANGED <<rows, uses, running, task>>

(* An UPDATE of a row that is gone raises: nothing is written.              *)
CommitsLocal(c) ==
    /\ DeletesAt(c, "commit")
    /\ req[c].op = "deleteLocal"
    /\ lib' = [m \in Mods |-> IF m = req[c].mod /\ Known(m) THEN "remote" ELSE lib[m]]
    /\ Answers(c)
    /\ UNCHANGED <<disk, edges, scenes, uses, running, task>>

(* The row takes its dependencies and scenarios with it.                    *)
DeletesRow(c) ==
    /\ DeletesAt(c, "commit")
    /\ req[c].op = "deleteRow"
    /\ LET m == req[c].mod
       IN  /\ lib' = [lib EXCEPT ![m] = "none"]
           /\ edges' = {e \in edges : e.from # m}
           /\ scenes' = {s \in scenes : s.mod # m}
    /\ Answers(c)
    /\ UNCHANGED <<disk, uses, running, task>>

(* A read or a commit of a request raises, or the backend ends under it.    *)
RequestFails(c) ==
    /\ Busy(c)
    /\ Answers(c)
    /\ UNCHANGED <<disk, rows, uses, running, task>>

(* The history of each delete, from its first read to the last it takes.     *)
Pairs == {<<e.from, e.to>> : e \in edges}

MayTake(c) == Deletes(c) /\ ~(req[c].op = "deleteLocal" /\ req[c].pc = "commit")

KeepsHistory ==
    steady' = [c \in Clients |->
                 IF ~MayTake(c)' THEN NothingSteady
                 ELSE IF ~Deletes(c)
                 THEN [assigned |-> assigned', packed |-> packed', edges |-> Pairs']
                 ELSE [assigned |-> steady[c].assigned \cap assigned',
                       packed |-> steady[c].packed \cap packed',
                       edges |-> steady[c].edges \cap Pairs']]

-----------------------------------------------------------------------------
Works(t) ==
    \/ SyncUpserts(t) \/ SyncEnriches(t) \/ SyncPrunes(t)
    \/ EngineReady(t) \/ ChecksClosure(t) \/ LocalScans(t) \/ LocalRefreshed(t)

Serves(c) ==
    \/ ResolveCaches(c) \/ RequestFails(c)
    \/ ReadsAssigned(c) \/ ReadsPacked(c) \/ DeleteVisits(c)
    \/ DeleteRefused(c) \/ DeletesFiles(c) \/ CommitsLocal(c) \/ DeletesRow(c)

Moves ==
    \/ \E t \in Tasks : \/ SyncScans(t) \/ Works(t) \/ Stops(t)
                        \/ (\E m \in Picked : DownloadBegins(t, m)) \/ (\E m \in Mods : EngineLands(t, m))
    \/ \E m \in Picked : AddMod(m) \/ Assigns(m) \/ Packs(m)
    \/ \E m \in Mods : ServerLands(m)
    \/ StartServer \/ ServerStops
    \/ \E c \in Clients :
          \/ Serves(c)
          \/ \E m \in Picked : ResolveReads(c, m)
          \/ \E m \in Mods, op \in {"deleteLocal", "deleteRow"} : DeleteReads(c, op, m)

Next == Moves /\ KeepsHistory

Spec == Init /\ [][Next]_vars

-----------------------------------------------------------------------------
TypeOK ==
    /\ disk \in [Mods -> DiskStates]
    /\ lib \in [Mods -> RowStates]
    /\ edges \subseteq Edges
    /\ scenes \subseteq Scenes
    /\ assigned \subseteq Mods /\ packed \subseteq Mods
    /\ running \in BOOLEAN

(* A row depends on a mod once: an edge the Workshop confirms replaces that *)
(* of the files (uq_mod_dependency); and edges and scenes have their row.   *)
RowsAgree ==
    /\ \A e, f \in edges : e.from = f.from /\ e.to = f.to => e = f
    /\ \A e \in edges : Known(e.from)
    /\ \A s \in scenes : Known(s.mod)

(* What the storage view offers for deletion the routes delete and nothing   *)
(* needs, and what it says is kept they refuse to and something needs: the    *)
(* searches from one root at a time find what one from all of them would.    *)
StorageAgrees ==
    LET needed == Closure(Named)
    IN  /\ \A m \in Orphans \cup Unreferenced :
              m \notin needed /\ \A op \in {"deleteLocal", "deleteRow"} : ~SparedNow(op, m)
        /\ \A m \in KeptAsDependency :
              m \in needed /\ \A op \in {"deleteLocal", "deleteRow"} : SparedNow(op, m)

(* What is marked local is what a server would find on disk.                *)
FlagsExact == \A m \in Mods : Known(m) => (Local(m) <=> disk[m] = "whole")

(* Whatever downloads, enrichments, deletes and cancelled syncs did, in any *)
(* interleaving with the scans, syncs that go on completing put is_local    *)
(* right again once the directories and the catalogue are left alone.  No   *)
(* fairness: a cycle that is cancelled for ever promises nothing.           *)
LeftAlone == [][disk' = disk /\ \A m \in Mods : Known(m) => lib'[m] # "none"]_<<disk, lib>>
SyncCompletes == \E t \in Tasks : SyncPrunes(t)
FlagsHeal == (<>LeftAlone /\ []<><<SyncCompletes>>_vars) => []<>FlagsExact

(* What the Workshop said of a mission outlives every rescan and redownload *)
(* of its mod, as long as the mod has a row (_upsert_local: "never touch a  *)
(* row that was already enriched").                                         *)
NamedScenesKept ==
    [][\A s \in scenes : s.id = "named" => s \in scenes' \/ lib'[s.mod] = "none"]_vars

(* A delete walks the closure over many awaits, while mods are assigned and *)
(* edges written.  Whatever it meets, it takes neither the row nor the files *)
(* of a mod that definitions or modpacks which named their mods all the time *)
(* need, along edges that were there all the time (orphan_reference_sets);   *)
(* but the files of one that was named itself may go.                       *)
Needed(c) ==
    Reach(steady[c].assigned \cup steady[c].packed,
          [n \in Mods |-> {d \in Mods : <<n, d>> \in steady[c].edges}])

NeededStays ==
    [][\A m \in Mods :
         /\ Known(m) /\ lib'[m] = "none" =>
              \E c \in Clients : req'[c] # req[c] /\ m \notin Needed(c)
         /\ HasDir(m) /\ disk'[m] = "absent" =>
              \E c \in Clients : req'[c] # req[c] /\ (m \in req[c].roots \/ m \notin Needed(c))]_vars

(* The same of what a start would resolve, which reads further than the     *)
(* library: delete_local_mod refuses where "removing those files would      *)
(* silently break whatever depends on them".  Not so: README.               *)
StartedStays ==
    [][\A m \in Mods : HasDir(m) /\ disk'[m] = "absent" => m \in Named \/ m \notin StartNeeds]_vars

(* main.py, at the end of a download: "Reflect the freshly downloaded       *)
(* addons in the library immediately: flip is_local".  Not so of those that *)
(* came along with the requested ones: README.                              *)
ClosureIsReflected ==
    [][\A t \in Tasks : LocalRefreshed(t) =>
         \A m \in task[t].expected : lib'[m] = "local"]_vars
================================================================================
