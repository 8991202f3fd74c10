---------------------------- MODULE LibraryProofs ----------------------------
(***************************************************************************)
(* Theorems about Library, for any catalogue, dependency graph, and number  *)
(* of tasks, clients and bodies.                                            *)
(***************************************************************************)
EXTENDS Library, TLAPS

(* The rows alone: what the database holds is well formed.                  *)
RowsType ==
    /\ lib \in [Mods -> RowStates]
    /\ edges \subseteq Edges
    /\ scenes \subseteq Scenes

(* A task is a record whose scan is of mods, whatever else it carries.      *)
TaskShape(r) ==
    "seen" \in DOMAIN r /\ r.seen \subseteq Mods

TasksScanMods ==
    /\ task = [t \in Tasks |-> task[t]]
    /\ \A t \in Tasks : TaskShape(task[t])

(* The requests, a delete in its reads and its walk, and about to commit.    *)
Reading == [op : {"deleteLocal", "deleteRow"}, mod : Mods, local : BOOLEAN,
            pc : {"assigned", "packed", "walk"}, roots : SUBSET Mods, left : SUBSET Mods,
            queue : SUBSET Mods, seen : SUBSET Mods, owned : BOOLEAN]
Committing == [op : {"deleteLocal", "deleteRow"}, mod : Mods, pc : {"commit"}]
Requests == {Idle} \cup [op : {"resolve"}, mod : Mods] \cup Reading \cup Committing

History == [assigned : SUBSET Mods, packed : SUBSET Mods, edges : SUBSET (Mods \X Mods)]

RequestsType == req \in [Clients -> Requests] /\ steady \in [Clients -> History]

(* What was there all the time, as a graph, and what is needed along it.    *)
Steadily(h) == [n \in Mods |-> {d \in Mods : <<n, d>> \in h.edges}]
Needs(h) == Reach(h.assigned \cup h.packed, Steadily(h))

(* Of a walk that has not met the mod: what it has seen leads, along what is *)
(* steady, to nothing it has not seen or will see, and no root it is done   *)
(* with needs the mod.                                                      *)
WalkIsRight(r, h) ==
    /\ h.assigned \cup h.packed \subseteq r.roots
    /\ ~r.owned =>
         /\ r.mod \notin r.seen
         /\ \A n \in r.seen : Steadily(h)[n] \subseteq r.seen \cup r.queue
         /\ \A q \in r.roots \ r.left :
               q \in r.seen \cup r.queue \/ r.mod \notin Reach({q}, Steadily(h))

DeleteIsRight(r, h) ==
    /\ r \in Reading /\ r.pc # "walk" => r.seen = {}
    /\ r \in Reading /\ r.pc = "packed" => h.assigned \subseteq r.roots
    /\ r \in Reading /\ r.pc = "walk" => WalkIsRight(r, h)
    /\ r \in Committing /\ r.op = "deleteRow" => r.mod \notin Needs(h)

DeletesAreRight == \A c \in Clients : DeleteIsRight(req[c], steady[c])

Rooted == assigned \subseteq Mods /\ packed \subseteq Mods

IInv == RowsType /\ RowsAgree /\ TasksScanMods /\ RequestsType /\ DeletesAreRight /\ Rooted

-----------------------------------------------------------------------------
(* The closure *)

LEMMA ReachIs ==
    ASSUME NEW N, NEW child \in [N -> SUBSET N], NEW roots \in SUBSET N
    PROVE  /\ roots \subseteq Reach(roots, child) /\ Reach(roots, child) \subseteq N
           /\ \A m \in Reach(roots, child) : child[m] \subseteq Reach(roots, child)
           /\ \A M \in SUBSET N :
                 roots \subseteq M /\ IsClosed(M, child) => Reach(roots, child) \subseteq M
<1>1. DOMAIN child = N
    OBVIOUS
<1>2. roots \subseteq Reach(roots, child) /\ Reach(roots, child) \subseteq N
    BY <1>1 DEF Reach
<1>3. ASSUME NEW m \in Reach(roots, child), NEW d \in child[m] PROVE d \in Reach(roots, child)
    <2>1. d \in N
        BY <1>2
    <2>2. ASSUME NEW M \in SUBSET N, roots \subseteq M, IsClosed(M, child) PROVE d \in M
        <3>1. m \in M
            BY <1>1, <2>2 DEF Reach
        <3> QED
            BY <2>2, <3>1 DEF IsClosed
    <2> QED
        BY <1>1, <2>1, <2>2 DEF Reach
<1>4. ASSUME NEW M \in SUBSET N, roots \subseteq M, IsClosed(M, child)
      PROVE  Reach(roots, child) \subseteq M
    <2> SUFFICES ASSUME NEW m \in Reach(roots, child) PROVE m \in M
        OBVIOUS
    <2>1. M \in SUBSET DOMAIN child
        BY <1>1
    <2> QED
        BY <1>4, <2>1 DEF Reach
<1>5. \A m \in Reach(roots, child) : child[m] \subseteq Reach(roots, child)
    BY <1>3
<1> QED
    BY <1>2, <1>4, <1>5

(* The search from many roots finds what the searches from each of them do.  *)
LEMMA ReachByRoots ==
    ASSUME NEW N, NEW child \in [N -> SUBSET N], NEW roots \in SUBSET N
    PROVE  Reach(roots, child) = UNION {Reach({r}, child) : r \in roots}
<1> DEFINE apart == UNION {Reach({r}, child) : r \in roots}
<1>1. \A r \in roots : /\ r \in Reach({r}, child) /\ Reach({r}, child) \subseteq N
                       /\ \A m \in Reach({r}, child) : child[m] \subseteq Reach({r}, child)
    <2> SUFFICES ASSUME NEW r \in roots
                 PROVE  /\ r \in Reach({r}, child) /\ Reach({r}, child) \subseteq N
                        /\ \A m \in Reach({r}, child) : child[m] \subseteq Reach({r}, child)
        OBVIOUS
    <2>1. {r} \in SUBSET N
        OBVIOUS
    <2> QED
        BY <2>1, ReachIs
<1>2. Reach(roots, child) \subseteq apart
    <2>1. roots \subseteq apart /\ apart \in SUBSET N /\ IsClosed(apart, child)
        BY <1>1 DEF IsClosed
    <2> HIDE DEF apart
    <2> QED
        BY <2>1, ReachIs
<1>3. ASSUME NEW r \in roots PROVE Reach({r}, child) \subseteq Reach(roots, child)
    <2>1. {r} \subseteq Reach(roots, child) /\ Reach(roots, child) \in SUBSET N
          /\ IsClosed(Reach(roots, child), child)
        BY ReachIs DEF IsClosed
    <2> QED
        BY <2>1, ReachIs
<1>4. apart \subseteq Reach(roots, child)
    BY <1>3
<1> QED
    BY <1>2, <1>4

(* Fewer roots and fewer edges reach less.                                  *)
LEMMA ReachShrinks ==
    ASSUME NEW N, NEW more \in [N -> SUBSET N], NEW fewer \in [N -> SUBSET N],
           NEW roots \in SUBSET N, NEW some \in SUBSET roots,
           \A n \in N : fewer[n] \subseteq more[n]
    PROVE  Reach(some, fewer) \subseteq Reach(roots, more)
<1> DEFINE M == Reach(roots, more)
<1>1. roots \subseteq M /\ M \in SUBSET N /\ \A m \in M : more[m] \subseteq M
    BY ReachIs
<1>2. some \subseteq M /\ IsClosed(M, fewer)
    BY <1>1 DEF IsClosed
<1>3. some \in SUBSET N
    OBVIOUS
<1> HIDE DEF M
<1>4. Reach(some, fewer) \subseteq M
    BY <1>1, <1>2, <1>3, ReachIs
<1> QED
    BY <1>4 DEF M

(* A mod has an owner exactly if it is in the closure of all roots.          *)
LEMMA OwnersAre ==
    ASSUME RowsType, NEW roots \in SUBSET Mods, NEW m
    PROVE  /\ Owners(m, roots) # {} <=> m \in Closure(roots)
           /\ roots \subseteq Closure(roots)
<1> DEFINE child == [n \in Mods |-> Children(n)]
<1>1. child \in [Mods -> SUBSET Mods]
    BY DEF RowsType, Edges, Children
<1>2. \A M : Closure(M) = Reach(M, child)
    BY DEF Closure
<1> HIDE DEF child
<1>3. Reach(roots, child) = UNION {Reach({r}, child) : r \in roots}
    BY <1>1, ReachByRoots
<1>4. roots \subseteq Reach(roots, child)
    BY <1>1, ReachIs
<1>5. Owners(m, roots) = {r \in roots : m \in Reach({r}, child)}
    BY <1>2 DEF Owners
<1>6. m \in Closure(roots) <=> \E r \in roots : m \in Reach({r}, child)
    BY <1>2, <1>3
<1> QED
    BY <1>2, <1>4, <1>5, <1>6

-----------------------------------------------------------------------------
(* The transactions *)

LEMMA UpsertsAgree ==
    ASSUME NEW M \in SUBSET Mods, RowsType, RowsAgree, Upserts(M)
    PROVE  RowsType' /\ RowsAgree'
<1> USE DEF RowsType
<1>1. lib' \in [Mods -> RowStates] /\ \A m \in Mods : Known(m) => Known(m)'
    BY DEF Upserts, Known, RowStates
<1>2. \A m \in M : Known(m)'
    BY DEF Upserts, Known
<1>3. edges' \subseteq Edges /\ \A e \in edges' : Known(e.from)'
    BY <1>1, <1>2 DEF Upserts, UpsertedEdges, Edges, RowsAgree, Declared
<1>4. \A e, f \in edges' : e.from = f.from /\ e.to = f.to => e = f
    BY DEF Upserts, UpsertedEdges, RowsAgree
<1>5. scenes' \subseteq Scenes /\ \A s \in scenes' : Known(s.mod)'
    BY <1>1, <1>2 DEF Upserts, UpsertedScenes, Scenes, RowsAgree
<1> QED
    BY <1>1, <1>3, <1>4, <1>5 DEF RowsAgree

LEMMA EnrichesAgree ==
    ASSUME NEW m, RowsType, RowsAgree, Enriches(m)
    PROVE  RowsType' /\ RowsAgree'
<1> USE DEF RowsType
<1>0. m \in Mods
    BY CatalogueAssumption DEF Enriches
<1>1. lib' \in [Mods -> RowStates] /\ \A n \in Mods : Known(n) => Known(n)'
    BY DEF Enriches, CreatedRow, StubRow, Known, RowStates
<1>2. Known(m)'
    BY <1>0 DEF Enriches, CreatedRow, Known
<1>3. edges' \subseteq Edges /\ \A e \in edges' : Known(e.from)'
    <2> DEFINE new == {[from |-> m, to |-> d, source |-> "api"] : d \in ApiDeps(m)}
    <2>1. edges' \subseteq edges \cup new
        BY DEF Enriches, EnrichedEdges
    <2>2. \A d \in ApiDeps(m) : [from |-> m, to |-> d, source |-> "api"] \in Edges
        BY <1>0 DEF Edges, ApiDeps
    <2>3. \A e \in edges : e.from \in Mods /\ Known(e.from)
        BY DEF Edges, RowsAgree
    <2> QED
        BY <1>1, <1>2, <2>1, <2>2, <2>3, new \subseteq Edges
<1>4. \A e, f \in edges' : e.from = f.from /\ e.to = f.to => e = f
    BY DEF Enriches, EnrichedEdges, RowsAgree
<1>5. scenes' \subseteq Scenes /\ \A s \in scenes' : Known(s.mod)'
    BY <1>0, <1>1, <1>2 DEF Enriches, Scenes, RowsAgree
<1> QED
    BY <1>1, <1>3, <1>4, <1>5 DEF RowsAgree

LEMMA NotFoundAgrees ==
    ASSUME NEW m, RowsType, RowsAgree, EnrichNotFound(m)
    PROVE  RowsType' /\ RowsAgree'
BY DEF RowsType, RowsAgree, EnrichNotFound, CreatedRow, Known, RowStates, Edges, Scenes

LEMMA PruneAgrees ==
    ASSUME NEW seen, RowsType, RowsAgree, lib' = Pruned(seen), UNCHANGED <<edges, scenes>>
    PROVE  RowsType' /\ RowsAgree'
BY DEF RowsType, RowsAgree, Pruned, Local, Known, RowStates, Edges, Scenes

LEMMA ResolveAgrees ==
    ASSUME NEW c \in Clients, RowsType, RowsAgree, ResolveCaches(c)
    PROVE  RowsType' /\ RowsAgree'
BY CatalogueAssumption
   DEF RowsType, RowsAgree, ResolveCaches, CreatedRow, Known, RowStates, Edges, Scenes

LEMMA CommitsLocalAgrees ==
    ASSUME NEW c \in Clients, RowsType, RowsAgree, CommitsLocal(c)
    PROVE  RowsType' /\ RowsAgree'
BY DEF RowsType, RowsAgree, CommitsLocal, Known, RowStates, Edges, Scenes

LEMMA DeletesRowAgrees ==
    ASSUME NEW c \in Clients, RowsType, RowsAgree, DeletesRow(c)
    PROVE  RowsType' /\ RowsAgree'
BY DEF RowsType, RowsAgree, DeletesRow, Known, RowStates, Edges, Scenes

(* Every step of a task is one of these transactions or leaves the rows.    *)
LEMMA RowsStep ==
    ASSUME IInv, [Next]_vars
    PROVE  RowsType' /\ RowsAgree'
<1> USE CatalogueAssumption DEF IInv
<1>1. CASE UNCHANGED rows
    BY <1>1 DEF rows, RowsType, RowsAgree, Known
<1>2. ASSUME NEW t \in Tasks, SyncUpserts(t) \/ LocalRefreshed(t) PROVE RowsType' /\ RowsAgree'
    BY <1>2, UpsertsAgree DEF SyncUpserts, LocalRefreshed, TasksScanMods, TaskShape
<1>3. ASSUME NEW t \in Tasks, SyncEnriches(t) PROVE RowsType' /\ RowsAgree'
    BY <1>1, <1>3, EnrichesAgree, NotFoundAgrees DEF SyncEnriches
<1>4. ASSUME NEW t \in Tasks, SyncPrunes(t) PROVE RowsType' /\ RowsAgree'
    BY <1>4, PruneAgrees DEF SyncPrunes
<1>6. ASSUME NEW m \in Picked, AddMod(m) PROVE RowsType' /\ RowsAgree'
    BY <1>6, EnrichesAgree DEF AddMod
<1>7. ASSUME NEW c \in Clients, Serves(c) PROVE RowsType' /\ RowsAgree'
    BY <1>1, <1>7, ResolveAgrees, CommitsLocalAgrees, DeletesRowAgrees
       DEF Serves, RequestFails, ReadsAssigned, ReadsPacked, DeleteVisits, DeleteRefused,
           DeletesFiles
<1> QED
    BY <1>1, <1>2, <1>3, <1>4, <1>6, <1>7
       DEF Next, Moves, vars, Works, SyncScans, DownloadBegins, EngineLands, Lands,
           EngineReady, ChecksClosure, LocalScans, Stops, Assigns, Packs, ServerLands,
           StartServer, ServerStops, ResolveReads, DeleteReads

LEMMA TasksStep ==
    ASSUME TasksScanMods, [Next]_vars
    PROVE  TasksScanMods'
<1> USE DEF TasksScanMods
<1>1. TaskShape(AtRest)
    BY DEF TaskShape, AtRest
<1>2. ASSUME NEW t \in Tasks, NEW r, TaskShape(r), task' = [task EXCEPT ![t] = r]
      PROVE  TasksScanMods'
    BY <1>2
<1>3. CASE UNCHANGED task
    BY <1>3
<1>4. ASSUME NEW t \in Tasks, Rests(t) PROVE TasksScanMods'
    BY <1>1, <1>2, <1>4 DEF Rests
<1>5. ASSUME NEW t \in Tasks, NEW pc, Goes(t, pc) PROVE TasksScanMods'
    <2>1. TaskShape([task[t] EXCEPT !.pc = pc])
        BY DEF TaskShape
    <2> QED
        BY <1>2, <1>5, <2>1 DEF Goes
<1>6. ASSUME NEW t \in Tasks, SyncScans(t) PROVE TasksScanMods'
    <2>1. \A todo : TaskShape([AtRest EXCEPT !.pc = "scanned", !.seen = Scanned, !.todo = todo])
        BY DEF TaskShape, AtRest, Scanned
    <2> QED
        BY <1>2, <1>6, <2>1 DEF SyncScans
<1>7. ASSUME NEW t \in Tasks, SyncEnriches(t) PROVE TasksScanMods'
    <2>1. \A todo : TaskShape([task[t] EXCEPT !.todo = todo])
        BY DEF TaskShape
    <2> QED
        BY <1>2, <1>7, <2>1 DEF SyncEnriches
<1>8. ASSUME NEW t \in Tasks, NEW m \in Picked, DownloadBegins(t, m) PROVE TasksScanMods'
    <2>1. TaskShape([AtRest EXCEPT !.pc = "fetch", !.want = {m}])
        BY DEF TaskShape, AtRest
    <2> QED
        BY <1>2, <1>8, <2>1 DEF DownloadBegins
<1>9. ASSUME NEW t \in Tasks, ChecksClosure(t) PROVE TasksScanMods'
    <2>1. \A e : TaskShape([task[t] EXCEPT !.pc = "local", !.expected = e])
        BY DEF TaskShape
    <2>2. \A e, w : TaskShape([task[t] EXCEPT !.pc = "fetch", !.expected = e, !.want = w,
                                              !.again = TRUE])
        BY DEF TaskShape
    <2>3. \/ Rests(t)
          \/ \E e : task' = [task EXCEPT ![t] = [task[t] EXCEPT !.pc = "local", !.expected = e]]
          \/ \E e, w : task' = [task EXCEPT ![t] = [task[t] EXCEPT !.pc = "fetch", !.expected = e,
                                                       !.want = w, !.again = TRUE]]
        BY <1>9 DEF ChecksClosure
    <2> QED
        BY <1>2, <1>4, <2>1, <2>2, <2>3
<1>10. ASSUME NEW t \in Tasks, LocalScans(t) PROVE TasksScanMods'
    <2>1. \A e : TaskShape([AtRest EXCEPT !.pc = "reflect", !.seen = task[t].want \cap Scanned,
                                          !.expected = e])
        BY DEF TaskShape, AtRest, Scanned
    <2> QED
        BY <1>2, <1>10, <2>1 DEF LocalScans
<1> QED
    BY <1>3, <1>4, <1>5, <1>6, <1>7, <1>8, <1>9, <1>10
       DEF Next, Moves, vars, Works, SyncUpserts, SyncPrunes, EngineLands, Lands, EngineReady,
           LocalRefreshed, Stops, AddMod, Assigns, Packs, ServerLands, StartServer, ServerStops,
           Serves, ResolveReads, ResolveCaches, RequestFails, DeleteReads, ReadsAssigned,
           ReadsPacked, DeleteVisits, DeleteRefused, DeletesFiles, CommitsLocal, DeletesRow

LEMMA RootedStep ==
    ASSUME Rooted, [Next]_vars
    PROVE  Rooted'
<1> USE DEF Rooted
<1>1. ASSUME NEW m \in Picked, Assigns(m) \/ Packs(m) PROVE Rooted'
    BY <1>1, CatalogueAssumption DEF Assigns, Packs, Flipped
<1> QED
    BY <1>1
       DEF Next, Moves, vars, uses, Works, SyncScans, SyncUpserts, SyncEnriches, SyncPrunes,
           DownloadBegins, EngineLands, Lands, EngineReady, ChecksClosure, LocalScans,
           LocalRefreshed, Stops, AddMod, ServerLands, StartServer, ServerStops,
           Serves, ResolveReads, ResolveCaches, RequestFails, DeleteReads, ReadsAssigned,
           ReadsPacked, DeleteVisits, DeleteRefused, DeletesFiles, CommitsLocal, DeletesRow

-----------------------------------------------------------------------------
(* The walk of a delete *)

Shrinks(h, g) ==
    g.assigned \subseteq h.assigned /\ g.packed \subseteq h.packed /\ g.edges \subseteq h.edges

LEMMA SteadilyIs ==
    ASSUME NEW h \in History
    PROVE  /\ Steadily(h) \in [Mods -> SUBSET Mods]
           /\ h.assigned \cup h.packed \in SUBSET Mods
BY DEF Steadily, History

LEMMA NeedsShrink ==
    ASSUME NEW h \in History, NEW g \in History, Shrinks(h, g)
    PROVE  /\ Needs(g) \subseteq Needs(h)
           /\ \A n \in Mods : Steadily(g)[n] \subseteq Steadily(h)[n]
           /\ \A q \in Mods : Reach({q}, Steadily(g)) \subseteq Reach({q}, Steadily(h))
<1>1. \A n \in Mods : Steadily(g)[n] \subseteq Steadily(h)[n]
    BY DEF Steadily, Shrinks
<1>2. Steadily(g) \in [Mods -> SUBSET Mods] /\ Steadily(h) \in [Mods -> SUBSET Mods]
    BY SteadilyIs
<1>3. h.assigned \cup h.packed \in SUBSET Mods
      /\ g.assigned \cup g.packed \in SUBSET (h.assigned \cup h.packed)
    BY DEF Shrinks, History
<1>4. Needs(g) \subseteq Needs(h)
    BY <1>1, <1>2, <1>3, ReachShrinks DEF Needs
<1>5. ASSUME NEW q \in Mods PROVE Reach({q}, Steadily(g)) \subseteq Reach({q}, Steadily(h))
    <2>1. {q} \in SUBSET Mods /\ {q} \in SUBSET {q}
        OBVIOUS
    <2> QED
        BY <1>1, <1>2, <2>1, ReachShrinks
<1> QED
    BY <1>1, <1>4, <1>5

(* What others change only takes from what is steady.                       *)
LEMMA DeleteStaysRight ==
    ASSUME NEW r \in Requests, NEW h \in History, NEW g \in History, Shrinks(h, g),
           DeleteIsRight(r, h)
    PROVE  DeleteIsRight(r, g)
<1>1. ASSUME r \in Reading, r.pc = "walk" PROVE WalkIsRight(r, g)
    <2>1. WalkIsRight(r, h)
        BY <1>1 DEF DeleteIsRight
    <2>2. r.seen \subseteq Mods /\ r.roots \subseteq Mods
        BY <1>1 DEF Reading
    <2>3. g.assigned \cup g.packed \subseteq r.roots
        BY <2>1 DEF WalkIsRight, Shrinks
    <2> QED
        BY <2>1, <2>2, <2>3, NeedsShrink DEF WalkIsRight
<1> QED
    BY <1>1, NeedsShrink DEF DeleteIsRight, Shrinks

(* A walk that is over and has not met the mod: nothing steady needs it.    *)
LEMMA WalkEnds ==
    ASSUME NEW r \in Reading, NEW h \in History, WalkIsRight(r, h), Walked(r), ~r.owned
    PROVE  r.mod \notin Needs(h)
<1> DEFINE child == Steadily(h)
           steadyRoots == h.assigned \cup h.packed
<1>1. child \in [Mods -> SUBSET Mods] /\ steadyRoots \in SUBSET Mods
    BY SteadilyIs
<1>2. r.queue = {} /\ r.left = {} /\ steadyRoots \subseteq r.roots
    BY DEF Walked, Frontier, WalkIsRight
<1>3. r.seen \in SUBSET Mods /\ r.mod \notin r.seen /\ \A n \in r.seen : child[n] \subseteq r.seen
    BY <1>2 DEF WalkIsRight, Reading
<1>4. \A q \in steadyRoots : q \in r.seen \/ r.mod \notin Reach({q}, child)
    BY <1>2 DEF WalkIsRight
<1> HIDE DEF child, steadyRoots
<1>5. ASSUME NEW q \in steadyRoots PROVE r.mod \notin Reach({q}, child)
    <2>1. CASE q \in r.seen
        <3>1. {q} \in SUBSET Mods /\ {q} \subseteq r.seen /\ IsClosed(r.seen, child)
            BY <1>1, <1>3, <2>1 DEF IsClosed
        <3>2. Reach({q}, child) \subseteq r.seen
            BY <1>1, <1>3, <3>1, ReachIs
        <3> QED
            BY <1>3, <3>2
    <2> QED
        BY <1>4, <2>1
<1>6. r.mod \notin Reach(steadyRoots, child)
    <2>1. Reach(steadyRoots, child) = UNION {Reach({q}, child) : q \in steadyRoots}
        BY <1>1, ReachByRoots
    <2> QED
        BY <1>5, <2>1
<1> QED
    BY <1>6 DEF Needs, child, steadyRoots

(* One mod more is read, with edges among which are those that are steady.  *)
LEMMA WalkGoesOn ==
    ASSUME NEW r \in Reading, NEW h \in History, WalkIsRight(r, h),
           NEW n \in Frontier(r), NEW named \in SUBSET Mods, Steadily(h)[n] \subseteq named,
           NEW seen, seen = (IF r.queue = {} THEN {} ELSE r.seen) \cup {n},
           NEW left, left = IF r.queue = {} THEN r.left \ {n} ELSE r.left,
           NEW s \in Reading, s.mod = r.mod, s.roots = r.roots, s.left = left, s.seen = seen,
           s.queue = (r.queue \cup named) \ seen, s.owned <=> (r.owned \/ n = r.mod)
    PROVE  WalkIsRight(s, h)
<1> DEFINE child == Steadily(h)
<1>1. child \in [Mods -> SUBSET Mods]
    BY SteadilyIs
<1>2. h.assigned \cup h.packed \subseteq s.roots
    BY DEF WalkIsRight
<1>3. ASSUME ~s.owned
      PROVE  /\ s.mod \notin s.seen
             /\ \A m \in s.seen : child[m] \subseteq s.seen \cup s.queue
             /\ \A q \in s.roots \ s.left :
                   q \in s.seen \cup s.queue \/ s.mod \notin Reach({q}, child)
    <2>1. ~r.owned /\ n # r.mod
        BY <1>3
    <2>2. /\ r.mod \notin r.seen
          /\ \A m \in r.seen : child[m] \subseteq r.seen \cup r.queue
          /\ \A q \in r.roots \ r.left :
                q \in r.seen \cup r.queue \/ r.mod \notin Reach({q}, child)
        BY <2>1 DEF WalkIsRight
    <2>3. child[n] \subseteq named
        OBVIOUS
    <2>4. r.seen \in SUBSET Mods /\ r.roots \subseteq Mods
        BY DEF Reading
    <2> HIDE DEF child
    <2>5. CASE r.queue = {}
        <3>1. seen = {n} /\ left = r.left \ {n} /\ s.queue = named \ {n}
            BY <2>5
        <3>2. IsClosed(r.seen, child)
            BY <2>2, <2>5 DEF IsClosed
        <3>3. ASSUME NEW q \in r.roots \ r.left PROVE r.mod \notin Reach({q}, child)
            <4>1. CASE q \in r.seen
                <5>1. {q} \in SUBSET Mods /\ {q} \subseteq r.seen
                    BY <2>4, <4>1
                <5>2. Reach({q}, child) \subseteq r.seen
                    BY <1>1, <2>4, <3>2, <5>1, ReachIs
                <5> QED
                    BY <2>2, <5>2
            <4> QED
                BY <2>2, <2>5, <4>1
        <3> QED
            BY <2>1, <2>3, <3>1, <3>3
    <2>6. CASE r.queue # {}
        <3>1. seen = r.seen \cup {n} /\ left = r.left
            BY <2>6
        <3>2. r.seen \cup r.queue \subseteq s.seen \cup s.queue /\ named \subseteq s.seen \cup s.queue
            BY <3>1
        <3> QED
            BY <2>1, <2>2, <2>3, <3>1, <3>2
    <2> QED
        BY <2>5, <2>6
<1> QED
    BY <1>2, <1>3 DEF WalkIsRight

(* How the history of a delete goes on.                                     *)
LEMMA HistoryStep ==
    ASSUME RequestsType, RowsType', Rooted', KeepsHistory, NEW c \in Clients
    PROVE  /\ steady'[c] \in History
           /\ Deletes(c) => Shrinks(steady[c], steady'[c])
           /\ MayTake(c)' => /\ steady'[c].assigned \subseteq assigned'
                             /\ steady'[c].packed \subseteq packed'
                             /\ steady'[c].edges \subseteq Pairs'
           /\ ~MayTake(c)' => steady'[c] = NothingSteady
<1>1. Pairs' \subseteq Mods \X Mods
    BY DEF Pairs, RowsType, Edges
<1>2. NothingSteady \in History
    BY DEF NothingSteady, History
<1>3. steady[c] \in History
    BY DEF RequestsType
<1>4. CASE ~MayTake(c)'
    <2>1. steady'[c] = NothingSteady
        BY <1>4 DEF KeepsHistory
    <2> QED
        BY <1>2, <1>4, <2>1 DEF Shrinks, NothingSteady
<1>5. CASE MayTake(c)' /\ ~Deletes(c)
    <2>1. steady'[c] = [assigned |-> assigned', packed |-> packed', edges |-> Pairs']
        BY <1>5 DEF KeepsHistory
    <2> QED
        BY <1>1, <1>5, <2>1 DEF Rooted, History
<1>6. CASE MayTake(c)' /\ Deletes(c)
    <2>1. steady'[c] = [assigned |-> steady[c].assigned \cap assigned',
                        packed |-> steady[c].packed \cap packed',
                        edges |-> steady[c].edges \cap Pairs']
        BY <1>6 DEF KeepsHistory
    <2> QED
        BY <1>3, <1>6, <2>1 DEF History, Shrinks
<1> QED
    BY <1>4, <1>5, <1>6

LEMMA RequestsStep ==
    ASSUME IInv, RowsType', Rooted', [Next]_vars
    PROVE  RequestsType' /\ DeletesAreRight'
<1> USE DEF IInv
<1>1. CASE UNCHANGED <<req, steady>>
    BY <1>1 DEF RequestsType, DeletesAreRight
<1>2. CASE Next
    <2>0. KeepsHistory /\ Moves
        BY <1>2 DEF Next
    <2>1. \A c \in Clients : steady'[c] \in History
        BY <2>0, HistoryStep
    <2>2. steady' = [c \in Clients |-> steady'[c]]
        BY <2>0 DEF KeepsHistory
    <2>3. steady' \in [Clients -> History]
        BY <2>1, <2>2
    <2>4. ASSUME NEW c \in Clients, req'[c] = req[c] PROVE DeleteIsRight(req'[c], steady'[c])
        <3>1. req[c] \in Requests /\ steady[c] \in History /\ DeleteIsRight(req[c], steady[c])
            BY DEF RequestsType, DeletesAreRight
        <3>2. CASE Deletes(c)
            BY <2>0, <2>1, <2>4, <3>1, <3>2, HistoryStep, DeleteStaysRight
        <3>3. CASE ~Deletes(c)
            BY <2>4, <3>3 DEF DeleteIsRight, Reading, Committing, Deletes
        <3> QED
            BY <3>2, <3>3
    <2>5. ASSUME NEW c \in Clients, NEW r \in Requests, req' = [req EXCEPT ![c] = r],
                 DeleteIsRight(r, steady'[c])
          PROVE  RequestsType' /\ DeletesAreRight'
        <3>1. req' \in [Clients -> Requests]
            BY <2>5 DEF RequestsType
        <3>2. \A d \in Clients : d # c => req'[d] = req[d]
            BY <2>5 DEF RequestsType
        <3>3. req'[c] = r
            BY <2>5 DEF RequestsType
        <3>4. ASSUME NEW d \in Clients PROVE DeleteIsRight(req'[d], steady'[d])
            BY <2>4, <2>5, <3>2, <3>3
        <3> QED
            BY <2>3, <3>1, <3>4 DEF RequestsType, DeletesAreRight
    <2>6. CASE UNCHANGED req
        BY <2>3, <2>4, <2>6 DEF RequestsType, DeletesAreRight
    <2>7. ASSUME NEW c \in Clients, Answers(c) PROVE RequestsType' /\ DeletesAreRight'
        <3>1. Idle \in Requests /\ DeleteIsRight(Idle, steady'[c])
            BY DEF Requests, DeleteIsRight, Idle, Reading, Committing
        <3> QED
            BY <2>5, <2>7, <3>1 DEF Answers
    <2>8. ASSUME NEW c \in Clients, NEW m \in Picked, ResolveReads(c, m)
          PROVE  RequestsType' /\ DeletesAreRight'
        <3> DEFINE r == [op |-> "resolve", mod |-> m]
        <3>1. r \in Requests
            BY CatalogueAssumption DEF Requests
        <3>2. DeleteIsRight(r, steady'[c])
            BY DEF DeleteIsRight, Reading, Committing
        <3> QED
            BY <2>5, <2>8, <3>1, <3>2 DEF ResolveReads
    <2>9. ASSUME NEW c \in Clients, ResolveCaches(c) PROVE RequestsType' /\ DeletesAreRight'
        BY <2>7, <2>9 DEF ResolveCaches, Answers
    <2>10. ASSUME NEW c \in Clients, NEW m \in Mods, NEW op \in {"deleteLocal", "deleteRow"},
                  DeleteReads(c, op, m)
           PROVE  RequestsType' /\ DeletesAreRight'
        <3> DEFINE r == [op |-> op, mod |-> m, local |-> Local(m), pc |-> "assigned",
                         roots |-> {}, left |-> {}, queue |-> {}, seen |-> {}, owned |-> FALSE]
        <3>1. r \in Reading
            BY DEF Reading, Local
        <3>2. r \in Requests /\ DeleteIsRight(r, steady'[c])
            BY <3>1 DEF Requests, DeleteIsRight, Committing
        <3> QED
            BY <2>5, <2>10, <3>2 DEF DeleteReads
    <2>11. ASSUME NEW c \in Clients, ReadsAssigned(c) PROVE RequestsType' /\ DeletesAreRight'
        <3>1. req[c] \in Reading
            BY <2>11 DEF ReadsAssigned, DeletesAt, Deletes, RequestsType, Requests, Idle, Committing
        <3> DEFINE r == [req[c] EXCEPT !.pc = "packed", !.roots = assigned]
        <3>2. r \in Reading /\ r.pc = "packed" /\ r.roots = assigned /\ r.op = req[c].op
              /\ r.seen = req[c].seen
            BY <3>1 DEF Reading, Rooted
        <3>3. req'[c] = r /\ assigned' = assigned /\ req[c].seen = {}
            BY <2>11, <3>1 DEF ReadsAssigned, DeletesAt, RequestsType, DeletesAreRight,
                               DeleteIsRight, uses
        <3> HIDE DEF r
        <3>4. MayTake(c)'
            BY <3>2, <3>3 DEF MayTake, Deletes, Reading
        <3>5. DeleteIsRight(r, steady'[c])
            BY <2>0, <3>2, <3>3, <3>4, HistoryStep DEF DeleteIsRight, Reading, Committing
        <3> QED
            BY <2>5, <2>11, <3>2, <3>5 DEF ReadsAssigned, Requests, r
    <2>12. ASSUME NEW c \in Clients, ReadsPacked(c) PROVE RequestsType' /\ DeletesAreRight'
        <3>1. req[c] \in Reading /\ req[c].pc = "packed" /\ Deletes(c)
            BY <2>12 DEF ReadsPacked, DeletesAt, Deletes, RequestsType, Requests, Idle, Committing
        <3> DEFINE roots == req[c].roots \cup packed
                   r == [req[c] EXCEPT !.pc = "walk", !.roots = roots, !.left = roots]
        <3>2. r \in Reading /\ r.pc = "walk" /\ r.roots = roots /\ r.left = roots
              /\ r.owned = req[c].owned /\ r.seen = req[c].seen /\ r.mod = req[c].mod
            BY <3>1 DEF Reading, Rooted
        <3>3. req' = [req EXCEPT ![c] = r] /\ req'[c] = r /\ packed' = packed
            <4>1. packed' = packed
                BY <2>12 DEF ReadsPacked, uses
            <4>2. req' = [req EXCEPT ![c] = r]
                BY <2>12 DEF ReadsPacked
            <4>3. req'[c] = r
                BY <4>2 DEF RequestsType
            <4> QED
                BY <4>1, <4>2, <4>3
        <3>4. steady[c].assigned \subseteq req[c].roots
            BY <3>1 DEF DeletesAreRight, DeleteIsRight
        <3>6. req[c].seen = {}
            BY <3>1 DEF DeletesAreRight, DeleteIsRight
        <3> HIDE DEF r
        <3>7. MayTake(c)'
            BY <3>2, <3>3 DEF MayTake, Deletes, Reading
        <3>8. WalkIsRight(r, steady'[c])
            BY <2>0, <3>1, <3>2, <3>3, <3>4, <3>6, <3>7, HistoryStep DEF WalkIsRight, Shrinks, Reading
        <3>9. DeleteIsRight(r, steady'[c])
            BY <3>2, <3>8 DEF DeleteIsRight, Reading, Committing
        <3> QED
            BY <2>5, <3>2, <3>3, <3>9 DEF Requests
    <2>13. ASSUME NEW c \in Clients, DeleteVisits(c) PROVE RequestsType' /\ DeletesAreRight'
        <3>1. req[c] \in Reading /\ req[c].pc = "walk" /\ Deletes(c)
            BY <2>13 DEF DeleteVisits, DeletesAt, Deletes, RequestsType, Requests, Idle, Committing
        <3> DEFINE p == req[c]
        <3>2. PICK n \in Frontier(p) :
                req' = [req EXCEPT ![c] =
                         [p EXCEPT !.left = IF p.queue = {} THEN @ \ {n} ELSE @,
                                   !.seen = (IF p.queue = {} THEN {} ELSE p.seen) \cup {n},
                                   !.queue = (@ \cup Children(n)) \
                                               ((IF p.queue = {} THEN {} ELSE p.seen) \cup {n}),
                                   !.owned = @ \/ n = p.mod]]
            BY <2>13 DEF DeleteVisits
        <3> DEFINE seen == (IF p.queue = {} THEN {} ELSE p.seen) \cup {n}
                   left == IF p.queue = {} THEN p.left \ {n} ELSE p.left
                   r == [p EXCEPT !.left = left, !.seen = seen,
                                  !.queue = (p.queue \cup Children(n)) \ seen,
                                  !.owned = p.owned \/ n = p.mod]
        <3>3. req' = [req EXCEPT ![c] = r] /\ req'[c] = r
            BY <3>2 DEF RequestsType
        <3>4. n \in Mods
            BY <3>1 DEF Frontier, Reading
        <3>5. Children(n) \in SUBSET Mods
            BY DEF Children, RowsType, Edges
        <3>6. /\ r \in Reading /\ r.pc = "walk" /\ r.mod = p.mod /\ r.roots = p.roots
              /\ r.left = left /\ r.seen = seen
              /\ r.queue = (p.queue \cup Children(n)) \ seen
              /\ r.owned <=> (p.owned \/ n = p.mod)
            BY <3>1, <3>4, <3>5 DEF Reading
        <3>7. UNCHANGED edges
            BY <2>13 DEF DeleteVisits, rows
        <3> HIDE DEF r
        <3>8. MayTake(c)'
            BY <3>3, <3>6 DEF MayTake, Deletes, Reading
        <3>9. steady'[c] \in History /\ Shrinks(steady[c], steady'[c])
              /\ steady'[c].edges \subseteq Pairs'
            BY <2>0, <3>1, <3>8, HistoryStep
        <3>10. WalkIsRight(p, steady'[c])
            <4>1. DeleteIsRight(p, steady'[c])
                BY <3>9, DeleteStaysRight DEF RequestsType, DeletesAreRight
            <4> QED
                BY <3>1, <4>1 DEF DeleteIsRight
        <3>11. Steadily(steady'[c])[n] \subseteq Children(n)
            BY <3>4, <3>7, <3>9 DEF Steadily, Pairs, Children
        <3>12. WalkIsRight(r, steady'[c])
            <4>1. /\ seen = (IF p.queue = {} THEN {} ELSE p.seen) \cup {n}
                  /\ left = IF p.queue = {} THEN p.left \ {n} ELSE p.left
                OBVIOUS
            <4> DEFINE h == steady'[c]
            <4>2. p \in Reading /\ h \in History /\ n \in Frontier(p)
                  /\ Steadily(h)[n] \subseteq Children(n) /\ WalkIsRight(p, h)
                BY <3>1, <3>2, <3>9, <3>10, <3>11
            <4> HIDE DEF p, seen, left, h
            <4>3. WalkIsRight(r, h)
                BY <3>5, <3>6, <4>1, <4>2, WalkGoesOn
            <4> QED
                BY <4>3 DEF h
        <3>13. DeleteIsRight(r, steady'[c])
            BY <3>6, <3>12 DEF DeleteIsRight, Reading, Committing
        <3> QED
            BY <2>5, <3>3, <3>6, <3>13 DEF Requests
    <2>14. ASSUME NEW c \in Clients, DeletesFiles(c) PROVE RequestsType' /\ DeletesAreRight'
        <3>1. CASE Answers(c)
            BY <2>7, <3>1
        <3>2. CASE ~Answers(c)
            <4> DEFINE r == [op |-> req[c].op, mod |-> req[c].mod, pc |-> "commit"]
            <4>1. req' = [req EXCEPT ![c] = r] /\ req'[c] = r
                BY <2>14, <3>2 DEF DeletesFiles, RequestsType
            <4>2. req[c] \in Reading /\ Walked(req[c]) /\ ~SparesIt(c) /\ req[c].pc = "walk"
                  /\ Deletes(c)
                BY <2>14 DEF DeletesFiles, DeletesAt, Deletes, RequestsType, Requests, Idle, Committing
            <4>3. r \in Committing
                BY <4>2 DEF Reading, Committing
            <4>4. ASSUME r.op = "deleteRow" PROVE r.mod \notin Needs(steady'[c])
                <5>1. ~req[c].owned
                    BY <4>2, <4>4 DEF SparesIt, Spared
                <5>2. WalkIsRight(req[c], steady[c])
                    BY <4>2 DEF DeletesAreRight, DeleteIsRight
                <5>3. req[c].mod \notin Needs(steady[c])
                    BY <4>2, <5>1, <5>2, WalkEnds DEF RequestsType
                <5>4. Needs(steady'[c]) \subseteq Needs(steady[c])
                    BY <2>0, <2>1, <4>2, HistoryStep, NeedsShrink DEF RequestsType
                <5> QED
                    BY <5>3, <5>4
            <4>5. DeleteIsRight(r, steady'[c])
                BY <4>3, <4>4 DEF DeleteIsRight, Reading, Committing
            <4> QED
                BY <2>5, <4>1, <4>3, <4>5 DEF Requests
        <3> QED
            BY <3>1, <3>2
    <2> QED
        BY <2>0, <2>6, <2>7, <2>8, <2>9, <2>10, <2>11, <2>12, <2>13, <2>14
           DEF Moves, Works, SyncScans, SyncUpserts, SyncEnriches, SyncPrunes,
               DownloadBegins, EngineLands, Lands, EngineReady, ChecksClosure, LocalScans,
               LocalRefreshed, Stops, AddMod, Assigns, Packs, ServerLands, StartServer,
               ServerStops, Serves, RequestFails, DeleteRefused, CommitsLocal, DeletesRow
<1> QED
    BY <1>1, <1>2 DEF vars

(* IInv is an invariant: the rows stay well formed and agree, a scan is of   *)
(* mods, and a walk has missed nothing that was there all the time.         *)
THEOREM Inductive == Spec => []IInv
<1>1. Init => IInv
    BY DEF Init, IInv, RowsType, RowsAgree, RowStates, TasksScanMods, TaskShape, AtRest,
           RequestsType, Requests, Reading, Committing, History, NothingSteady,
           DeletesAreRight, DeleteIsRight, Idle, Rooted
<1>2. IInv /\ [Next]_vars => IInv'
    BY RowsStep, TasksStep, RequestsStep, RootedStep DEF IInv
<1> QED
    BY <1>1, <1>2, PTL DEF Spec

(* Scans, enrichments, downloads, resolutions and deletes, interleaved in   *)
(* any way, leave at most one edge between two mods, and every edge and     *)
(* mission with the row it belongs to (_upsert_local, enrich_one).          *)
THEOREM RowsStayWellFormed == Spec => []RowsAgree
<1>1. IInv => RowsAgree
    BY DEF IInv
<1> QED
    BY <1>1, Inductive, PTL

(* get_storage and the deletes read the references root by root; both say of *)
(* a mod what the one search from all of them would.                        *)
THEOREM StorageIsRight == Spec => []StorageAgrees
<1>1. ASSUME IInv PROVE StorageAgrees
    <2>1. \A m \in Mods : Owners(m, Named) # {} <=> m \in Closure(Named)
        BY <1>1, OwnersAre DEF IInv, Rooted, Named
    <2> QED
        BY <2>1 DEF StorageAgrees, Orphans, Unreferenced, KeptAsDependency, SparedNow, Spared
<1> QED
    BY <1>1, Inductive, PTL

-----------------------------------------------------------------------------
(* What a step may not do *)

NamedKept == \A s \in scenes : s.id = "named" => s \in scenes' \/ lib'[s.mod] = "none"

LEMMA NamedKeptStep ==
    ASSUME IInv, [Next]_vars
    PROVE  NamedKept
<1> USE DEF NamedKept
<1>1. CASE UNCHANGED scenes
    BY <1>1
<1>2. ASSUME NEW M, Upserts(M) PROVE NamedKept
    BY <1>2 DEF Upserts, UpsertedScenes
<1>3. ASSUME NEW m, Enriches(m) PROVE NamedKept
    BY <1>3 DEF Enriches, IInv, RowsType, Scenes
<1>4. ASSUME NEW c \in Clients, ResolveCaches(c) PROVE NamedKept
    BY <1>4 DEF ResolveCaches
<1>5. ASSUME NEW c \in Clients, DeletesRow(c) PROVE NamedKept
    BY <1>5 DEF DeletesRow, IInv, RowsType, Scenes
<1> QED
    BY <1>1, <1>2, <1>3, <1>4, <1>5
       DEF Next, Moves, vars, rows, Works, Serves, SyncScans, SyncUpserts, SyncEnriches,
           SyncPrunes, EnrichNotFound, DownloadBegins, EngineLands, Lands, EngineReady,
           ChecksClosure, LocalScans, LocalRefreshed, Stops, AddMod, Assigns, Packs,
           ServerLands, StartServer, ServerStops, ResolveReads, RequestFails, DeleteReads,
           ReadsAssigned, ReadsPacked, DeleteVisits, DeleteRefused, DeletesFiles, CommitsLocal

(* _upsert_local keeps its word: a mission the Workshop named is never      *)
(* turned back into a guess, nor lost, while its mod has a row.             *)
THEOREM NamedScenesStay == Spec => NamedScenesKept
<1>1. IInv /\ [Next]_vars => [NamedKept]_vars
    BY NamedKeptStep
<1> QED
    BY <1>1, Inductive, PTL DEF Spec, NamedScenesKept, NamedKept

NeededKept ==
    \A m \in Mods :
        /\ Known(m) /\ lib'[m] = "none" =>
             \E c \in Clients : req'[c] # req[c] /\ m \notin Needed(c)
        /\ HasDir(m) /\ disk'[m] = "absent" =>
             \E c \in Clients : req'[c] # req[c] /\ (m \in req[c].roots \/ m \notin Needed(c))

LEMMA NeededKeptStep ==
    ASSUME IInv, [Next]_vars
    PROVE  NeededKept
<1> USE DEF NeededKept, Known, HasDir
<1>1. CASE UNCHANGED <<disk, lib>>
    BY <1>1
<1>2. ASSUME UNCHANGED disk, \A m \in Mods : Known(m) => lib'[m] # "none" PROVE NeededKept
    BY <1>2
<1>3. ASSUME NEW t \in Tasks, Works(t) PROVE NeededKept
    BY <1>1, <1>2, <1>3
       DEF Works, SyncUpserts, SyncEnriches, SyncPrunes, EngineReady, ChecksClosure, LocalScans,
           LocalRefreshed, Upserts, Enriches, EnrichNotFound, CreatedRow, StubRow, Pruned,
           rows, IInv, RowsType, RowStates
<1>4. ASSUME NEW asked, NEW m, Lands(asked, m) PROVE NeededKept
    BY <1>4 DEF Lands, rows
<1>5. ASSUME NEW m \in Picked, AddMod(m) PROVE NeededKept
    BY <1>2, <1>5 DEF AddMod, Enriches, CreatedRow, StubRow
<1>6. ASSUME NEW c \in Clients, ResolveCaches(c) PROVE NeededKept
    BY <1>2, <1>6 DEF ResolveCaches, CreatedRow, IInv, RowsType
<1>7. ASSUME NEW c \in Clients, CommitsLocal(c) PROVE NeededKept
    BY <1>2, <1>7 DEF CommitsLocal
<1>8. ASSUME NEW c \in Clients PROVE Needed(c) = Needs(steady[c])
    BY DEF Needed, Needs, Steadily
<1>9. ASSUME NEW c \in Clients, DeletesFiles(c) PROVE NeededKept
    <2>1. req[c] \in Reading /\ Walked(req[c]) /\ ~SparesIt(c) /\ req[c].pc = "walk"
        BY <1>9 DEF DeletesFiles, DeletesAt, Deletes, IInv, RequestsType, Requests, Idle, Committing
    <2>2. WalkIsRight(req[c], steady[c])
        BY <2>1 DEF IInv, DeletesAreRight, DeleteIsRight
    <2>3. req[c].mod \in req[c].roots \/ ~req[c].owned
        BY <2>1 DEF SparesIt, Spared, Reading
    <2>4. req[c].mod \in req[c].roots \/ req[c].mod \notin Needed(c)
        BY <1>8, <2>1, <2>2, <2>3, WalkEnds DEF IInv, RequestsType
    <2>5. req'[c] # req[c]
        BY <1>9, <2>1 DEF DeletesFiles, Answers, Idle, IInv, RequestsType, Reading
    <2>6. UNCHANGED lib /\ \A m \in Mods : m # req[c].mod => disk'[m] = disk[m]
        BY <1>9 DEF DeletesFiles, rows
    <2> QED
        BY <2>4, <2>5, <2>6
<1>10. ASSUME NEW c \in Clients, DeletesRow(c) PROVE NeededKept
    <2>1. req[c] \in Committing /\ req[c].op = "deleteRow"
        BY <1>10 DEF DeletesRow, DeletesAt, Deletes, IInv, RequestsType, Requests, Idle, Reading
    <2>2. req[c].mod \notin Needed(c)
        BY <1>8, <2>1 DEF IInv, DeletesAreRight, DeleteIsRight
    <2>3. req'[c] # req[c]
        BY <1>10, <2>1 DEF DeletesRow, Answers, Idle, IInv, RequestsType, Committing
    <2>4. UNCHANGED disk /\ \A m \in Mods : m # req[c].mod => lib'[m] = lib[m]
        BY <1>10 DEF DeletesRow, IInv, RowsType
    <2> QED
        BY <2>2, <2>3, <2>4
<1> QED
    BY <1>1, <1>3, <1>4, <1>5, <1>6, <1>7, <1>9, <1>10
       DEF Next, Moves, vars, rows, Serves, SyncScans, DownloadBegins, EngineLands, Stops,
           Assigns, Packs, ServerLands, StartServer, ServerStops, ResolveReads, RequestFails,
           DeleteReads, ReadsAssigned, ReadsPacked, DeleteVisits, DeleteRefused

(* orphan_reference_sets and the two deletes of api/mods.py: a delete takes  *)
(* nothing that is needed by what was named, along edges that were there,   *)
(* from its first read to its last write, though it reads the roots one     *)
(* table and their closures one mod at a time, and mods are assigned,       *)
(* packed, synced, enriched, downloaded and deleted meanwhile.              *)
THEOREM NeededIsKept == Spec => NeededStays
<1>1. IInv /\ [Next]_vars => [NeededKept]_vars
    BY NeededKeptStep
<1> QED
    BY <1>1, Inductive, PTL DEF Spec, NeededStays, NeededKept
==============================================================================
