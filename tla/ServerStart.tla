------------------------------ MODULE ServerStart ------------------------------
(***************************************************************************)
(* What a start asks the engine for, and everything that is to agree with   *)
(* it: the mods of config.json (servers/config_gen.py), the download of what *)
(* is missing (POST /servers/{id}/mods/ensure-ready), the update of all or   *)
(* of one server's mods (mods/updates.py) and the preflight report           *)
(* (servers/preflight.py), over one definition and the library it reads.     *)
(*                                                                         *)
(* A job is its queueing, the moment it reads its targets, and its end: the *)
(* races of a download with scans and with deletes are in Library, those of *)
(* requests that edit a definition in Definitions.  A version is a number,  *)
(* the newest release of the Workshop the highest; zero is none.            *)
(***************************************************************************)
EXTENDS Dependencies

CONSTANTS
    Mods,
    Gproj,      \* <<m, d>>: the files of m name d as a dependency
    Workshop,   \* <<m, d>>: the Workshop lists d as a dependency of m
    Listed,     \* the mods the Workshop resolves
    Unlisted,   \* those it resolves and marks unlisted, private or obsolete
    Moving,     \* the mods that get a second release
    Pinnable,   \* the mods users pin, to any release
    Declares,   \* Declares[m][v]: the game version that release v of m declares, 0 if
                \* it declares none or one that does not parse
    Layouts,    \* the mod lists users save: sequences of [mod, on]
    MaxDepth,   \* _MAX_DEPTH, 12: the search looks beyond the persisted edges of a mod
                \* at a lesser depth only
    MaxBuild    \* bound on the engine's versions

ASSUME GraphsAssumption == Gproj \subseteq Mods \X Mods /\ Workshop \subseteq Listed \X Mods
ASSUME ListedAssumption == Unlisted \subseteq Listed /\ Listed \subseteq Mods
ASSUME LayoutsAssumption ==
    /\ IsFiniteSet(Mods)
    /\ Layouts \subseteq Seq([mod : Mods, on : BOOLEAN])
ASSUME ReleasesAssumption == Declares \in [Mods -> [1..2 -> Nat]] /\ MaxBuild \in Nat \ {0}
ASSUME DepthAssumption == MaxDepth \in Nat \ {0}

VARIABLES
    disk,       \* the version in each mod's addon directory
    row,        \* the row of mods
    edges,      \* mod_dependencies
    libPin,     \* Mod.pinned_version
    layout,     \* the definition's mods in load order, with their enabled flag
    pin,        \* their ServerMod.pinned_version
    latest,     \* the newest release on the Workshop
    oldest,     \* the oldest one it still lists
    build,      \* the version of the installed engine
    engine,     \* Engine.installed_version, 0 if there is none
    job         \* the one download or update that is queued or runs

library == <<disk, row, edges>>
defs == <<libPin, layout, pin>>
releases == <<latest, oldest>>
engines == <<build, engine>>
vars == <<library, defs, releases, engines, job>>

-----------------------------------------------------------------------------
NoRow == [known |-> FALSE, local |-> FALSE, ok |-> FALSE, installed |-> 0]
RowsOfMods == [known : BOOLEAN, local : BOOLEAN, ok : BOOLEAN, installed : 0..2]
NoJob == [kind |-> "none"]

OnDisk(m) == disk[m] # 0
Declared(m) == {d \in Mods \ {m} : <<m, d>> \in Gproj}
ApiDeps(m) == {d \in Mods : <<m, d>> \in Workshop}
Children(m) == {d \in Mods : <<m, d>> \in edges}
Assigned == {layout[i].mod : i \in DOMAIN layout}
Enabled(m) == \E i \in DOMAIN layout : layout[i] = [mod |-> m, on |-> TRUE]
Roots == {m \in Mods : Enabled(m)}

Init ==
    /\ disk \in [Mods -> {0, 1}]
    /\ row = [m \in Mods |-> NoRow]
    /\ edges = {}
    /\ libPin = [m \in Mods |-> 0]
    /\ layout = <<>>
    /\ pin = [m \in Mods |-> 0]
    /\ latest = [m \in Mods |-> 1]
    /\ oldest = [m \in Mods |-> 1]
    /\ build = 1
    /\ engine = 0
    /\ job = NoJob

-----------------------------------------------------------------------------
(* resolve_dependencies, with the Workshop: its list and the persisted edges, *)
(* at a depth of MaxDepth or more the persisted edges alone.                *)

ChildrenWith(m, up) == Children(m) \cup (IF up /\ m \in Listed THEN ApiDeps(m) ELSE {})

UpTo(M, full) ==
    LET near == Near(M, full, MaxDepth)
    IN  [m \in Mods |-> IF m \in near THEN full[m] ELSE Children(m)]

Nodes(M, up) == Reach(M, UpTo(M, [m \in Mods |-> ChildrenWith(m, up)]))

-----------------------------------------------------------------------------
(* resolved_mod_entries *)

(* The persisted edges first, and the files of a mod that has none.         *)
Needs == [m \in Mods |-> IF Children(m) = {} /\ OnDisk(m) THEN Declared(m) ELSE Children(m)]

(* The mods whose files the search may look at, and the graph it finds.     *)
Nearby == Near(Roots, Needs, MaxDepth)

StartGraph == UpTo(Roots, Needs)

(* Mutant of Closure: a mod before what it needs.                           *)
ClosureParentsFirst == Reverse(Ordered(Reverse(layout), StartGraph))

Closure == Ordered(layout, StartGraph)

(* A dependency nobody assigned is listed if the library or the disk vouch. *)
Loadable(m) ==
    \/ row[m].local \/ row[m].ok
    \/ Children(m) = {} /\ OnDisk(m) /\ m \in Nearby

(* The mods of config.json, which lists them in the order of the closure.   *)
Entries == {m \in ToSet(Closure) : Enabled(m) \/ Loadable(m)}
Dropped == ToSet(Closure) \ Entries

(* Mutant of PinOf: the library's pin wins.                                 *)
PinOfLibrary(m) == IF libPin[m] # 0 THEN libPin[m] ELSE IF Enabled(m) THEN pin[m] ELSE 0

(* The pin of the assignment, else of the library, else none.               *)
PinOf(m) == IF Enabled(m) /\ pin[m] # 0 THEN pin[m] ELSE libPin[m]

-----------------------------------------------------------------------------
(* ensure_server_mods_ready, and the same predicate in ensure_mods_ready *)

Ready(m) == row[m].local /\ (PinOf(m) # 0 => row[m].installed = PinOf(m))
MissingMods == {m \in Entries : ~Ready(m)}

(* Mutant of PinsOf: the versions are not handed to the download.           *)
PinsOfNone(M) == [m \in M |-> 0]

PinsOf(M) == [m \in M |-> PinOf(m)]

(* enrich_one, of each mod of M: its row and its edges, and a row for every  *)
(* dependency, local if a directory of its name exists.                     *)
Stubbed(M, d) ==
    IF \E m \in M : d \in (ApiDeps(m) \cup Children(m)) \ {m}
    THEN [row[d] EXCEPT !.known = TRUE, !.local = @ \/ OnDisk(d)] ELSE row[d]

Enriches(M) ==
    /\ M \subseteq Listed
    /\ row' = [d \in Mods |-> LET r == Stubbed(M, d)
                              IN  IF d \in M THEN [r EXCEPT !.known = TRUE, !.ok = TRUE] ELSE r]
    /\ edges' = edges \cup {e \in Workshop : e[1] \in M}

(* Mod.size is set by a scan and by enrich_one, and is NULL until then.      *)
Unsized(want) == {m \in want : row[m].known /\ ~row[m].ok /\ row[m].installed = 0}

(* ensure_sizes enriches, best effort, what has no size and is not local.    *)
SizedNow(want) == {m \in Unsized(want) \cap Listed : ~row[m].local}

(* A size still unknown is a refusal, and so is a full disk, after the rows  *)
(* were committed.  A mod without a row counts as nothing.                  *)
EnqueueDownload(want, versions) ==
    /\ \E sized \in SUBSET SizedNow(want) :
         /\ Enriches(sized)
         /\ \/ UNCHANGED job
            \/ /\ Unsized(want) \subseteq sized
               /\ job' = [kind |-> "download", want |-> want, versions |-> versions]
    /\ UNCHANGED <<disk, defs, releases, engines>>

EnsureReady ==
    /\ job = NoJob
    /\ LET missing == MissingMods
       IN  missing # {} /\ EnqueueDownload(missing, PinsOf(missing))

-----------------------------------------------------------------------------
(* refresh_mods: the targets are read when the job runs *)

ApplyUpdates(scope) ==
    /\ job = NoJob
    /\ job' = [kind |-> "update", scope |-> scope]
    /\ UNCHANGED <<library, defs, releases, engines>>

(* Of all local mods with the library's pins, or of the definition's enabled *)
(* mods with theirs.  Of "all", the pins of definitions are looked up too,   *)
(* as a record that has no version.                                         *)
UpdateTargets(scope) ==
    IF scope = "all" THEN {m \in Mods : row[m].local} ELSE {m \in Assigned : Enabled(m) /\ row[m].known}

TargetPin(scope, m) == IF scope = "all" THEN libPin[m] ELSE PinOf(m)

UpdateLoads ==
    /\ job.kind = "update"
    /\ LET want == UpdateTargets(job.scope)
       IN  job' = IF want = {} THEN NoJob
                  ELSE [kind |-> "refresh", scope |-> job.scope, want |-> want,
                        versions |-> [m \in want |-> TargetPin(job.scope, m)]]
    /\ UNCHANGED <<library, defs, releases, engines>>

-----------------------------------------------------------------------------
(* The engine's downloader: each addon asked for at its pin or at its newest *)
(* release, and what their files name, which it may leave or bring up to     *)
(* date; then refresh_local_mods over what was asked for.                    *)

Along(M) == Reach(M, [m \in Mods |-> Declared(m)])

Running == job.kind \in {"download", "refresh"}
Target(m) == IF m \in job.want /\ job.versions[m] # 0 THEN job.versions[m] ELSE latest[m]

(* expected_closure, of a download only: what the Workshop or the library    *)
(* name and the engine's run left out is asked for once more.               *)
Retried(up) ==
    IF job.kind = "download"
    THEN {m \in Nodes(job.want, up) \ Along(job.want) : ~OnDisk(m)} ELSE {}

(* What is on disk once the engine brought the mods of got.                 *)
Brought(got) == [m \in Mods |-> IF m \in got THEN Target(m) ELSE disk[m]]
Fetchable(got) == \A m \in got : m \in Listed \/ disk[m] = Target(m)

(* refresh_local_mods: _upsert_local of those of M that a scan finds, which   *)
(* puts the edges of their files in place of all they had.                  *)
Recorded(M) ==
    [m \in Mods |-> IF m \in M /\ disk'[m] # 0
        THEN [row[m] EXCEPT !.known = TRUE, !.local = TRUE, !.installed = disk'[m]]
        ELSE row[m]]

RecordedEdges(M) ==
    LET seen == {m \in M : disk'[m] # 0}
    IN  {e \in edges : e[1] \notin seen} \cup {e \in Gproj : e[1] \in seen /\ e[1] # e[2]}

JobLands ==
    /\ Running
    /\ \E up \in BOOLEAN :
         LET asked == job.want \cup Retried(up)
             along == Along(asked)
         IN  \E got \in SUBSET along :
               /\ asked \cup {m \in along : ~OnDisk(m)} \subseteq got
               /\ Fetchable(got)
               /\ disk' = Brought(got)
               /\ row' = Recorded(asked)
               /\ edges' = RecordedEdges(asked)
    /\ job' = NoJob
    /\ UNCHANGED <<defs, releases, engines>>

(* Cancelled, or short of one addon: what came stays on disk, unrecorded.   *)
JobFails ==
    /\ job # NoJob
    /\ job' = NoJob
    /\ IF Running
       THEN \E got \in SUBSET Along(job.want) : Fetchable(got) /\ disk' = Brought(got)
       ELSE UNCHANGED disk
    /\ UNCHANGED <<row, edges, defs, releases, engines>>

-----------------------------------------------------------------------------
(* preflight: the checks that block; the rest only warn *)

(* The release a start loads: the pin of the assignment, of the library, or  *)
(* the newest one.                                                          *)
Starts(m) == IF PinOf(m) # 0 THEN PinOf(m) ELSE latest[m]

(* The release the report judges: that one, if the Workshop still lists it,  *)
(* else the first of its list, which is the newest.                         *)
Releases(m) == oldest[m]..latest[m]
Selected(m) == IF Starts(m) \in Releases(m) THEN Starts(m) ELSE latest[m]

(* Mutant of VersionCompat: an older release blocks, a newer one warns.     *)
VersionCompatSwapped(declared) ==
    IF engine = 0 \/ declared = 0 THEN "warn"
    ELSE IF declared < engine THEN "blocked" ELSE IF declared > engine THEN "warn" ELSE "ok"

(* An engine whose version is not known, or a release that declares none,    *)
(* only warns.                                                              *)
VersionCompat(declared) ==
    IF engine = 0 \/ declared = 0 THEN "warn"
    ELSE IF declared > engine THEN "blocked" ELSE IF declared < engine THEN "warn" ELSE "ok"

(* An addon the Workshop does not resolve, one it flags that is not local    *)
(* yet, and one that needs a newer engine.  Offline nothing is known.       *)
BlockedAddons(up) ==
    {m \in Nodes(Roots, up) :
        /\ up
        /\ \/ m \notin Listed
           \/ m \in Unlisted /\ ~row[m].local
           \/ m \in Listed /\ VersionCompat(Declares[m][Selected(m)]) = "blocked"}

(* The known sizes of what is not local against the free space.             *)
SpaceBlocks(up, fits) == ~fits /\ \E m \in Nodes(Roots, up) : ~row[m].local

Blocked(up, fits) == BlockedAddons(up) # {} \/ SpaceBlocks(up, fits)

-----------------------------------------------------------------------------
(* What else changes the library and the definition *)

(* mod_sync, in one step: what is on disk, and what the Workshop says of     *)
(* those it answers for.                                                    *)
ModSync ==
    /\ UNCHANGED disk
    /\ LET seen == {m \in Mods : OnDisk(m)}
       IN  \E asked \in SUBSET (seen \cap Listed) :
             LET new == RecordedEdges(Mods) \cup {e \in Workshop : e[1] \in asked}
                 rec == Recorded(Mods)
             IN  /\ edges' = new
                 /\ row' = [m \in Mods |->
                      [known |-> rec[m].known \/ \E n \in asked : <<n, m>> \in new,
                       local |-> m \in seen, ok |-> rec[m].ok \/ m \in asked,
                       installed |-> rec[m].installed]]
    /\ UNCHANGED <<defs, releases, engines, job>>

AddMod(m) ==
    /\ m \in Listed /\ Enriches({m})
    /\ UNCHANGED <<disk, defs, releases, engines, job>>

(* PATCH: mods that stay keep their pin.                                    *)
SaveLayout(l) ==
    /\ layout' = l
    /\ pin' = [m \in Mods |-> IF \E i \in DOMAIN l : l[i].mod = m THEN pin[m] ELSE 0]
    /\ UNCHANGED <<library, libPin, releases, engines, job>>

PinServerMod(m, v) ==
    /\ m \in Assigned
    /\ pin' = [pin EXCEPT ![m] = v]
    /\ UNCHANGED <<library, libPin, layout, releases, engines, job>>

PinMod(m, v) ==
    /\ row[m].known
    /\ libPin' = [libPin EXCEPT ![m] = v]
    /\ UNCHANGED <<library, layout, pin, releases, engines, job>>

Publishes(m) ==
    /\ latest[m] = 1
    /\ latest' = [latest EXCEPT ![m] = 2]
    /\ UNCHANGED <<library, defs, oldest, engines, job>>

Withdraws(m) ==
    /\ oldest[m] < latest[m]
    /\ oldest' = [oldest EXCEPT ![m] = latest[m]]
    /\ UNCHANGED <<library, defs, latest, engines, job>>

(* A new build discards the version, unless the table has one for it, if the *)
(* update finds what it installed.                                          *)
EngineUpdated ==
    /\ build < MaxBuild
    /\ build' = build + 1
    /\ engine' \in {0, engine, build'}
    /\ UNCHANGED <<library, defs, releases, job>>

(* A later look that finds another build than the row's, or no version.     *)
EngineSeen ==
    /\ engine' \in {0, build}
    /\ UNCHANGED <<library, defs, releases, build, job>>

(* The watcher of a server that ended reads the version out of its log: of    *)
(* this build, or of one before, if the update overtook it.                 *)
VersionScraped ==
    /\ engine' \in 1..build
    /\ UNCHANGED <<library, defs, releases, build, job>>

Next ==
    \/ EnsureReady \/ UpdateLoads \/ JobLands \/ JobFails \/ ModSync
    \/ EngineUpdated \/ EngineSeen \/ VersionScraped
    \/ \E scope \in {"all", "server"} : ApplyUpdates(scope)
    \/ \E m \in Mods : AddMod(m)
    \/ \E m \in Pinnable : \E v \in 0..latest[m] : PinServerMod(m, v) \/ PinMod(m, v)
    \/ \E m \in Moving : Publishes(m) \/ Withdraws(m)
    \/ \E l \in Layouts : SaveLayout(l)

Spec == Init /\ [][Next]_vars

-----------------------------------------------------------------------------
(* Properties *)

(* A version is none, or one of the two releases; the version on record is   *)
(* one the engine has or had.                                               *)
TypeOK ==
    /\ disk \in [Mods -> 0..2] /\ row \in [Mods -> RowsOfMods]
    /\ edges \subseteq Mods \X Mods
    /\ libPin \in [Mods -> 0..2] /\ pin \in [Mods -> 0..2] /\ latest \in [Mods -> 1..2]
    /\ oldest \in [Mods -> 1..2]
    /\ layout \in Seq([mod : Mods, on : BOOLEAN])
    /\ build \in 1..MaxBuild /\ engine \in 0..build
    /\ Running => /\ job.want \subseteq Mods
                  /\ job.versions \in [job.want -> 0..2]

(* The list of mods of config.json holds every enabled mod; the visit it is   *)
(* made from reaches each mod once, with all it needs, and after each one it *)
(* needs that does not lead back to it, for every library and disk and every *)
(* order of the user's.  What a mod needs are its persisted edges, and what   *)
(* its files name if it has none and is nearer than MaxDepth: resolved_mod_   *)
(* entries promises no more.  Where every mod is, that is all it needs.      *)
Whole(graph) == IsClosed(ToSet(Closure), graph) /\ InOrder(Closure, graph)
ConfigOrdered ==
    /\ Roots \subseteq Entries
    /\ Whole(StartGraph)
    /\ Reach(Roots, Needs) \subseteq Nearby => Whole(Needs)

(* Asking for what is missing comes to an end: with downloads that succeed   *)
(* and nothing else, POST mods/ensure-ready has nothing left to ask for.  Its *)
(* predicate reads the rows the download writes back, at the versions the    *)
(* list of config.json names.                                               *)
Asks == job = NoJob /\ job'.kind = "download"
Landed == /\ job.kind = "download" /\ job' = NoJob
          /\ \A m \in job.want : row'[m].local /\ row'[m].installed = Target(m)
EnsureSettles == ~(<>[][Asks \/ Landed]_vars /\ []<><<Landed>>_vars)

(* A landed update leaves the addons it was told to on their pins, when      *)
(* nothing was edited since it read its targets: of a server, each enabled   *)
(* mod on the definition's pin, or else the library's, which is the version  *)
(* its config.json asks for; of everything, each local mod on the library's. *)
AsLoaded ==
    /\ job.want = UpdateTargets(job.scope)
    /\ job.versions = [m \in job.want |-> TargetPin(job.scope, m)]

PinsKept ==
    [][(job.kind = "refresh" /\ AsLoaded /\ JobLands) => \A m \in Mods :
         /\ job.scope = "server" /\ Enabled(m) /\ row[m].known =>
              /\ pin[m] # 0 => disk'[m] = pin[m]
              /\ pin[m] = 0 /\ libPin[m] # 0 => disk'[m] = libPin[m]
         /\ job.scope = "all" /\ row[m].local /\ libPin[m] # 0 => disk'[m] = libPin[m]]_vars

(* What preflight does not block can be started: with the Workshop up and a  *)
(* library that holds the dependencies the files on disk name, each mod of   *)
(* config.json is on disk or on the Workshop, and what the start loads is     *)
(* built for no newer engine than the installed one, provided the version on *)
(* record is not missing and the release is listed and declares one.  The     *)
(* report walks another graph than the start, and its engine version may be  *)
(* one behind.                                                              *)
UnblockedCanStart ==
    LET scanned == \A m \in Mods : OnDisk(m) => \A d \in Declared(m) : <<m, d>> \in edges
        unblocked == ~Blocked(TRUE, TRUE)
        judged(m) == engine # 0 /\ Starts(m) \in Releases(m)
    IN  scanned /\ unblocked =>
          \A m \in Entries :
             /\ OnDisk(m) \/ m \in Listed
             /\ judged(m) => Declares[m][Starts(m)] <= build

-----------------------------------------------------------------------------
(* What the source says and the program does not do *)

(* "A global cache update must not overwrite a version pinned by any enabled *)
(* server definition" (mods/updates.py:132): the record that holds the pins  *)
(* of the definitions has no version, so the mod is asked for at its newest. *)
EnabledPinsHonoured ==
    [][UpdateLoads => \A m \in Mods :
         /\ job'.kind = "refresh" /\ m \in job'.want
         /\ Enabled(m) /\ pin[m] # 0 /\ libPin[m] = 0
         /\ disk[m] = pin[m] /\ latest[m] # pin[m]
         => job'.versions[m] = pin[m]]_vars

(* "a dependency that cannot be loaded at all (no local dir, unresolvable on *)
(* the Workshop) is dropped" (config_gen.py:176): so is one the Workshop      *)
(* resolves, while its row is the stub that enriching its parent left.       *)
DroppedIsUnresolvable ==
    (\A m \in Mods : Enabled(m) => row[m].ok) => \A m \in Dropped : ~OnDisk(m) /\ m \notin Listed
================================================================================
