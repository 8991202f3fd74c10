------------------------------ MODULE EngineBuild ------------------------------
(***************************************************************************)
(* The engine row: the build that is installed, the latest one Steam has    *)
(* and the badge that says an update is available (steam/engine.py).  The   *)
(* row is written by the checks (POST /engine/check, the nightly cycle, the *)
(* one at startup) and at the end of an engine update; each works on what   *)
(* its own session loaded before it awaited the network or the database,    *)
(* and commits the columns it changed, whatever was committed meanwhile.    *)
(***************************************************************************)
EXTENDS Naturals

CONSTANTS
    Checkers,   \* sessions of refresh_engine that may overlap
    MaxBuild,   \* bound: the builds Steam publishes are 1..MaxBuild
    None        \* no session

ASSUME BuildAssumption == MaxBuild \in Nat \ {0}

Updater == "updater"        \* the session of on_engine_updated
Sessions == Checkers \cup {Updater}

ASSUME SessionsAssumption == Updater \notin Checkers

VARIABLES
    disk,       \* the build in the appmanifest, 0 when nothing is installed
    steam,      \* Steam's latest public build
    job,        \* the engine_update job: none, steamcmd, or ended with rc 0
    row,        \* the engine row; 0 stands for an unknown build
    seen        \* the row and the build on disk as each session read them

vars == <<disk, steam, job, row, seen>>

-----------------------------------------------------------------------------
Builds == 0..MaxBuild
Row == [installed : Builds, latest : Builds, avail : BOOLEAN]

(* seed_engine has written the build on disk, nothing has been looked up.   *)
Init ==
    /\ disk \in {0, 1}
    /\ steam = 1
    /\ job = "none"
    /\ row = [installed |-> disk, latest |-> 0, avail |-> FALSE]
    /\ seen = [x \in Sessions |-> None]

Badge(e) == e.installed # 0 /\ e.latest # 0 /\ e.installed # e.latest

(* Mutant of Reads: a missing manifest overwrites the build as well. *)
ReadsMissing(x) == seen' = [seen EXCEPT ![x] =
    [row |-> row, build |-> IF disk # 0 THEN disk ELSE None]]

(* The row is loaded, the manifest read and _set_installed_build applied.   *)
Reads(x) == seen' = [seen EXCEPT ![x] =
    [row |-> row, build |-> IF disk # 0 THEN disk ELSE row.installed]]

(* SQLAlchemy updates the columns whose value differs from the loaded one.  *)
Flush(x, new) ==
    LET old == seen[x].row
    IN  /\ row' = [f \in DOMAIN row |-> IF new[f] # old[f] THEN new[f] ELSE row[f]]
        /\ seen' = [seen EXCEPT ![x] = None]

Found(x, latest) == [installed |-> seen[x].build, latest |-> latest, avail |-> FALSE]

(* Mutant of WithBadge: the badge is set and never cleared. *)
WithBadgeKept(e) == [e EXCEPT !.avail = row.avail \/ Badge(e)]

WithBadge(e) == [e EXCEPT !.avail = Badge(e)]

-----------------------------------------------------------------------------
CheckBegins(c) ==
    /\ seen[c] = None
    /\ Reads(c)
    /\ UNCHANGED <<disk, steam, job, row>>

(* The lookup of the latest build answers, or fails and returns nothing.    *)
CheckEnds(c) ==
    /\ seen[c] # None
    /\ Flush(c, WithBadge(Found(c, steam)))
    /\ UNCHANGED <<disk, steam, job>>

CheckFails(c) ==
    /\ seen[c] # None
    /\ Flush(c, WithBadge(Found(c, seen[c].row.latest)))
    /\ UNCHANGED <<disk, steam, job>>

SteamReleases ==
    /\ steam < MaxBuild
    /\ steam' = steam + 1
    /\ UNCHANGED <<disk, job, row, seen>>

UpdateBegins ==
    /\ job = "none"
    /\ job' = "steamcmd"
    /\ UNCHANGED <<disk, steam, row, seen>>

(* steamcmd installs the latest build and exits with 0, or it fails.        *)
SteamcmdEnds ==
    /\ job = "steamcmd"
    /\ \/ job' = "report" /\ disk' = steam
       \/ job' = "none" /\ disk' = disk
    /\ UNCHANGED <<steam, row, seen>>

ReportBegins ==
    /\ job = "report" /\ seen[Updater] = None
    /\ Reads(Updater)
    /\ UNCHANGED <<disk, steam, job, row>>

(* mark_engine_updated: the latest build is the one the row already had.    *)
MarkEngineUpdated ==
    /\ seen[Updater] # None
    /\ Flush(Updater, WithBadge(Found(Updater, seen[Updater].row.latest)))
    /\ job' = "none"
    /\ UNCHANGED <<disk, steam>>

Next ==
    \/ \E c \in Checkers : CheckBegins(c) \/ CheckEnds(c) \/ CheckFails(c)
    \/ SteamReleases \/ UpdateBegins \/ SteamcmdEnds \/ ReportBegins \/ MarkEngineUpdated

Spec == Init /\ [][Next]_vars

(* The nightly cycle checks again and again; its lookup does not fail for   *)
(* ever; a job that was started ends.  No client has to update or to check. *)
Fairness ==
    /\ \A c \in Checkers : WF_vars(CheckBegins(c)) /\ SF_vars(CheckEnds(c))
    /\ WF_vars(SteamcmdEnds) /\ WF_vars(ReportBegins) /\ WF_vars(MarkEngineUpdated)

FairSpec == Spec /\ Fairness

-----------------------------------------------------------------------------
TypeOK ==
    /\ disk \in Builds /\ steam \in Builds
    /\ job \in {"none", "steamcmd", "report"}
    /\ row \in Row
    /\ seen \in [Sessions -> {None} \cup [row : Row, build : Builds]]

(* Whatever sessions overlapped, checks that go on put the row right and     *)
(* keep it so, once installing and releasing have stopped (refresh_engine   *)
(* reads the manifest and recomputes the badge every time).                 *)
Truthful ==
    /\ row.installed = disk
    /\ row.avail = (disk # 0 /\ disk # steam)

BadgeHeals == (<>[][UNCHANGED <<disk, steam, job>>]_vars) => <>[]Truthful

(* The badge is what its row says.  Two sessions that overlap can leave it  *)
(* wrong until the next check.                                              *)
BadgeAgrees == row.avail = Badge(row)

(* An engine update that installed the latest build clears the badge (the   *)
(* docstring of mark_engine_updated).  It sets the badge when the row's     *)
(* latest build is older than the one that was installed.                   *)
BadgeCleared == [][(MarkEngineUpdated /\ disk = steam) => ~row'.avail]_vars
===============================================================================
