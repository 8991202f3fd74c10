----------------------------- MODULE Installation -----------------------------
(***************************************************************************)
(* The engine install and the addon cache: the bodies of the jobs that      *)
(* change them (steam/steamcmd.py, mods/downloader.py, mods/verify.py,      *)
(* mods/updates.py and the factories of main.py), the nightly check that    *)
(* runs the same bodies outside the job queue (mods/schedule.py), and       *)
(* PATCH /settings, which replaces the nightly scheduler (api/settings.py,  *)
(* main.py).  Module EngineBuild has the engine row.                        *)
(*                                                                         *)
(* The job manager is reduced to its one worker, the supervisor to whether  *)
(* a server process runs; modules JobManager and Supervisor have the rest.  *)
(* What a tool does to the addon cache is left out, what counts here is     *)
(* which processes are alive beside which others, and who knows of them.    *)
(***************************************************************************)
EXTENDS Naturals, FiniteSets, Sequences

CONSTANTS
    Worker,         \* the job manager's worker task
    Schedulers,     \* instances of NightlyCheckScheduler that exist at once
    Patches,        \* concurrent requests of PATCH /settings
    Askers,         \* concurrent requests of POST /engine/update
    MaxQueue,       \* bound on the jobs waiting for the worker
    MaxTools,       \* bound on the tools alive at once
    Overlaps,       \* which overlaps the code leaves open are let happen:
                    \*   "patch"   two changes of the settings at the same time
    None            \* no scheduler

ASSUME RunnersAssumption == Worker \notin Schedulers /\ None \notin Schedulers

VARIABLES
    running,    \* supervisor.is_running()
    asking,     \* POST /engine/update of each client: the look at the server is
                \* "fresh", or "crossed" by a server that was started since
    queue,      \* the queued jobs: their kinds and whether their look is crossed
    task,       \* what the worker and each nightly task are executing
    cancels,    \* cancellations sent to a task and not yet raised in it
    kids,       \* the live child processes
    installed,  \* the engine's binary exists
    enabled,    \* app_settings.nightly_check_enabled
    current,    \* main.nightly_scheduler
    held,       \* NightlyCheckScheduler._task of each instance is set
    patch       \* the request of each client of PATCH /settings

nightly == <<enabled, current, held, patch>>
vars == <<running, asking, queue, task, cancels, kids, installed, nightly>>

-----------------------------------------------------------------------------
(* The job kinds something enqueues *)
Kinds == {"engine_update", "mod_download", "mod_update_apply", "verify_repair"}

Runners == {Worker} \cup Schedulers

(* A task at rest: the worker waits for a job, a scheduler has no task.     *)
(* "crossed" says that a server was started since the body, or the request  *)
(* that queued it, looked for one.                                          *)
AtRest == [kind |-> "none", pc |-> "rest", after |-> "rest", tries |-> 0,
           crossed |-> FALSE]

(* "spawn" is where a check for a running server lies behind a body;        *)
(* "steamcmd", "info", "follow" and "verify" read what a process writes,    *)
(* "drain" and "reap" wait for one that was told to end, "reap" with a time *)
(* limit.                                                                   *)
Watching == {"steamcmd", "info", "follow", "verify"}
Steps == Watching \cup {"rest", "sleep", "begin", "refresh", "download", "spawn", "drain",
                        "reap", "closure", "local", "report", "sync"}
Tools == {"steamcmd", "appinfo", "addons", "verify"}

Live(s) == task[s].pc # "rest"

(* The processes of a body, which it did not leave alone when it ended:     *)
(* those it has not told to end, and the others.                            *)
Own(r) == {k \in kids : k.by = r /\ k.left = "no" /\ ~k.told}
Told(r) == {k \in kids : k.by = r /\ k.left = "no" /\ k.told}

Goes(r, pc) == task' = [task EXCEPT ![r].pc = pc]

(* A body that returns or raises: the worker takes the next job, the        *)
(* nightly loop sleeps until its next cycle, however the last one went.     *)
Returns(r) == task' = [task EXCEPT ![r] =
    IF r = Worker THEN AtRest ELSE [AtRest EXCEPT !.kind = "nightly", !.pc = "sleep"]]

(* CancelledError is not caught: it ends the nightly loop as well.          *)
Stops(r) == task' = [task EXCEPT ![r] = AtRest]

Ends(r, how) == IF how = "cancelled" THEN Stops(r) ELSE Returns(r)

(* A new process, behind the look its body, or the request, had made.       *)
Spawns(r, tool, pc) ==
    /\ Cardinality(kids) < MaxTools
    /\ kids' = kids \cup {[tool |-> tool, by |-> r, told |-> FALSE, left |-> "no",
                           crossed |-> task[r].crossed]}
    /\ task' = [task EXCEPT ![r].pc = pc, ![r].crossed = FALSE]

(* SIGTERM; the caller then waits for the process at pc. *)
Terminates(r, pc, after) ==
    /\ kids' = (kids \ Own(r)) \cup {[k EXCEPT !.told = TRUE] : k \in Own(r)}
    /\ task' = [task EXCEPT ![r].pc = pc, ![r].after = after]

NightlyTask == [AtRest EXCEPT !.kind = "nightly", !.pc = "sleep"]

Init ==
    /\ running = FALSE
    /\ asking = [a \in Askers |-> "idle"]
    /\ queue = <<>>
    /\ cancels = [r \in Runners |-> 0]
    /\ kids = {}
    /\ installed \in BOOLEAN
    /\ enabled \in BOOLEAN
    /\ current \in IF enabled THEN Schedulers ELSE {None}
    /\ task = [r \in Runners |-> IF r = current THEN NightlyTask ELSE AtRest]
    /\ held = [s \in Schedulers |-> s = current]
    /\ patch = [p \in Patches |-> [pc |-> "idle", want |-> FALSE, who |-> None]]

-----------------------------------------------------------------------------
(* The server and the job queue *)

(* Between a look at the supervisor and the process spawned behind it: an   *)
(* engine update does not look again.                                       *)
Looked(r) ==
    \/ task[r].pc = "spawn"
    \/ r = Worker /\ task[r].kind = "engine_update" /\ task[r].pc = "begin"

(* start_server looks at no job and at no child process: every look made    *)
(* before it is crossed.                                                    *)
StartServer ==
    /\ ~running
    /\ running' = TRUE
    /\ asking' = [a \in Askers |-> IF asking[a] = "idle" THEN "idle" ELSE "crossed"]
    /\ queue' = [i \in DOMAIN queue |->
                    [queue[i] EXCEPT !.crossed = (queue[i].kind = "engine_update")]]
    /\ task' = [r \in Runners |->
                   [task[r] EXCEPT !.crossed = task[r].crossed \/ Looked(r)]]
    /\ kids' = {[k EXCEPT !.crossed = TRUE] : k \in kids}
    /\ UNCHANGED <<cancels, installed, nightly>>

ServerStops ==
    /\ running
    /\ running' = FALSE
    /\ UNCHANGED <<asking, queue, task, cancels, kids, installed, nightly>>

(* POST /engine/update asks whether a server runs, once, ...                *)
UpdateAsks(a) ==
    /\ asking[a] = "idle" /\ ~running
    /\ asking' = [asking EXCEPT ![a] = "fresh"]
    /\ UNCHANGED <<running, queue, task, cancels, kids, installed, nightly>>

(* ... and queues the job when the sessions after it are done.              *)
UpdateEnqueues(a) ==
    /\ asking[a] # "idle" /\ Len(queue) < MaxQueue
    /\ queue' = Append(queue, [kind |-> "engine_update", crossed |-> asking[a] = "crossed"])
    /\ asking' = [asking EXCEPT ![a] = "idle"]
    /\ UNCHANGED <<running, task, cancels, kids, installed, nightly>>

(* A row says that a server runs, or a session failed. *)
UpdateFails(a) ==
    /\ asking[a] # "idle"
    /\ asking' = [asking EXCEPT ![a] = "idle"]
    /\ UNCHANGED <<running, queue, task, cancels, kids, installed, nightly>>

(* The requests that queue the other kinds ask for no server. *)
Enqueue(k) ==
    /\ Len(queue) < MaxQueue
    /\ queue' = Append(queue, [kind |-> k, crossed |-> FALSE])
    /\ UNCHANGED <<running, asking, task, cancels, kids, installed, nightly>>

TakeJob ==
    /\ queue # <<>>
    /\ task[Worker] = AtRest
    /\ queue' = Tail(queue)
    /\ task' = [task EXCEPT ![Worker] = [AtRest EXCEPT
           !.kind = Head(queue).kind, !.pc = "begin", !.crossed = Head(queue).crossed]]
    /\ cancels' = [cancels EXCEPT ![Worker] = 0]
    /\ UNCHANGED <<running, asking, kids, installed, nightly>>

(* A client or the watchdog cancels the job; both may, one after the other. *)
RequestCancel ==
    /\ task[Worker].pc # "rest"
    /\ cancels[Worker] = 0
    /\ cancels' = [cancels EXCEPT ![Worker] = 1]
    /\ UNCHANGED <<running, asking, queue, task, kids, installed, nightly>>

(* A process ends by itself, or when it was told to; steamcmd may have      *)
(* installed the engine.                                                    *)
ToolExits(k) ==
    /\ k \in kids
    /\ kids' = kids \ {k}
    /\ installed' \in IF k.tool = "steamcmd" THEN {installed, TRUE} ELSE {installed}
    /\ UNCHANGED <<running, asking, queue, task, cancels, nightly>>

-----------------------------------------------------------------------------
(* engine_update *)

(* What the steps of a body leave alone: but for task and kids. *)
Elsewhere == UNCHANGED <<running, asking, queue, cancels, installed, nightly>>

At(r, pc) == task[r].pc = pc

UpdateBegins ==
    /\ At(Worker, "begin") /\ task[Worker].kind = "engine_update"
    /\ Spawns(Worker, "steamcmd", "steamcmd")
    /\ Elsewhere

(* The output ends with the process; an exit code other than 0 fails.       *)
SteamcmdEnds ==
    /\ At(Worker, "steamcmd") /\ Own(Worker) = {}
    /\ Goes(Worker, "report") \/ Returns(Worker)
    /\ UNCHANGED kids /\ Elsewhere

(* on_engine_updated writes the engine row and reads the servers and pins.  *)
Reports ==
    /\ At(Worker, "report")
    /\ Returns(Worker)
    /\ UNCHANGED kids /\ Elsewhere

-----------------------------------------------------------------------------
(* mod_download, mod_update_apply and the nightly cycle: the downloader *)

CycleBegins(s) ==
    /\ At(s, "sleep")
    /\ Goes(s, "refresh")
    /\ UNCHANGED kids /\ Elsewhere

Begins(s) == task' = [task EXCEPT ![s].pc = "begin", ![s].tries = 0]

(* refresh_engine has the newest build from the web, or gives up on it.     *)
CycleRefreshes(s) ==
    /\ At(s, "refresh") /\ task[s].tries \in {0, 2}
    /\ Begins(s)
    /\ UNCHANGED kids /\ Elsewhere

(* The fallback of fetch_latest_build: app_info_print, at most twice. *)
AsksSteam(s) ==
    /\ At(s, "refresh") /\ task[s].tries < 2
    /\ Spawns(s, "appinfo", "info")
    /\ Elsewhere

(* It could not be spawned, or ended without an answer. *)
AsksInVain(s) ==
    /\ At(s, "refresh") \/ (At(s, "info") /\ Own(s) = {})
    /\ task[s].tries < 2
    /\ task' = [task EXCEPT ![s].pc = "refresh", ![s].tries = @ + 1]
    /\ UNCHANGED kids /\ Elsewhere

SteamAnswers(s) ==
    /\ At(s, "info") /\ Own(s) = {}
    /\ Begins(s)
    /\ UNCHANGED kids /\ Elsewhere

(* With no addon to download a job is over; the cycle goes on to mod_sync.  *)
NothingToDownload(r) ==
    /\ At(r, "begin") /\ task[r].kind \in {"mod_download", "mod_update_apply", "nightly"}
    /\ IF r = Worker THEN Returns(r) ELSE Goes(r, "sync")
    /\ UNCHANGED kids /\ Elsewhere

DownloadBegins(r) ==
    /\ At(r, "begin") /\ task[r].kind \in {"mod_download", "mod_update_apply", "nightly"}
    /\ Goes(r, "download")
    /\ UNCHANGED kids /\ Elsewhere

(* Mutant of Refused: only the binary is looked for. *)
RefusedWithoutEngine == ~installed

(* _run_engine and run_verify_repair refuse to work beside a server, and    *)
(* without the engine.                                                      *)
Refused == running \/ ~installed

ChecksServer(r) ==
    /\ At(r, "download") \/ (At(r, "begin") /\ task[r].kind = "verify_repair")
    /\ IF Refused THEN Returns(r) ELSE Goes(r, "spawn")
    /\ UNCHANGED kids /\ Elsewhere

(* Both tools are the server's own binary, run without a server's profile.  *)
SpawnsTool(r) ==
    /\ At(r, "spawn")
    /\ IF task[r].kind = "verify_repair"
         THEN Spawns(r, "verify", "verify")
         ELSE Spawns(r, "addons", "follow")
    /\ Elsewhere

(* The ready line: the engine would run on, so it is stopped. *)
DownloadReady(r) ==
    /\ At(r, "follow")
    /\ Terminates(r, "reap", IF task[r].kind = "mod_download" THEN "closure" ELSE "local")
    /\ Elsewhere

(* A fatal line or the time limit: this wait for the process has no limit.  *)
DownloadFails(r) ==
    /\ At(r, "follow")
    /\ Terminates(r, "drain", "raise")
    /\ Elsewhere

(* The engine was gone before it wrote the ready line, or after a fatal one. *)
DownloadEnds(r) ==
    /\ \/ At(r, "follow") /\ Own(r) = {}
       \/ At(r, "drain") /\ Told(r) = {}
    /\ Returns(r)
    /\ UNCHANGED kids /\ Elsewhere

(* SIGTERM was not enough within the limit: SIGKILL, which always is.       *)
Reaps(r) ==
    /\ At(r, "reap")
    /\ kids' = kids \ Told(r)
    /\ IF task[r].after \in {"raise", "cancelled"}
         THEN Ends(r, task[r].after)
         ELSE Goes(r, task[r].after)
    /\ Elsewhere

(* Mutant of Retries: as long as addons are missing. *)
RetriesAlways(r) == task[r].tries \in Nat

(* The addons of the closure that are not on disk are asked for once more.  *)
Retries(r) == task[r].tries = 0

ClosureIncomplete(r) ==
    /\ At(r, "closure")
    /\ IF Retries(r)
         THEN task' = [task EXCEPT ![r].pc = "download", ![r].tries = @ + 1]
         ELSE Returns(r)
    /\ UNCHANGED kids /\ Elsewhere

ClosureComplete(r) ==
    /\ At(r, "closure")
    /\ Goes(r, "local")
    /\ UNCHANGED kids /\ Elsewhere

(* refresh_local_mods; the cycle goes on to mod_sync. *)
LocalRefreshed(r) ==
    /\ At(r, "local")
    /\ IF r = Worker THEN Returns(r) ELSE Goes(r, "sync")
    /\ UNCHANGED kids /\ Elsewhere

CycleEnds(s) ==
    /\ At(s, "sync")
    /\ Returns(s)
    /\ UNCHANGED kids /\ Elsewhere

-----------------------------------------------------------------------------
(* verify_repair *)

VerifyEnds(r) ==
    /\ At(r, "verify") /\ Own(r) = {}
    /\ Returns(r)
    /\ UNCHANGED kids /\ Elsewhere

(* A fatal line, or no log within the limit: _stop_process. *)
VerifyFails(r) ==
    /\ At(r, "verify")
    /\ Terminates(r, "reap", "raise")
    /\ Elsewhere

-----------------------------------------------------------------------------
(* A body is interrupted where it awaits: by an exception of what it calls  *)
(* ("raise"), or by its cancellation.                                       *)

(* Mutant of Reaped: the downloader's handler is for Exception only. *)
ReapedOnError(r, how) ==
    \/ task[r].pc \in {"follow", "drain"} /\ how = "raise"
    \/ At(r, "verify") /\ how = "cancelled"

(* Which bodies stop their process before they pass the interruption on:    *)
(* the downloader always, verify_repair only when it is cancelled, the      *)
(* engine update never.                                                     *)
Reaped(r, how) ==
    \/ task[r].pc \in {"follow", "drain"}
    \/ At(r, "verify") /\ how = "cancelled"

(* The second _stop_process of the handlers around the first one *)
ReapedAgain(r) ==
    /\ At(r, "reap")
    /\ \/ task[r].after \in {"closure", "local"}
       \/ task[r].kind = "verify_repair" /\ task[r].after = "raise"

(* Nothing stops the process then: it is left alone. *)
Abandons(r, how) ==
    kids' = (kids \ (Own(r) \cup Told(r)))
              \cup {[k EXCEPT !.left = how] : k \in Own(r) \cup Told(r)}

Interrupted(r, how) ==
    /\ IF Reaped(r, how) \/ ReapedAgain(r)
         THEN Terminates(r, "reap", how)
         ELSE Ends(r, how) /\ Abandons(r, how)
    /\ UNCHANGED <<running, asking, queue, installed, nightly>>

(* Progress is committed and the log written all the time: each may fail.   *)
(* At rest, between cycles and in a bounded wait nothing is called; what    *)
(* app_info_print raises is caught.                                         *)
Raises(r) ==
    /\ task[r].pc \notin {"rest", "sleep", "info", "spawn", "drain", "reap", "local"}
    /\ Interrupted(r, "raise")
    /\ UNCHANGED cancels

(* Mutant of Cancelled: the cycle catches every exception. *)
CancelledInCycle(r) ==
    /\ cancels[r] > 0 /\ task[r].pc # "rest"
    /\ cancels' = [cancels EXCEPT ![r] = 0]
    /\ Interrupted(r, IF r = Worker \/ At(r, "sleep") THEN "cancelled" ELSE "raise")

Cancelled(r) ==
    /\ cancels[r] > 0 /\ task[r].pc # "rest"
    /\ cancels' = [cancels EXCEPT ![r] = 0]
    /\ Interrupted(r, "cancelled")

-----------------------------------------------------------------------------
(* PATCH /settings *)

Serves(p) == UNCHANGED <<running, asking, queue, kids, installed>>

(* The row is committed; a change of the hour alone replaces the scheduler, *)
(* too, a PATCH of the other settings does not.                             *)
PatchSettings(p, want) ==
    /\ patch[p].pc = "idle"
    /\ "patch" \in Overlaps \/ \A q \in Patches : patch[q].pc = "idle"
    /\ enabled' = want
    /\ patch' = [patch EXCEPT ![p] = [pc |-> "apply", want |-> want, who |-> current]]
    /\ UNCHANGED <<task, cancels, current, held>> /\ Serves(p)

(* Mutant of StopNightly: the task is cancelled and not waited for. *)
StopNightlyLater(p) ==
    LET s == patch[p].who
        stopping == s # None /\ held[s] /\ Live(s)
    IN  /\ patch[p].pc = "apply"
        /\ held' = IF s # None THEN [held EXCEPT ![s] = FALSE] ELSE held
        /\ cancels' = IF stopping THEN [cancels EXCEPT ![s] = 1] ELSE cancels
        /\ patch' = [patch EXCEPT ![p].pc = "create"]
        /\ UNCHANGED <<task, enabled, current>> /\ Serves(p)

(* stop() forgets the task, cancels it and waits for it. *)
StopNightly(p) ==
    LET s == patch[p].who
        stopping == s # None /\ held[s] /\ Live(s)
    IN  /\ patch[p].pc = "apply"
        /\ held' = IF s # None THEN [held EXCEPT ![s] = FALSE] ELSE held
        /\ cancels' = IF stopping THEN [cancels EXCEPT ![s] = 1] ELSE cancels
        /\ patch' = [patch EXCEPT ![p].pc = IF stopping THEN "stopping" ELSE "create"]
        /\ UNCHANGED <<task, enabled, current>> /\ Serves(p)

NightlyStopped(p) ==
    /\ patch[p].pc = "stopping" /\ ~Live(patch[p].who)
    /\ patch' = [patch EXCEPT ![p].pc = "create"]
    /\ UNCHANGED <<task, cancels, enabled, current, held>> /\ Serves(p)

Unused == {s \in Schedulers : ~Live(s) /\ \A q \in Patches : patch[q].who # s}

CreateNightly(p) ==
    /\ patch[p].pc = "create"
    /\ patch' = [patch EXCEPT ![p] = [pc |-> "idle", want |-> FALSE, who |-> None]]
    /\ IF patch[p].want
         THEN \E s \in Unused :
                /\ current' = s
                /\ held' = [held EXCEPT ![s] = TRUE]
                /\ task' = [task EXCEPT ![s] = NightlyTask]
                /\ cancels' = [cancels EXCEPT ![s] = 0]
         ELSE /\ current' = None
              /\ UNCHANGED <<held, task, cancels>>
    /\ UNCHANGED enabled /\ Serves(p)

-----------------------------------------------------------------------------
(* What a runner does by itself, but for waking up and being interrupted. *)
Proceeds(r) ==
    \/ NothingToDownload(r) \/ DownloadBegins(r) \/ ChecksServer(r) \/ SpawnsTool(r)
    \/ DownloadReady(r) \/ DownloadFails(r) \/ DownloadEnds(r) \/ Reaps(r)
    \/ ClosureIncomplete(r) \/ ClosureComplete(r) \/ LocalRefreshed(r)
    \/ VerifyEnds(r) \/ VerifyFails(r)

Cycle(s) ==
    \/ CycleBegins(s) \/ CycleRefreshes(s) \/ AsksSteam(s) \/ AsksInVain(s)
    \/ SteamAnswers(s) \/ CycleEnds(s)

Ask(a) == UpdateAsks(a) \/ UpdateEnqueues(a) \/ UpdateFails(a)

Serve(p) == StopNightly(p) \/ NightlyStopped(p) \/ CreateNightly(p)

Next ==
    \/ StartServer \/ ServerStops \/ TakeJob \/ RequestCancel
    \/ \E a \in Askers : Ask(a)
    \/ \E k \in Kinds \ {"engine_update"} : Enqueue(k)
    \/ \E k \in kids : ToolExits(k)
    \/ UpdateBegins \/ SteamcmdEnds \/ Reports
    \/ \E s \in Schedulers : Cycle(s)
    \/ \E r \in Runners : Proceeds(r) \/ Raises(r) \/ Cancelled(r)
    \/ \E p \in Patches : Serve(p) \/ \E want \in BOOLEAN : PatchSettings(p, want)

Spec == Init /\ [][Next]_vars

(* A cancellation is raised where the task awaits; a bounded wait for a     *)
(* process ends; a request goes on when what it awaits is done.             *)
Fairness ==
    /\ \A s \in Schedulers : WF_vars(Cancelled(s)) /\ WF_vars(Reaps(s))
    /\ \A p \in Patches : WF_vars(Serve(p))

FairSpec == Spec /\ Fairness

-----------------------------------------------------------------------------
Kid == [tool : Tools, by : Runners, told : BOOLEAN, left : {"no", "raise", "cancelled"},
        crossed : BOOLEAN]

TypeOK ==
    /\ running \in BOOLEAN
    /\ asking \in [Askers -> {"idle", "fresh", "crossed"}]
    /\ \A i \in DOMAIN queue : queue[i] \in [kind : Kinds, crossed : BOOLEAN]
    /\ Len(queue) <= MaxQueue
    /\ task \in [Runners -> [kind : Kinds \cup {"none", "nightly"}, pc : Steps,
                             after : {"rest", "raise", "cancelled", "closure", "local"},
                             tries : 0..2, crossed : BOOLEAN]]
    /\ cancels \in [Runners -> 0..1]
    /\ \A k \in kids : k \in Kid
    /\ installed \in BOOLEAN
    /\ enabled \in BOOLEAN
    /\ current \in Schedulers \cup {None}
    /\ held \in [Schedulers -> BOOLEAN]
    /\ patch \in [Patches -> [pc : {"idle", "apply", "stopping", "create"},
                              want : BOOLEAN, who : Schedulers \cup {None}]]

(* Beside a running server a tool works on the installation only when the   *)
(* server was started after the look behind the tool, of its body or of the *)
(* request that queued it: the queue, a retry and the next cycle never      *)
(* carry an old look past a server that was already there                   *)
(* (_run_engine, run_verify_repair, update_engine).                         *)
ServerAlone == running => \A k \in kids : k.crossed \/ k.tool = "appinfo"

(* The code stops no steamcmd whose reader is interrupted, and no           *)
(* verification that raises.                                                *)
Unhandled(k) == k.tool \in {"steamcmd", "appinfo"} \/ (k.tool = "verify" /\ k.left = "raise")

(* Any other process that was not told to end is read by its body: whatever *)
(* interrupts the body, and however often, it does not forget one           *)
(* (mods/downloader.py, except BaseException; mods/verify.py, except        *)
(* CancelledError).                                                         *)
ToolsReaped == \A k \in kids : ~k.told =>
    IF k.left = "no" THEN task[k.by].pc \in Watching ELSE Unhandled(k)

(* When no PATCH is in progress exactly the scheduler the settings ask for  *)
(* is alive, and main.nightly_scheduler is the one (apply_nightly_settings).*)
SchedulerFollowsSettings ==
    (\A p \in Patches : patch[p].pc = "idle") =>
        /\ {s \in Schedulers : Live(s)} = IF enabled THEN {current} ELSE {}
        /\ ~enabled => current = None

(* The request that replaces the scheduler is answered: a cycle in flight   *)
(* lets itself be cancelled, wherever it is, and its process is reaped.     *)
PatchEnds == \A p \in Patches : patch[p].pc = "apply" ~> patch[p].pc = "idle"

===============================================================================
