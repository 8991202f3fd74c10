----------------------------- MODULE Supervisor -----------------------------
(***************************************************************************)
(* servers/supervisor.py and the handlers of api/servers.py and            *)
(* api/server_saves.py that reach it: one game process under an asyncio    *)
(* supervisor, its exit watcher, the scheduled restart, and the runtime    *)
(* columns of the servers table.                                           *)
(*                                                                         *)
(* Everything between two awaits is one action; start holds _lock over all *)
(* of its awaits, the watcher, stop and the other handlers hold nothing.   *)
(***************************************************************************)
EXTENDS Naturals

CONSTANTS
  Servers,         \* ids of the stored definitions
  Slots,           \* bound: processes not yet forgotten by their watchers
  Nobody,          \* Python's None for a server id or an ActiveServer
  Selections,      \* bound: save selections that clients choose from
  SlowCommits,     \* may start's commit outlast the watcher's half second?
  HastyRestarts,   \* may a definition be started again within that half second?
  MaxRestarts,     \* bound: ends of the backend process
  MaxDbFailures    \* bound: commits that raise

ASSUME SupervisorAssumption ==
  /\ Nobody \notin Servers /\ Nobody \notin Slots
  /\ "latest" \in Selections /\ Selections \subseteq {"latest", "once", "always"}
  /\ SlowCommits \in BOOLEAN /\ HastyRestarts \in BOOLEAN
  /\ MaxRestarts \in Nat /\ MaxDbFailures \in Nat

VARIABLES
  stored,      \* servers that have a row
  flagged,     \* rows with is_running
  lastState,   \* last_state of each row
  save,        \* its save selection: latest, or armed for one or every start
  start,       \* the start call that holds _lock
  owner,       \* server_id of the ActiveServer in each slot
  alive,       \* slots whose process has no returncode yet
  clean,       \* slots whose process exited with 0
  stopReq,     \* stop_requested, and what came of it
  watch,       \* where each slot's _watch_exit is suspended
  active,      \* _active
  schedule,    \* _restart_task
  deleting,    \* servers whose delete handler passed its check
  phase,       \* of the backend process
  restarts,    \* ends of the backend so far
  dbFailures   \* failed commits so far

rows == <<stored, flagged, lastState, save>>
procs == <<owner, alive, clean, stopReq, watch>>
vars == <<rows, start, procs, active, schedule, deleting, phase, restarts,
          dbFailures>>

LastStates == {"never", "running", "stopped", "crashed", "exited"}

\* "flagged" when stop_requested is set and nothing reached the process,
\* "told" after RCON #restart, "signalled" after the SIGTERM that a SIGKILL
\* follows.
StopRequests == {"no", "flagged", "told", "signalled"}

NoStart    == [at |-> "idle", server |-> Nobody, save |-> "latest", proc |-> Nobody]
NoSchedule == [at |-> "none", proc |-> Nobody]

Starting(at, s, sel, p) == [at |-> at, server |-> s, save |-> sel, proc |-> p]

IsRunning == active \in alive
Serves(s) == \E p \in alive : owner[p] = s

\* A process of s that ended and whose watcher has not written the row yet.
Draining(s) == \E p \in Slots : owner[p] = s /\ watch[p] = "draining"

DbFails == dbFailures < MaxDbFailures /\ dbFailures' = dbFailures + 1

\* The last reference to an ActiveServer is dropped, its slot is free again.
Forget(p) ==
  /\ owner' = [owner EXCEPT ![p] = Nobody]
  /\ clean' = clean \ {p}
  /\ stopReq' = [stopReq EXCEPT ![p] = "no"]
  /\ watch' = [watch EXCEPT ![p] = "none"]
  /\ UNCHANGED alive

Init ==
  /\ stored = Servers /\ flagged = {}
  /\ lastState = [s \in Servers |-> "never"]
  /\ save = [s \in Servers |-> "latest"]
  /\ start = NoStart
  /\ owner = [p \in Slots |-> Nobody] /\ alive = {} /\ clean = {}
  /\ stopReq = [p \in Slots |-> "no"] /\ watch = [p \in Slots |-> "none"]
  /\ active = Nobody /\ schedule = NoSchedule /\ deleting = {}
  /\ phase = "down" /\ restarts = 0 /\ dbFailures = 0
-----------------------------------------------------------------------------
(* Life of the backend process                                             *)

\* Mutant of Reconcile: the flags of the earlier backend's children stay.
ReconcileKeepsFlags ==
  /\ phase = "down" /\ phase' = "up"
  /\ UNCHANGED <<rows, start, procs, active, schedule, deleting, restarts,
                 dbFailures>>

\* reconcile_on_startup: the flags are of the children of an earlier backend.
Reconcile ==
  /\ phase = "down" /\ phase' = "up"
  /\ flagged' = {}
  /\ lastState' = [s \in Servers |-> IF s \in flagged THEN "exited" ELSE lastState[s]]
  /\ UNCHANGED <<stored, save, start, procs, active, schedule, deleting,
                 restarts, dbFailures>>

\* Shutdown or crash.  No handle on a child survives, and nothing is written.
BackendEnds ==
  /\ phase = "up" /\ restarts < MaxRestarts
  /\ phase' = "down" /\ restarts' = restarts + 1
  /\ start' = NoStart
  /\ owner' = [p \in Slots |-> Nobody] /\ alive' = {} /\ clean' = {}
  /\ stopReq' = [p \in Slots |-> "no"] /\ watch' = [p \in Slots |-> "none"]
  /\ active' = Nobody /\ schedule' = NoSchedule /\ deleting' = {}
  /\ UNCHANGED <<rows, dbFailures>>
-----------------------------------------------------------------------------
(* start                                                                   *)

\* Mutant of StartCall: only the database is asked whether a server runs.
StartCallAsksRowsOnly(s) ==
  /\ phase = "up" /\ start = NoStart
  /\ HastyRestarts \/ ~Draining(s)
  /\ start' = Starting("loading", s, "latest", Nobody)
  /\ UNCHANGED <<rows, procs, active, schedule, deleting, phase, restarts,
                 dbFailures>>

\* The lock is taken; with a live process the call is refused and changes
\* nothing.
StartCall(s) ==
  /\ phase = "up" /\ start = NoStart /\ ~IsRunning
  /\ HastyRestarts \/ ~Draining(s)
  /\ start' = Starting("loading", s, "latest", Nobody)
  /\ UNCHANGED <<rows, procs, active, schedule, deleting, phase, restarts,
                 dbFailures>>

\* First session: no other row may be flagged, the row is loaded with its
\* save selection.
StartLoad ==
  /\ start.at = "loading"
  /\ flagged \subseteq {start.server} /\ start.server \in stored
  /\ start' = Starting("configuring", start.server, save[start.server], Nobody)
  /\ UNCHANGED <<rows, procs, active, schedule, deleting, phase, restarts,
                 dbFailures>>

StartRefused ==
  /\ start.at = "loading"
  /\ ~(flagged \subseteq {start.server} /\ start.server \in stored)
  /\ start' = NoStart
  /\ UNCHANGED <<rows, procs, active, schedule, deleting, phase, restarts,
                 dbFailures>>

\* The config revision is committed; a pinned save that is not on disk any
\* more is dropped, whatever the selection became in the meantime.
StartConfigure ==
  /\ start.at = "configuring" /\ start.server \in stored
  /\ \/ /\ start' = Starting("spawning", start.server, start.save, Nobody)
        /\ UNCHANGED save
     \/ /\ start.save # "latest"
        /\ start' = Starting("spawning", start.server, "latest", Nobody)
        /\ save' = [save EXCEPT ![start.server] = "latest"]
  /\ UNCHANGED <<stored, flagged, lastState, procs, active, schedule, deleting,
                 phase, restarts, dbFailures>>

\* The row was deleted under the commit, the commit failed, the binary is
\* missing, or the spawn raised.
StartAborts ==
  /\ \/ start.at = "configuring" /\ start.server \notin stored
        /\ UNCHANGED dbFailures
     \/ start.at = "configuring" /\ DbFails
     \/ start.at = "spawning" /\ UNCHANGED dbFailures
  /\ start' = NoStart
  /\ UNCHANGED <<rows, procs, active, schedule, deleting, phase, restarts>>

StartSpawn(p) ==
  /\ start.at = "spawning" /\ watch[p] \in {"none", "failed"}
  /\ owner' = [owner EXCEPT ![p] = start.server]
  /\ alive' = alive \union {p} /\ clean' = clean \ {p}
  /\ stopReq' = [stopReq EXCEPT ![p] = "no"]
  /\ watch' = [watch EXCEPT ![p] = "waiting"]
  /\ active' = p
  /\ start' = Starting("marking", start.server, start.save, p)
  /\ UNCHANGED <<rows, schedule, deleting, phase, restarts, dbFailures>>

\* Mutant of StartMark: the row is written without asking whether it exists.
StartMarkUnchecked ==
  LET s == start.server IN
  /\ start.at = "marking"
  /\ flagged' = flagged \union {s}
  /\ lastState' = [lastState EXCEPT ![s] = "running"]
  /\ save' = [save EXCEPT ![s] = IF @ = "once" THEN "latest" ELSE @]
  /\ start' = NoStart
  /\ UNCHANGED <<stored, procs, active, schedule, deleting, phase, restarts,
                 dbFailures>>

\* Mutant of StartMark: only the first start of a definition flags its row.
StartMarkFirstTime ==
  LET s == start.server IN
  /\ start.at = "marking"
  /\ IF s \in stored /\ lastState[s] = "never"
     THEN /\ flagged' = flagged \union {s}
          /\ lastState' = [lastState EXCEPT ![s] = "running"]
          /\ save' = [save EXCEPT ![s] = IF @ = "once" THEN "latest" ELSE @]
     ELSE UNCHANGED <<flagged, lastState, save>>
  /\ start' = NoStart
  /\ UNCHANGED <<stored, procs, active, schedule, deleting, phase, restarts,
                 dbFailures>>

\* Second session: the flag is set and a selection armed for one start is used
\* up, as it stands by now.
StartMark ==
  LET s == start.server IN
  /\ start.at = "marking"
  /\ IF s \in stored
     THEN /\ flagged' = flagged \union {s}
          /\ lastState' = [lastState EXCEPT ![s] = "running"]
          /\ save' = [save EXCEPT ![s] = IF @ = "once" THEN "latest" ELSE @]
     ELSE UNCHANGED <<flagged, lastState, save>>
  /\ start' = NoStart
  /\ UNCHANGED <<stored, procs, active, schedule, deleting, phase, restarts,
                 dbFailures>>

\* The call answers with an error and leaves the process running unmarked.
StartMarkFails ==
  /\ start.at = "marking" /\ DbFails
  /\ start' = NoStart
  /\ UNCHANGED <<rows, procs, active, schedule, deleting, phase, restarts>>
-----------------------------------------------------------------------------
(* The process and _watch_exit                                             *)

\* Mutant of ProcessExits: the schedule of its server is not dropped.
ProcessExitsScheduled(p, rc) ==
  /\ p \in alive
  /\ alive' = alive \ {p}
  /\ clean' = IF rc = 0 THEN clean \union {p} ELSE clean
  /\ watch' = [watch EXCEPT ![p] = "draining"]
  /\ UNCHANGED <<rows, start, owner, stopReq, active, schedule, deleting, phase,
                 restarts, dbFailures>>

\* returncode is set and those who await the process are woken, which drops
\* the schedule of its server; then the watcher lets the log drain.
ProcessExits(p, rc) ==
  /\ p \in alive
  /\ alive' = alive \ {p}
  /\ clean' = IF rc = 0 THEN clean \union {p} ELSE clean
  /\ watch' = [watch EXCEPT ![p] = "draining"]
  /\ schedule' = IF schedule # NoSchedule /\ owner[schedule.proc] = owner[p]
                 THEN NoSchedule ELSE schedule
  /\ UNCHANGED <<rows, start, owner, stopReq, active, deleting, phase,
                 restarts, dbFailures>>

Outcome(p) ==
  IF stopReq[p] # "no" THEN "stopped"
  ELSE IF p \in clean THEN "exited" ELSE "crashed"

\* Mutant of WatchRecord: the watcher dies of a row that was deleted.
WatchRecordNeedsRow(p) ==
  LET s == owner[p] IN
  /\ watch[p] = "draining" /\ s \in stored
  /\ SlowCommits \/ ~(start.at = "marking" /\ start.proc = p)
  /\ flagged' = flagged \ {s}
  /\ lastState' = [lastState EXCEPT ![s] = Outcome(p)]
  /\ watch' = [watch EXCEPT ![p] = "closing"]
  /\ UNCHANGED <<stored, save, start, owner, alive, clean, stopReq, active,
                 schedule, deleting, phase, restarts, dbFailures>>

\* Mutant of WatchRecord: the outcome is written and the flag forgotten.
WatchRecordKeepsFlag(p) ==
  LET s == owner[p] IN
  /\ watch[p] = "draining"
  /\ lastState' = IF s \in stored THEN [lastState EXCEPT ![s] = Outcome(p)]
                  ELSE lastState
  /\ watch' = [watch EXCEPT ![p] = "closing"]
  /\ UNCHANGED <<stored, flagged, save, start, owner, alive, clean, stopReq,
                 active, schedule, deleting, phase, restarts, dbFailures>>

\* The half second is over: the row of the server, not of the process, is
\* closed.
WatchRecord(p) ==
  LET s == owner[p] IN
  /\ watch[p] = "draining"
  /\ SlowCommits \/ ~(start.at = "marking" /\ start.proc = p)
  /\ flagged' = flagged \ {s}
  /\ lastState' = IF s \in stored THEN [lastState EXCEPT ![s] = Outcome(p)]
                  ELSE lastState
  /\ watch' = [watch EXCEPT ![p] = "closing"]
  /\ UNCHANGED <<stored, save, start, owner, alive, clean, stopReq, active,
                 schedule, deleting, phase, restarts, dbFailures>>

\* The watcher dies of its commit and nobody retries: the flag and _active stay.
WatchRecordFails(p) ==
  /\ watch[p] = "draining" /\ DbFails
  /\ IF active = p
     THEN watch' = [watch EXCEPT ![p] = "failed"] /\ UNCHANGED <<owner, alive, clean, stopReq>>
     ELSE Forget(p)
  /\ UNCHANGED <<rows, start, active, schedule, deleting, phase, restarts>>

\* Mutant of WatchEnds: _active is cleared whatever process it holds by now.
WatchEndsBlindly(p) ==
  /\ watch[p] = "closing"
  /\ active' = Nobody
  /\ Forget(p)
  /\ UNCHANGED <<rows, start, schedule, deleting, phase, restarts, dbFailures>>

\* After the exit event is published.
WatchEnds(p) ==
  /\ watch[p] = "closing"
  /\ active' = IF active = p THEN Nobody ELSE active
  /\ Forget(p)
  /\ UNCHANGED <<rows, start, schedule, deleting, phase, restarts, dbFailures>>
-----------------------------------------------------------------------------
(* stop and the scheduled restart                                          *)

\* stop does not take the lock.  A process that is gone gets no signal, but
\* its stop_requested is set all the same.
StopCall(s) ==
  /\ phase = "up" /\ active # Nobody /\ owner[active] = s
  /\ stopReq' = [stopReq EXCEPT ![active] =
                   IF active \in alive THEN "signalled"
                   ELSE IF @ = "no" THEN "flagged" ELSE @]
  /\ UNCHANGED <<rows, start, owner, alive, clean, watch, active, schedule,
                 deleting, phase, restarts, dbFailures>>

\* Arming replaces (and cancels) the task there was, even one at its #restart.
ScheduleRestart(s) ==
  /\ phase = "up" /\ IsRunning /\ owner[active] = s
  /\ schedule' = [at |-> "armed", proc |-> active]
  /\ UNCHANGED <<rows, start, procs, active, deleting, phase, restarts,
                 dbFailures>>

CancelRestart(s) ==
  /\ phase = "up" /\ active # Nobody /\ owner[active] = s
  /\ schedule # NoSchedule
  /\ schedule' = NoSchedule
  /\ UNCHANGED <<rows, start, procs, active, deleting, phase, restarts,
                 dbFailures>>

\* T-0: the exit to come is declared intentional, then RCON is tried.
ScheduleFires ==
  LET p == schedule.proc IN
  /\ schedule.at = "armed"
  /\ IF active = p /\ p \in alive
     THEN /\ stopReq' = [stopReq EXCEPT ![p] = IF @ = "no" THEN "flagged" ELSE @]
          /\ schedule' = [at |-> "sending", proc |-> p]
     ELSE /\ schedule' = NoSchedule
          /\ UNCHANGED stopReq
  /\ UNCHANGED <<rows, start, owner, alive, clean, watch, active, deleting,
                 phase, restarts, dbFailures>>

\* The command reached the engine or it did not; the task ends in both cases.
RestartSent(delivered) ==
  LET p == schedule.proc IN
  /\ schedule.at = "sending"
  /\ stopReq' = [stopReq EXCEPT ![p] =
                   IF delivered /\ @ = "flagged" THEN "told" ELSE @]
  /\ schedule' = NoSchedule
  /\ UNCHANGED <<rows, start, owner, alive, clean, watch, active, deleting,
                 phase, restarts, dbFailures>>
-----------------------------------------------------------------------------
(* Other handlers that share these rows                                    *)

\* arm, arm-fresh, clear-selection and PATCH: allowed while the server runs.
Arm(s, selection) ==
  /\ phase = "up" /\ s \in stored
  /\ save' = [save EXCEPT ![s] = selection]
  /\ UNCHANGED <<stored, flagged, lastState, start, procs, active, schedule,
                 deleting, phase, restarts, dbFailures>>

DeleteCheck(s) ==
  /\ phase = "up" /\ s \in stored \ deleting
  /\ s \notin flagged
  /\ active # Nobody => owner[active] # s
  /\ deleting' = deleting \union {s}
  /\ UNCHANGED <<rows, start, procs, active, schedule, phase, restarts,
                 dbFailures>>

DeleteCommit(s) ==
  /\ s \in deleting
  /\ deleting' = deleting \ {s}
  /\ stored' = stored \ {s}
  /\ flagged' = flagged \ {s}
  /\ UNCHANGED <<lastState, save, start, procs, active, schedule, phase,
                 restarts, dbFailures>>
-----------------------------------------------------------------------------
StartStep ==
  \/ StartLoad \/ StartRefused \/ StartConfigure \/ StartAborts
  \/ \E p \in Slots : StartSpawn(p)
  \/ StartMark \/ StartMarkFails

WatchStep(p) == WatchRecord(p) \/ WatchRecordFails(p) \/ WatchEnds(p)

Request(s) ==
  \/ StartCall(s) \/ StopCall(s)
  \/ ScheduleRestart(s) \/ CancelRestart(s)
  \/ \E selection \in Selections : Arm(s, selection)
  \/ DeleteCheck(s) \/ DeleteCommit(s)

Next ==
  \/ Reconcile \/ BackendEnds
  \/ StartStep
  \/ \E p \in Slots :
       WatchStep(p) \/ \E rc \in {0, 1} : ProcessExits(p, rc)
  \/ ScheduleFires \/ \E delivered \in BOOLEAN : RestartSent(delivered)
  \/ \E s \in Servers : Request(s)

Spec == Init /\ [][Next]_vars

\* The event loop runs what is ready, the database answers, timers expire, and
\* SIGKILL works.  Nobody has to start, stop or restart anything.
Fairness ==
  /\ WF_vars(StartStep)
  /\ WF_vars(ScheduleFires) /\ WF_vars(\E delivered \in BOOLEAN : RestartSent(delivered))
  /\ \A p \in Slots :
       /\ WF_vars(WatchRecord(p) \/ WatchEnds(p))
       /\ WF_vars(stopReq[p] = "signalled" /\ \E rc \in {0, 1} : ProcessExits(p, rc))
  /\ \A s \in Servers : WF_vars(DeleteCommit(s))

FairSpec == Spec /\ Fairness
-----------------------------------------------------------------------------
(* Properties                                                              *)

\* Every variable of the supervisor stays within its type.
RowsType ==
  /\ stored \subseteq Servers /\ flagged \subseteq stored /\ deleting \subseteq stored
  /\ lastState \in [Servers -> LastStates]
  /\ save \in [Servers -> Selections]

StartType ==
  start \in {NoStart}
    \union [at : {"loading", "configuring", "spawning"}, server : Servers,
            save : Selections, proc : {Nobody}]
    \union [at : {"marking"}, server : Servers, save : Selections, proc : Slots]

ProcsType ==
  /\ owner \in [Slots -> Servers \union {Nobody}]
  /\ alive \subseteq Slots /\ clean \subseteq Slots
  /\ stopReq \in [Slots -> StopRequests]
  /\ watch \in [Slots -> {"none", "waiting", "draining", "closing", "failed"}]
  /\ active \in Slots \union {Nobody}
  /\ schedule \in {NoSchedule} \union [at : {"armed", "sending"}, proc : Slots]

ProcessType ==
  /\ phase \in {"up", "down"}
  /\ restarts \in 0 .. MaxRestarts /\ dbFailures \in 0 .. MaxDbFailures

TypeOK == RowsType /\ StartType /\ ProcsType /\ ProcessType

\* A live process is the one _active holds: no start, watcher or stop, in any
\* order, loses the handle on it.
AliveIsActive == alive \subseteq {active}

\* A restart scheduled for one process is never left to hit a later one.
ScheduleFollowsProcess ==
  schedule # NoSchedule => schedule.proc = active /\ active \in alive

\* The inductive invariant behind the theorems of SupervisorProofs: the call
\* that holds the lock found no process and nobody else starts one, and a
\* process is alive exactly while its watcher awaits it.
StartsAlone == start.at \in {"loading", "configuring", "spawning"} => alive = {}

WatcherAwaits ==
  \A p \in Slots :
    /\ p \in alive <=> watch[p] = "waiting"
    /\ watch[p] = "waiting" => owner[p] \in Servers

IInv ==
  TypeOK /\ AliveIsActive /\ ScheduleFollowsProcess /\ StartsAlone /\ WatcherAwaits

\* Seen from outside, definitions run one after the other and never two at
\* once, over failed starts, late watchers and ends of the backend.
Running ==
  IF alive = {} THEN Nobody ELSE owner[CHOOSE p \in alive : TRUE]

Rule == INSTANCE SingleServer WITH running <- Running

KeepsSingleServerRule == Rule!Spec

\* A flag that would refuse every other start has a process, or a watcher that
\* is about to clear it, behind it; provided start's commit is not outlasted by
\* the watcher's half second and commits work.
FlagHasProcess ==
  phase = "up" /\ dbFailures = 0 =>
    \A s \in flagged : \E p \in Slots :
      owner[p] = s /\ watch[p] \in {"waiting", "draining"}

\* A server that runs, once its start call returned, is flagged in its row,
\* provided nobody restarts it inside the watcher's half second, nobody deletes
\* its row while it starts, and commits work.
RunningIsFlagged ==
  \A p \in alive :
    start = NoStart /\ dbFailures = 0 /\ owner[p] \in stored => owner[p] \in flagged

\* stop works: a process sent a SIGTERM ends, and the manager then forgets it.
StopEndsProcess ==
  \A p \in Slots :
    stopReq[p] = "signalled" ~> watch[p] = "none" \/ dbFailures > 0

\* A server that is down does not stay flagged, whatever call it died under.
DeadIsUnflagged ==
  \A s \in Servers :
    s \in flagged /\ ~Serves(s) ~>
      s \notin flagged \/ Serves(s) \/ dbFailures > 0 \/ phase = "down"

\* Claimed by _run_restart_schedule ("The command is already on the wire; the
\* engine exits regardless"): what is recorded as stopped was told to stop.
StoppedWasTold ==
  [][\A s \in Servers :
        lastState[s] # "stopped" /\ lastState'[s] = "stopped" =>
          \E p \in Slots : owner[p] = s /\ stopReq[p] \in {"told", "signalled"}]_vars

\* Claimed by the arm handlers ("the next start loads that save", "reverts to
\* latest after one use"): start uses up the selection it launched with.
SelectionIsUsed ==
  [][\A s \in Servers :
        StartMark /\ save[s] # "latest" /\ save'[s] = "latest" => start.save = save[s]]_vars
=============================================================================
