-------------------------- MODULE InstallationProofs --------------------------
(***************************************************************************)
(* Theorems about Installation, for any number of nightly schedulers, of    *)
(* requests, of queued jobs and of tools.                                   *)
(***************************************************************************)
EXTENDS Installation, SequenceTheorems, TLAPS

USE RunnersAssumption

TaskRecord == [kind : Kinds \cup {"none", "nightly"}, pc : Steps,
               after : {"rest", "raise", "cancelled", "closure", "local"}, tries : 0..2,
               crossed : BOOLEAN]

Item == [kind : Kinds, crossed : BOOLEAN]

Shape ==
    /\ queue \in Seq(Item)
    /\ kids \subseteq Kid
    /\ task \in [Runners -> TaskRecord]
    /\ asking \in [Askers -> {"idle", "fresh", "crossed"}]

(* Where the body that spawned a tool reads it. *)
Reader == [tool \in Tools |->
    CASE tool = "steamcmd" -> "steamcmd" [] tool = "appinfo" -> "info"
      [] tool = "addons" -> "follow" [] tool = "verify" -> "verify"]

(* What makes ToolsReaped inductive: a process nobody told to end is read   *)
(* by the body of its kind.                                                 *)
AllRead == \A k \in kids : ~k.told =>
    IF k.left = "no" THEN task[k.by].pc = Reader[k.tool] ELSE Unhandled(k)

(* What makes ServerAlone inductive: beside a running server every look     *)
(* made before is crossed, wherever it is on its way to a process.          *)
LooksCross == running =>
    /\ \A a \in Askers : asking[a] # "fresh"
    /\ \A i \in DOMAIN queue : queue[i].kind = "engine_update" => queue[i].crossed
    /\ \A r \in Runners : Looked(r) => task[r].crossed

-----------------------------------------------------------------------------
(* What the steps make of a task and of its processes *)

LEMMA RunnersAre == Worker \in Runners /\ Schedulers \subseteq Runners /\ Worker \notin Schedulers
BY DEF Runners

LEMMA ReaderIs ==
    /\ Reader["steamcmd"] = "steamcmd" /\ Reader["appinfo"] = "info"
    /\ Reader["addons"] = "follow" /\ Reader["verify"] = "verify"
    /\ \A tool \in Tools : Reader[tool] \in Watching
BY DEF Reader, Tools, Watching

LEMMA AtRestIs ==
    /\ AtRest \in TaskRecord /\ AtRest.pc = "rest" /\ ~AtRest.crossed
    /\ NightlyTask \in TaskRecord /\ NightlyTask.pc = "sleep" /\ ~NightlyTask.crossed
<1>1. AtRest \in TaskRecord /\ AtRest.pc = "rest" /\ ~AtRest.crossed
    BY DEF AtRest, TaskRecord, Steps
<1> QED
    BY <1>1 DEF NightlyTask, TaskRecord, Steps

(* A step of one runner sets its own task, to a record at pc.               *)
Moves(r, pcs) ==
    \E t \in TaskRecord : t.pc \in pcs /\ task' = [task EXCEPT ![r] = t]

LEMMA GoesMoves ==
    ASSUME Shape, NEW r \in Runners, NEW pc \in Steps, Goes(r, pc)
    PROVE  Moves(r, {pc})
<1>1. [task[r] EXCEPT !.pc = pc] \in TaskRecord
    BY DEF Shape, TaskRecord
<1> QED
    BY <1>1 DEF Goes, Moves, TaskRecord, Shape

LEMMA ReturnsMoves ==
    ASSUME NEW r \in Runners, Returns(r) \/ Stops(r)
    PROVE  Moves(r, {"rest", "sleep"})
<1>1. [AtRest EXCEPT !.kind = "nightly", !.pc = "sleep"] = NightlyTask
    BY DEF NightlyTask, AtRest
<1> QED
    BY <1>1, AtRestIs DEF Returns, Stops, Moves

LEMMA EndsMoves ==
    ASSUME NEW r \in Runners, NEW how, Ends(r, how)
    PROVE  Moves(r, {"rest", "sleep"})
BY ReturnsMoves DEF Ends

LEMMA BeginsMoves ==
    ASSUME Shape, NEW r \in Runners, Begins(r)
    PROVE  Moves(r, {"begin"})
<1>1. [task[r] EXCEPT !.pc = "begin", !.tries = 0] \in TaskRecord
    <2>1. task[r] \in TaskRecord /\ "begin" \in Steps /\ 0 \in 0..2
        BY DEF Shape, Steps
    <2> QED
        BY <2>1 DEF TaskRecord
<1>2. task' = [task EXCEPT ![r] = [task[r] EXCEPT !.pc = "begin", !.tries = 0]]
    BY DEF Begins
<1> QED
    BY <1>1, <1>2 DEF Moves, TaskRecord, Shape

(* What a step of a runner r makes of the processes when it spawns none:    *)
(* those of the others stay, or end; its own were told, or are left alone   *)
(* where the code has no handler; the looks behind them are the old ones.   *)
Tidy(r) ==
    /\ kids' \subseteq Kid
    /\ \A k \in kids' : IF k.by = r THEN k.told \/ (k.left # "no" /\ Unhandled(k)) ELSE k \in kids
    /\ \A k \in kids' : \E o \in kids : o.tool = k.tool /\ o.crossed = k.crossed

(* A body that reads no process has none that was not told to end.          *)
LEMMA NoneIsOwn ==
    ASSUME Shape, AllRead, NEW r \in Runners, task[r].pc \notin Watching
    PROVE  Own(r) = {}
<1> SUFFICES ASSUME NEW k \in Own(r) PROVE FALSE
    OBVIOUS
<1>1. k \in kids /\ k.by = r /\ k.left = "no" /\ ~k.told /\ k.tool \in Tools
    BY DEF Own, Shape, Kid
<1> QED
    BY <1>1, ReaderIs DEF AllRead

LEMMA EndedIsTidy ==
    ASSUME Shape, AllRead, NEW r \in Runners, Own(r) = {}, kids' \subseteq kids
    PROVE  Tidy(r)
<1>1. ASSUME NEW k \in kids', k.by = r, ~k.told PROVE k.left # "no" /\ Unhandled(k)
    <2>1. k \in kids /\ k \notin Own(r)
        OBVIOUS
    <2>2. k.left # "no"
        BY <1>1, <2>1 DEF Own
    <2> QED
        BY <1>1, <2>1, <2>2 DEF AllRead
<1> QED
    BY <1>1 DEF Tidy, Shape

LEMMA TerminatesIs ==
    ASSUME Shape, AllRead, NEW r \in Runners, NEW pc \in {"reap", "drain"},
           NEW after \in {"raise", "cancelled", "closure", "local"}, Terminates(r, pc, after)
    PROVE  Moves(r, {"reap", "drain"}) /\ Tidy(r)
<1>1. [task[r] EXCEPT !.pc = pc, !.after = after] \in TaskRecord
    BY DEF Shape, TaskRecord, Steps
<1>2. task' = [task EXCEPT ![r] = [task[r] EXCEPT !.pc = pc, !.after = after]]
    BY DEF Terminates
<1>3. Moves(r, {"reap", "drain"})
    BY <1>1, <1>2 DEF Moves, TaskRecord, Shape
<1>4. kids \subseteq Kid
    BY DEF Shape
<1>5. ASSUME NEW o \in kids
      PROVE  LET k == [o EXCEPT !.told = TRUE]
             IN  k \in Kid /\ k.told /\ k.by = o.by /\ k.tool = o.tool /\ k.crossed = o.crossed
    BY <1>4 DEF Kid
<1>6. ASSUME NEW k \in kids'
      PROVE  \/ k \in kids /\ k \notin Own(r)
             \/ \E o \in Own(r) : k = [o EXCEPT !.told = TRUE]
    BY DEF Terminates
<1>7. ASSUME NEW k \in kids'
      PROVE  /\ k \in Kid /\ \E o \in kids : o.tool = k.tool /\ o.crossed = k.crossed
             /\ IF k.by = r THEN k.told \/ (k.left # "no" /\ Unhandled(k)) ELSE k \in kids
    <2>1. CASE k \in kids /\ k \notin Own(r)
        BY <1>4, <2>1 DEF Own, AllRead
    <2>2. CASE \E o \in Own(r) : k = [o EXCEPT !.told = TRUE]
        BY <1>5, <2>2 DEF Own
    <2> QED
        BY <1>6, <2>1, <2>2
<1> QED
    BY <1>3, <1>7 DEF Tidy

LEMMA AbandonsIs ==
    ASSUME Shape, AllRead, NEW r \in Runners, NEW how \in {"raise", "cancelled"},
           Abandons(r, how), ~Reaped(r, how)
    PROVE  Tidy(r)
<1> DEFINE Mine == Own(r) \cup Told(r)
<1>1. kids \subseteq Kid
    BY DEF Shape
<1>2. ASSUME NEW o \in kids
      PROVE  LET k == [o EXCEPT !.left = how]
             IN  /\ k \in Kid /\ k.left = how /\ k.told = o.told /\ k.by = o.by
                 /\ k.tool = o.tool /\ k.crossed = o.crossed
    BY <1>1 DEF Kid
<1>3. ASSUME NEW k \in kids' PROVE \/ k \in kids /\ k \notin Mine
                                   \/ \E o \in Mine : k = [o EXCEPT !.left = how]
    BY DEF Abandons
<1>4. ASSUME NEW o \in Own(r) PROVE o.tool \in {"steamcmd", "appinfo"}
                                      \/ (o.tool = "verify" /\ how = "raise")
    <2>1. o.tool \in Tools /\ task[r].pc = Reader[o.tool]
        BY <1>1 DEF Own, AllRead, Kid
    <2> QED
        BY <2>1, ReaderIs DEF Reaped, At, Tools
<1>5. ASSUME NEW k \in kids'
      PROVE  /\ k \in Kid /\ \E o \in kids : o.tool = k.tool /\ o.crossed = k.crossed
             /\ IF k.by = r THEN k.told \/ (k.left # "no" /\ Unhandled(k)) ELSE k \in kids
    <2>1. CASE k \in kids /\ k \notin Mine
        BY <1>1, <2>1 DEF Own, Told, AllRead, Kid
    <2>2. ASSUME NEW o \in Mine, k = [o EXCEPT !.left = how] PROVE k.by = r /\ (k.told \/ Unhandled(k))
        <3>1. k.left = how /\ k.told = o.told /\ k.by = o.by /\ k.tool = o.tool /\ o.by = r
            BY <1>2, <2>2 DEF Own, Told
        <3> QED
            BY <1>4, <3>1 DEF Own, Told, Unhandled
    <2>3. CASE \E o \in Mine : k = [o EXCEPT !.left = how]
        BY <1>2, <2>2, <2>3 DEF Own, Told
    <2> QED
        BY <1>3, <2>1, <2>3
<1> QED
    BY <1>5 DEF Tidy

-----------------------------------------------------------------------------
(* The kinds of steps *)

Calm == Steps \ (Watching \cup {"spawn", "begin"})

(* A step of a runner spawns nothing: it looks at the supervisor, begins a  *)
(* cycle's download, or comes to where no look matters; or it spawns a tool *)
(* behind a look, or one that does not need it.                             *)
Works(r) ==
    \/ Tidy(r) /\ \/ Moves(r, Calm)
                  \/ ~running /\ Moves(r, {"spawn"})
                  \/ r \in Schedulers /\ Moves(r, {"begin"})
    \/ \E tool \in Tools :
         /\ Spawns(r, tool, Reader[tool])
         /\ task[r].pc \notin Watching
         /\ Looked(r) \/ tool = "appinfo"

LEMMA ProceedsIs ==
    ASSUME Shape, AllRead, NEW r \in Runners, Proceeds(r)
    PROVE  Elsewhere /\ Works(r)
<1> USE DEF At
<1>1. CASE NothingToDownload(r)
    <2>1. Moves(r, Calm)
        BY <1>1, ReturnsMoves, GoesMoves DEF NothingToDownload, Calm, Watching, Steps, Moves
    <2>2. Tidy(r)
        BY <1>1, NoneIsOwn, EndedIsTidy DEF NothingToDownload, Watching
    <2> QED
        BY <1>1, <2>1, <2>2 DEF NothingToDownload, Works
<1>2. CASE DownloadBegins(r)
    <2>1. Moves(r, Calm)
        BY <1>2, GoesMoves DEF DownloadBegins, Calm, Watching, Steps, Moves
    <2>2. Tidy(r)
        BY <1>2, NoneIsOwn, EndedIsTidy DEF DownloadBegins, Watching
    <2> QED
        BY <1>2, <2>1, <2>2 DEF DownloadBegins, Works
<1>3. CASE ChecksServer(r)
    <2>1. Moves(r, Calm) \/ (~running /\ Moves(r, {"spawn"}))
        BY <1>3, GoesMoves, ReturnsMoves DEF ChecksServer, Refused, Calm, Watching, Steps, Moves
    <2>2. Tidy(r)
        BY <1>3, NoneIsOwn, EndedIsTidy DEF ChecksServer, Watching
    <2> QED
        BY <1>3, <2>1, <2>2 DEF ChecksServer, Works
<1>4. CASE SpawnsTool(r)
    BY <1>4, ReaderIs DEF SpawnsTool, Works, Tools, Looked, Watching
<1>5. CASE DownloadReady(r) \/ DownloadFails(r) \/ VerifyFails(r)
    <2>1. Elsewhere /\ Tidy(r) /\ Moves(r, {"reap", "drain"})
        BY <1>5, TerminatesIs DEF DownloadReady, DownloadFails, VerifyFails
    <2> QED
        BY <2>1 DEF Works, Moves, Calm, Watching, Steps
<1>6. CASE DownloadEnds(r) \/ VerifyEnds(r)
    <2>1. Elsewhere /\ UNCHANGED kids /\ Moves(r, {"rest", "sleep"})
        BY <1>6, ReturnsMoves DEF DownloadEnds, VerifyEnds
    <2>2. Own(r) = {}
        BY <1>6, NoneIsOwn DEF DownloadEnds, VerifyEnds, Watching
    <2> QED
        BY <2>1, <2>2, EndedIsTidy DEF Works, Calm, Watching, Steps, Moves
<1>7. CASE Reaps(r)
    <2>1. Elsewhere /\ kids' \subseteq kids /\ task[r].pc = "reap"
        BY <1>7 DEF Reaps
    <2>2. Moves(r, Calm)
        BY <1>7, EndsMoves, GoesMoves DEF Reaps, Calm, Watching, Steps, Moves, Shape, TaskRecord
    <2> QED
        BY <2>1, <2>2, NoneIsOwn, EndedIsTidy DEF Works, Watching
<1>8. CASE ClosureIncomplete(r)
    <2>0. Elsewhere /\ Tidy(r)
        BY <1>8, NoneIsOwn, EndedIsTidy DEF ClosureIncomplete, Watching
    <2>1. CASE Retries(r)
        <3>1. [task[r] EXCEPT !.pc = "download", !.tries = @ + 1] \in TaskRecord
            <4>1. task[r].tries + 1 \in 0..2
                BY <2>1 DEF Retries
            <4> QED
                BY <4>1 DEF Shape, TaskRecord, Steps
        <3>2. task' = [task EXCEPT ![r] = [task[r] EXCEPT !.pc = "download", !.tries = @ + 1]]
            BY <1>8, <2>1 DEF ClosureIncomplete
        <3>3. Moves(r, Calm)
            BY <3>1, <3>2 DEF Moves, Calm, Watching, Steps, Shape, TaskRecord
        <3> QED
            BY <2>0, <3>3 DEF Works
    <2>2. CASE ~Retries(r)
        BY <1>8, <2>0, <2>2, ReturnsMoves DEF ClosureIncomplete, Works, Calm, Watching, Steps, Moves
    <2> QED
        BY <2>1, <2>2
<1>9. CASE ClosureComplete(r) \/ LocalRefreshed(r)
    <2>1. Moves(r, Calm)
        BY <1>9, GoesMoves, ReturnsMoves
           DEF ClosureComplete, LocalRefreshed, Calm, Watching, Steps, Moves
    <2>2. Tidy(r)
        BY <1>9, NoneIsOwn, EndedIsTidy DEF ClosureComplete, LocalRefreshed, Watching
    <2> QED
        BY <1>9, <2>1, <2>2 DEF ClosureComplete, LocalRefreshed, Works
<1> QED
    BY <1>1, <1>2, <1>3, <1>4, <1>5, <1>6, <1>7, <1>8, <1>9 DEF Proceeds

LEMMA CycleIs ==
    ASSUME Shape, AllRead, NEW s \in Schedulers, Cycle(s)
    PROVE  Elsewhere /\ Works(s)
<1> USE RunnersAre DEF At
<1>1. CASE CycleBegins(s) \/ CycleEnds(s)
    <2>1. Moves(s, Calm)
        BY <1>1, GoesMoves, ReturnsMoves DEF CycleBegins, CycleEnds, Calm, Watching, Steps, Moves
    <2>2. Tidy(s)
        BY <1>1, NoneIsOwn, EndedIsTidy DEF CycleBegins, CycleEnds, Watching
    <2> QED
        BY <1>1, <2>1, <2>2 DEF CycleBegins, CycleEnds, Works
<1>2. CASE CycleRefreshes(s) \/ SteamAnswers(s)
    <2>1. Moves(s, {"begin"})
        BY <1>2, BeginsMoves DEF CycleRefreshes, SteamAnswers
    <2>2. Own(s) = {}
        BY <1>2, NoneIsOwn DEF CycleRefreshes, SteamAnswers, Watching
    <2> QED
        BY <1>2, <2>1, <2>2, EndedIsTidy DEF CycleRefreshes, SteamAnswers, Works
<1>3. CASE AsksSteam(s)
    BY <1>3, ReaderIs DEF AsksSteam, Works, Tools, Watching
<1>4. CASE AsksInVain(s)
    <2>1. [task[s] EXCEPT !.pc = "refresh", !.tries = @ + 1] \in TaskRecord
        <3>1. task[s].tries + 1 \in 0..2
            BY <1>4 DEF AsksInVain, Shape, TaskRecord
        <3> QED
            BY <3>1 DEF Shape, TaskRecord, Steps
    <2>2. task' = [task EXCEPT ![s] = [task[s] EXCEPT !.pc = "refresh", !.tries = @ + 1]]
        BY <1>4 DEF AsksInVain
    <2>3. Moves(s, Calm)
        BY <2>1, <2>2 DEF Moves, Calm, Watching, Steps, Shape, TaskRecord
    <2>4. Own(s) = {}
        BY <1>4, NoneIsOwn DEF AsksInVain, Watching
    <2> QED
        BY <1>4, <2>3, <2>4, EndedIsTidy DEF AsksInVain, Works
<1> QED
    BY <1>1, <1>2, <1>3, <1>4 DEF Cycle

LEMMA UpdateIs ==
    ASSUME Shape, AllRead, UpdateBegins \/ SteamcmdEnds \/ Reports
    PROVE  Elsewhere /\ Works(Worker)
<1> USE RunnersAre DEF At
<1>1. CASE UpdateBegins
    BY <1>1, ReaderIs DEF UpdateBegins, Works, Tools, Looked, Watching
<1>2. CASE SteamcmdEnds \/ Reports
    <2>1. UNCHANGED kids /\ Elsewhere /\ Moves(Worker, Calm)
        BY <1>2, GoesMoves, ReturnsMoves DEF SteamcmdEnds, Reports, Calm, Watching, Steps, Moves
    <2>2. Own(Worker) = {}
        BY <1>2, NoneIsOwn DEF SteamcmdEnds, Reports, Watching
    <2> QED
        BY <2>1, <2>2, EndedIsTidy DEF Works
<1> QED
    BY <1>1, <1>2

LEMMA InterruptedIs ==
    ASSUME Shape, AllRead, NEW r \in Runners, NEW how \in {"raise", "cancelled"},
           Interrupted(r, how)
    PROVE  UNCHANGED <<running, asking, queue>> /\ Works(r)
<1>1. CASE Reaped(r, how) \/ ReapedAgain(r)
    <2>1. Moves(r, {"reap", "drain"}) /\ Tidy(r)
        BY <1>1, TerminatesIs DEF Interrupted
    <2> QED
        BY <2>1 DEF Interrupted, Works, Moves, Calm, Watching, Steps
<1>2. CASE ~(Reaped(r, how) \/ ReapedAgain(r))
    <2>1. Moves(r, {"rest", "sleep"}) /\ Tidy(r)
        BY <1>2, EndsMoves, AbandonsIs DEF Interrupted
    <2> QED
        BY <2>1 DEF Interrupted, Works, Moves, Calm, Watching, Steps
<1> QED
    BY <1>1, <1>2

(* Every step is one of a runner, of the server, of the queue or of a       *)
(* process, or changes the settings.                                        *)
LEMMA NextIs ==
    ASSUME Shape, AllRead, [Next]_vars
    PROVE  \/ UNCHANGED <<running, asking, queue, task, kids>>
           \/ UNCHANGED <<running, asking, queue>> /\ \E r \in Runners : Works(r)
           \/ StartServer \/ ServerStops \/ TakeJob
           \/ UNCHANGED <<running, asking, queue, task>> /\ kids' \subseteq kids
           \/ \E a \in Askers : Ask(a)
           \/ \E k \in Kinds \ {"engine_update"} : Enqueue(k)
<1> USE RunnersAre
<1>1. ASSUME NEW p \in Patches, CreateNightly(p)
      PROVE  /\ UNCHANGED <<running, asking, queue>>
             /\ UNCHANGED <<task, kids>> \/ \E r \in Runners : Works(r)
    <2>1. CASE ~patch[p].want
        BY <1>1, <2>1 DEF CreateNightly, Serves
    <2>2. CASE patch[p].want
        <3>1. PICK s \in Unused : task' = [task EXCEPT ![s] = NightlyTask]
            BY <1>1, <2>2 DEF CreateNightly
        <3>2. s \in Schedulers /\ task[s].pc \notin Watching
            BY <3>1 DEF Unused, Live, Watching
        <3>3. Moves(s, Calm)
            BY <3>1, AtRestIs DEF Moves, Calm, Watching, Steps
        <3>4. Tidy(s)
            BY <1>1, <3>2, NoneIsOwn, EndedIsTidy DEF CreateNightly, Serves
        <3> QED
            BY <1>1, <3>2, <3>3, <3>4 DEF CreateNightly, Serves, Works
    <2> QED
        BY <2>1, <2>2
<1>2. ASSUME NEW r \in Runners, Raises(r) \/ Cancelled(r)
      PROVE  UNCHANGED <<running, asking, queue>> /\ Works(r)
    BY <1>2, InterruptedIs DEF Raises, Cancelled
<1>3. ASSUME NEW k \in kids, ToolExits(k)
      PROVE  UNCHANGED <<running, asking, queue, task>> /\ kids' \subseteq kids
    BY <1>3 DEF ToolExits
<1> QED
    BY <1>1, <1>2, <1>3, ProceedsIs, CycleIs, UpdateIs
       DEF Next, vars, Elsewhere, RequestCancel, PatchSettings, Serve, StopNightly,
           NightlyStopped, Serves

-----------------------------------------------------------------------------
(* The types of the tasks, the processes, the requests and the queue *)

NewKid(r, tool) ==
    \E k \in Kid : /\ kids' = kids \cup {k} /\ k.tool = tool /\ k.by = r
                   /\ k.left = "no" /\ k.crossed = task[r].crossed

(* A new process carries the look of its body, which looks anew afterwards. *)
LEMMA SpawnIs ==
    ASSUME Shape, NEW r \in Runners, NEW tool \in Tools, Spawns(r, tool, Reader[tool])
    PROVE  /\ Moves(r, {Reader[tool]}) /\ task'[r].pc = Reader[tool]
           /\ NewKid(r, tool)
<1>1. [task[r] EXCEPT !.pc = Reader[tool], !.crossed = FALSE] \in TaskRecord
    <2>1. task[r] \in TaskRecord /\ Reader[tool] \in Steps
        BY ReaderIs DEF Shape, Steps
    <2> QED
        BY <2>1 DEF TaskRecord
<1>2. task' = [task EXCEPT ![r] = [task[r] EXCEPT !.pc = Reader[tool], !.crossed = FALSE]]
    BY DEF Spawns
<1>3. Moves(r, {Reader[tool]}) /\ task'[r].pc = Reader[tool]
    BY <1>1, <1>2 DEF Moves, TaskRecord, Shape
<1> DEFINE new == [tool |-> tool, by |-> r, told |-> FALSE, left |-> "no",
                   crossed |-> task[r].crossed]
<1>4. new \in Kid /\ kids' = kids \cup {new}
    BY DEF Kid, Shape, TaskRecord, Spawns
<1> QED
    BY <1>3, <1>4 DEF NewKid

LEMMA WorksShape ==
    ASSUME Shape, NEW r \in Runners, Works(r), UNCHANGED <<asking, queue>>
    PROVE  Shape'
<1>1. CASE Tidy(r) /\ \E pcs : Moves(r, pcs)
    BY <1>1 DEF Shape, Tidy, Moves
<1>2. ASSUME NEW tool \in Tools, Spawns(r, tool, Reader[tool]) PROVE Shape'
    BY <1>2, SpawnIs DEF Shape, Moves, NewKid
<1> QED
    BY <1>1, <1>2 DEF Works

LEMMA StartIs ==
    ASSUME Shape, StartServer
    PROVE  /\ Shape'
           /\ \A r \in Runners : /\ task'[r].pc = task[r].pc /\ task'[r].kind = task[r].kind
                                 /\ task'[r].after = task[r].after
                                 /\ Looked(r) => task'[r].crossed
           /\ DOMAIN queue' = DOMAIN queue
           /\ \A i \in DOMAIN queue' : queue'[i].kind = "engine_update" => queue'[i].crossed
           /\ \A a \in Askers : asking'[a] # "fresh"
           /\ \A k \in kids' : k.crossed
           /\ \A k \in kids' : \E o \in kids : /\ k.tool = o.tool /\ k.by = o.by
                                               /\ k.told = o.told /\ k.left = o.left
<1>0. /\ queue \in Seq(Item) /\ kids \subseteq Kid /\ task \in [Runners -> TaskRecord]
      /\ asking \in [Askers -> {"idle", "fresh", "crossed"}]
    BY DEF Shape
<1>1. asking' \in [Askers -> {"idle", "fresh", "crossed"}] /\ \A a \in Askers : asking'[a] # "fresh"
    BY <1>0 DEF StartServer
<1>2. ASSUME NEW r \in Runners
      PROVE  /\ task'[r] \in TaskRecord /\ task'[r].pc = task[r].pc
             /\ task'[r].kind = task[r].kind /\ task'[r].after = task[r].after
             /\ Looked(r) => task'[r].crossed
    <2> DEFINE c == task[r].crossed \/ Looked(r)
    <2>1. task'[r] = [task[r] EXCEPT !.crossed = c]
        BY DEF StartServer
    <2>2. c \in BOOLEAN /\ (Looked(r) => c)
        OBVIOUS
    <2>3. task[r] \in TaskRecord
        BY <1>0
    <2> HIDE DEF c
    <2> QED
        BY <2>1, <2>2, <2>3 DEF TaskRecord
<1>3. task' \in [Runners -> TaskRecord]
    BY <1>2 DEF StartServer
<1>4. ASSUME NEW i \in DOMAIN queue
      PROVE  queue'[i] \in Item /\ (queue'[i].kind = "engine_update" => queue'[i].crossed)
    <2>1. queue'[i] = [queue[i] EXCEPT !.crossed = (queue[i].kind = "engine_update")]
        BY DEF StartServer
    <2>2. queue[i] \in Item
        BY <1>0
    <2> QED
        BY <2>1, <2>2 DEF Item
<1>5. queue' \in Seq(Item) /\ DOMAIN queue' = DOMAIN queue
    <2>1. DOMAIN queue' = 1..Len(queue) /\ DOMAIN queue = 1..Len(queue) /\ Len(queue) \in Nat
        BY <1>0, LenProperties DEF StartServer
    <2>2. queue' = [i \in 1..Len(queue) |-> queue'[i]]
        BY <2>1 DEF StartServer
    <2>3. queue' \in [1..Len(queue) -> Item]
        BY <1>4, <2>1, <2>2
    <2> QED
        BY <2>1, <2>3, SeqDef
<1>6. ASSUME NEW k \in kids'
      PROVE  /\ k \in Kid /\ k.crossed
             /\ \E o \in kids : /\ k.tool = o.tool /\ k.by = o.by
                                /\ k.told = o.told /\ k.left = o.left
    <2>1. PICK o \in kids : k = [o EXCEPT !.crossed = TRUE]
        BY DEF StartServer
    <2> QED
        BY <1>0, <2>1 DEF Kid
<1> QED
    BY <1>1, <1>2, <1>3, <1>4, <1>5, <1>6 DEF Shape

(* The job the worker takes, with the look of the request that queued it.   *)
LEMMA TakeJobIs ==
    ASSUME Shape, TakeJob
    PROVE  /\ Shape' /\ task[Worker].pc = "rest"
           /\ task'[Worker].pc = "begin"
           /\ \E i \in DOMAIN queue : task'[Worker].kind = queue[i].kind
                                      /\ task'[Worker].crossed = queue[i].crossed
           /\ \A i \in DOMAIN queue' : i + 1 \in DOMAIN queue /\ queue'[i] = queue[i + 1]
           /\ \A r \in Runners \ {Worker} : task'[r] = task[r]
           /\ UNCHANGED <<running, asking, kids>>
<1> USE RunnersAre
<1> DEFINE t == [AtRest EXCEPT !.kind = Head(queue).kind, !.pc = "begin",
                               !.crossed = Head(queue).crossed]
<1>1. /\ UNCHANGED <<running, asking, kids>> /\ queue' = Tail(queue) /\ queue # <<>>
      /\ task' = [task EXCEPT ![Worker] = t] /\ task[Worker] = AtRest
    BY DEF TakeJob
<1>2. /\ \A i \in DOMAIN queue' : i + 1 \in DOMAIN queue /\ queue'[i] = queue[i + 1]
      /\ 1 \in DOMAIN queue /\ Head(queue) = queue[1]
      /\ Head(queue) \in Item /\ queue' \in Seq(Item)
    BY <1>1, HeadTailProperties, LenProperties DEF Shape
<1>3. t \in TaskRecord /\ t.pc = "begin" /\ t.kind = Head(queue).kind
      /\ t.crossed = Head(queue).crossed
    BY <1>2, AtRestIs DEF TaskRecord, Steps, Item
<1>4. task'[Worker] = t /\ task' \in [Runners -> TaskRecord]
      /\ \A r \in Runners \ {Worker} : task'[r] = task[r]
    BY <1>1, <1>3 DEF Shape
<1> HIDE DEF t
<1> QED
    BY <1>1, <1>2, <1>3, <1>4, AtRestIs DEF Shape

(* What is queued joins the end.                                            *)
LEMMA QueuesIs ==
    ASSUME Shape, NEW new \in Item, queue' = Append(queue, new)
    PROVE  /\ queue' \in Seq(Item)
           /\ \A i \in DOMAIN queue' : (i \in DOMAIN queue /\ queue'[i] = queue[i]) \/ queue'[i] = new
BY AppendProperties, LenProperties DEF Shape

LEMMA AskIs ==
    ASSUME Shape, NEW a \in Askers, Ask(a)
    PROVE  /\ Shape' /\ UNCHANGED <<running, task, kids>>
           /\ \A b \in Askers : asking'[b] = "fresh" => asking[b] = "fresh" \/ ~running
           /\ \/ UNCHANGED queue
              \/ \E new \in Item : /\ queue' = Append(queue, new)
                                   /\ asking[a] # "idle" /\ new.crossed = (asking[a] = "crossed")
<1>1. CASE UpdateAsks(a) \/ UpdateFails(a)
    BY <1>1 DEF UpdateAsks, UpdateFails, Shape
<1>2. CASE UpdateEnqueues(a)
    <2> DEFINE new == [kind |-> "engine_update", crossed |-> asking[a] = "crossed"]
    <2>1. new \in Item /\ new.crossed = (asking[a] = "crossed") /\ queue' = Append(queue, new)
        BY <1>2 DEF UpdateEnqueues, Item, Kinds
    <2>2. queue' \in Seq(Item)
        BY <2>1, QueuesIs
    <2>3. /\ UNCHANGED <<running, task, kids>> /\ asking[a] # "idle"
          /\ asking' = [asking EXCEPT ![a] = "idle"]
        BY <1>2 DEF UpdateEnqueues
    <2> HIDE DEF new
    <2> QED
        BY <2>1, <2>2, <2>3 DEF Shape
<1> QED
    BY <1>1, <1>2 DEF Ask

LEMMA EnqueueIs ==
    ASSUME Shape, NEW k \in Kinds \ {"engine_update"}, Enqueue(k)
    PROVE  /\ Shape' /\ UNCHANGED <<running, asking, task, kids>>
           /\ \E new \in Item : queue' = Append(queue, new) /\ new.kind = k
<1> DEFINE new == [kind |-> k, crossed |-> FALSE]
<1>1. new \in Item /\ new.kind = k /\ queue' = Append(queue, new)
    BY DEF Enqueue, Item
<1>2. queue' \in Seq(Item)
    BY <1>1, QueuesIs
<1> QED
    BY <1>1, <1>2 DEF Enqueue, Shape

LEMMA ShapeStep ==
    ASSUME Shape, AllRead, [Next]_vars
    PROVE  Shape'
<1>1. CASE UNCHANGED <<running, asking, queue, task>> /\ kids' \subseteq kids
    BY <1>1 DEF Shape
<1>2. CASE ServerStops
    BY <1>2 DEF ServerStops, Shape
<1> QED
    BY <1>1, <1>2, NextIs, WorksShape, StartIs, TakeJobIs, AskIs, EnqueueIs

-----------------------------------------------------------------------------
(* What a body spawned is never forgotten *)

LEMMA ReadStep ==
    ASSUME Shape, AllRead, [Next]_vars
    PROVE  AllRead'
<1> USE RunnersAre
<1>0. kids \subseteq Kid /\ task \in [Runners -> TaskRecord]
      /\ \A k \in kids : k.by \in Runners /\ k.tool \in Tools
    BY DEF Shape, Kid
<1>1. ASSUME NEW r \in Runners, Tidy(r), \E pcs : Moves(r, pcs) PROVE AllRead'
    <2>1. \A x \in Runners \ {r} : task'[x] = task[x]
        BY <1>0, <1>1 DEF Moves
    <2> QED
        BY <1>0, <1>1, <2>1 DEF AllRead, Tidy, Kid
<1>2. ASSUME NEW r \in Runners, NEW tool \in Tools, Spawns(r, tool, Reader[tool]),
             task[r].pc \notin Watching
      PROVE  AllRead'
    <2>0. NewKid(r, tool)
        BY <1>2, SpawnIs
    <2>1. PICK k \in Kid : /\ kids' = kids \cup {k} /\ k.tool = tool /\ k.by = r
                           /\ k.left = "no"
        BY <2>0 DEF NewKid
    <2>2. task'[r].pc = Reader[tool] /\ \A x \in Runners \ {r} : task'[x] = task[x]
        BY <1>0, <1>2, SpawnIs DEF Moves
    <2>3. ASSUME NEW o \in kids, ~o.told, o.left = "no" PROVE o.by # r
        BY <1>0, <1>2, <2>3, ReaderIs DEF AllRead
    <2> QED
        BY <1>0, <2>1, <2>2, <2>3 DEF AllRead
<1>3. CASE UNCHANGED <<task>> /\ kids' \subseteq kids
    BY <1>3 DEF AllRead
<1>4. CASE StartServer
    <2>1. ASSUME NEW k \in kids', ~k.told
          PROVE  IF k.left = "no" THEN task'[k.by].pc = Reader[k.tool] ELSE Unhandled(k)
        <3>1. PICK o \in kids : k.tool = o.tool /\ k.by = o.by /\ k.told = o.told /\ k.left = o.left
            BY <1>4, StartIs
        <3>2. task'[o.by].pc = task[o.by].pc
            BY <1>0, <1>4, StartIs
        <3> QED
            BY <2>1, <3>1, <3>2 DEF AllRead, Unhandled
    <2> QED
        BY <2>1 DEF AllRead
<1>5. CASE TakeJob
    <2>1. task[Worker].pc \notin Watching /\ UNCHANGED kids
          /\ \A r \in Runners \ {Worker} : task'[r] = task[r]
        BY <1>5, TakeJobIs DEF Watching
    <2>2. Own(Worker) = {}
        BY <2>1, NoneIsOwn
    <2> QED
        BY <1>0, <2>1, <2>2 DEF AllRead, Own
<1>6. CASE UNCHANGED <<task, kids>>
    BY <1>3, <1>6
<1> QED
    BY <1>1, <1>2, <1>3, <1>4, <1>5, <1>6, NextIs, AskIs, EnqueueIs DEF ServerStops, Works

(* The downloader under every interruption, verify_repair when it is        *)
(* cancelled, and both stop limits, however often they are interrupted: a   *)
(* process that was not told to end is read, or is one of those the code    *)
(* has no handler for, the steamcmd of an engine update and of a nightly    *)
(* cycle's refresh_engine, and the verification that raises.                *)
THEOREM NoneForgotten == Spec => []ToolsReaped
<1>1. Init => Shape /\ AllRead
    BY AtRestIs DEF Init, Shape, AllRead, Runners
<1>2. Shape /\ AllRead /\ [Next]_vars => Shape' /\ AllRead'
    BY ShapeStep, ReadStep
<1>3. Shape /\ AllRead => ToolsReaped
    BY ReaderIs DEF AllRead, ToolsReaped, Shape, Kid
<1> QED
    BY <1>1, <1>2, <1>3, PTL DEF Spec

-----------------------------------------------------------------------------
(* No tool beside a server it could have seen *)

LEMMA AloneStep ==
    ASSUME Shape, AllRead, ServerAlone, LooksCross, [Next]_vars
    PROVE  ServerAlone' /\ LooksCross'
<1> USE RunnersAre DEF ServerAlone, LooksCross
<1>0. kids \subseteq Kid /\ task \in [Runners -> TaskRecord] /\ queue \in Seq(Item)
    BY DEF Shape
<1>1. CASE StartServer
    BY <1>1, StartIs DEF Looked
<1>2. CASE ServerStops
    BY <1>2 DEF ServerStops
<1>3. CASE TakeJob
    <2>1. ASSUME running PROVE Looked(Worker)' => task'[Worker].crossed
        BY <1>3, <2>1, TakeJobIs DEF Looked
    <2>2. \A r \in Runners \ {Worker} : Looked(r)' = Looked(r) /\ task'[r] = task[r]
        BY <1>3, TakeJobIs DEF Looked
    <2> QED
        BY <1>3, <2>1, <2>2, TakeJobIs
<1>4. ASSUME NEW a \in Askers, Ask(a) PROVE ServerAlone' /\ LooksCross'
    <2>1. \A i \in DOMAIN queue' : running /\ queue'[i].kind = "engine_update" => queue'[i].crossed
        <3>1. CASE UNCHANGED queue
            BY <3>1
        <3>2. ASSUME NEW new \in Item, queue' = Append(queue, new), asking[a] # "idle",
                     new.crossed = (asking[a] = "crossed")
              PROVE  \A i \in DOMAIN queue' :
                        running /\ queue'[i].kind = "engine_update" => queue'[i].crossed
            <4>1. running => new.crossed
                BY <3>2 DEF Shape
            <4> QED
                BY <3>2, <4>1, QueuesIs
        <3> QED
            BY <1>4, <3>1, <3>2, AskIs
    <2> QED
        BY <1>4, <2>1, AskIs DEF Looked
<1>5. ASSUME NEW k \in Kinds \ {"engine_update"}, Enqueue(k) PROVE ServerAlone' /\ LooksCross'
    <2>1. \A i \in DOMAIN queue' : running /\ queue'[i].kind = "engine_update" => queue'[i].crossed
        <3>1. PICK new \in Item : queue' = Append(queue, new) /\ new.kind = k
            BY <1>5, EnqueueIs
        <3> QED
            BY <3>1, QueuesIs
    <2> QED
        BY <1>5, <2>1, EnqueueIs DEF Looked
<1>6. ASSUME NEW r \in Runners, Works(r), UNCHANGED <<running, asking, queue>>
      PROVE  ServerAlone' /\ LooksCross'
    <2>1. CASE Tidy(r) /\ \/ Moves(r, Calm)
                          \/ ~running /\ Moves(r, {"spawn"})
                          \/ r \in Schedulers /\ Moves(r, {"begin"})
        <3>1. ServerAlone'
            BY <1>6, <2>1 DEF Tidy
        <3>2. ASSUME running PROVE ~Looked(r)'
            BY <1>0, <2>1, <3>2 DEF Moves, Calm, Steps, Watching, Looked
        <3>3. \A x \in Runners \ {r} : task'[x] = task[x]
            BY <1>0, <2>1 DEF Moves
        <3> QED
            BY <1>6, <3>1, <3>2, <3>3 DEF Looked
    <2>2. ASSUME NEW tool \in Tools, Spawns(r, tool, Reader[tool]), Looked(r) \/ tool = "appinfo"
          PROVE  ServerAlone' /\ LooksCross'
        <3>0. NewKid(r, tool)
            BY <2>2, SpawnIs
        <3>1. PICK k \in Kid : kids' = kids \cup {k} /\ k.tool = tool /\ k.crossed = task[r].crossed
            BY <3>0 DEF NewKid
        <3>2. task'[r].pc \in Watching /\ \A x \in Runners \ {r} : task'[x] = task[x]
            BY <1>0, <2>2, SpawnIs, ReaderIs DEF Moves
        <3>3. ServerAlone'
            BY <1>6, <2>2, <3>1
        <3> QED
            BY <1>6, <3>2, <3>3 DEF Looked, Watching
    <2> QED
        BY <1>6, <2>1, <2>2 DEF Works
<1>7. CASE UNCHANGED <<running, asking, queue, task>> /\ kids' \subseteq kids
    BY <1>7 DEF Looked
<1>8. CASE UNCHANGED <<running, asking, queue, task, kids>>
    BY <1>7, <1>8
<1> QED
    BY <1>1, <1>2, <1>3, <1>4, <1>5, <1>6, <1>7, <1>8, NextIs

(* update_engine, _run_engine and run_verify_repair look at the supervisor   *)
(* once.  Whenever servers start, requests wait and jobs are queued, retried *)
(* or interrupted, a tool beside a running server has behind it a look made *)
(* before that server was started.                                          *)
THEOREM ServersRunAlone == Spec => []ServerAlone
<1> DEFINE Inv == Shape /\ AllRead /\ ServerAlone /\ LooksCross
<1>1. Init => Inv
    BY AtRestIs DEF Init, Shape, AllRead, ServerAlone, LooksCross, Runners
<1>2. Inv /\ [Next]_vars => Inv'
    BY ShapeStep, ReadStep, AloneStep
<1> QED
    BY <1>1, <1>2, PTL DEF Spec

-----------------------------------------------------------------------------
(* The nightly scheduler follows the settings *)

PatchShape ==
    /\ patch \in [Patches -> [pc : {"idle", "apply", "stopping", "create"}, want : BOOLEAN,
                              who : Schedulers \cup {None}]]
    /\ held \in [Schedulers -> BOOLEAN] /\ cancels \in [Runners -> 0..1]
    /\ current \in Schedulers \cup {None} /\ enabled \in BOOLEAN

(* A bounded wait knows what comes after it.                                *)
ReapKnows(s) == task[s].pc = "reap" => task[s].after # "rest"

(* Nothing ends a nightly task but its cancellation.                        *)
Unasked(s) == cancels[s] = 0 /\ task[s].after # "cancelled"

Nightlies == {s \in Schedulers : Live(s)}

(* Where a change of the settings stands, and which nightly tasks live.     *)
Changing(p) == patch[p].pc # "idle"

Settled == enabled = (current # None) /\ Nightlies = (IF enabled THEN {current} ELSE {})

PatchIsAt(p) ==
    /\ patch[p].want = enabled
    /\ patch[p].pc = "apply" =>
         patch[p].who = current /\ Nightlies = (IF current = None THEN {} ELSE {current})
    /\ patch[p].pc = "stopping" => Nightlies \subseteq {patch[p].who}
    /\ patch[p].pc = "create" => Nightlies = {}

Stopping == \E p \in Patches : patch[p].pc = "stopping"

SchedulerInv ==
    /\ \A p, q \in Patches : Changing(p) /\ Changing(q) => p = q
    /\ (\A p \in Patches : ~Changing(p)) => Settled
    /\ \A p \in Patches : Changing(p) => PatchIsAt(p)
    /\ ~Stopping => \A s \in Nightlies : Unasked(s) /\ held[s]
    /\ \A s \in Schedulers : ReapKnows(s)

(* What a step of a body does to a scheduler's task: one that does not live  *)
(* stays so, one that does and was not cancelled goes on.                   *)
Keeps(s) ==
    /\ ~Live(s) => task'[s] = task[s]
    /\ Live(s) /\ task[s].after # "cancelled" /\ ReapKnows(s)
         => Live(s)' /\ task'[s].after # "cancelled"
    /\ ReapKnows(s) => ReapKnows(s)'

LEMMA GoesKeeps ==
    ASSUME Shape, NEW s \in Schedulers, NEW r \in Runners, Live(r),
           NEW pc \in Steps \ {"rest", "reap"}, Goes(r, pc)
    PROVE  Keeps(s)
BY DEF Goes, Keeps, Live, ReapKnows, Shape, TaskRecord, Runners

LEMMA ReturnsKeeps ==
    ASSUME Shape, NEW s \in Schedulers, NEW r \in Runners, Live(r), Returns(r)
    PROVE  Keeps(s)
<1>1. NightlyTask.pc = "sleep" /\ NightlyTask.after = "rest"
    BY DEF NightlyTask, AtRest
<1>2. task'[s] = IF s = r THEN NightlyTask ELSE task[s]
    BY DEF Returns, NightlyTask, Shape, Runners
<1> QED
    BY <1>1, <1>2 DEF Keeps, Live, ReapKnows

LEMMA TerminatesKeeps ==
    ASSUME Shape, NEW s \in Schedulers, NEW r \in Runners, Live(r),
           NEW pc \in {"reap", "drain"}, NEW after \in {"raise", "closure", "local"},
           Terminates(r, pc, after)
    PROVE  Keeps(s)
<1>1. task' = [task EXCEPT ![r] = [task[r] EXCEPT !.pc = pc, !.after = after]]
    BY DEF Terminates
<1> QED
    BY <1>1 DEF Keeps, Live, ReapKnows, Shape, TaskRecord, Runners

LEMMA SpawnsKeeps ==
    ASSUME Shape, NEW s \in Schedulers, NEW r \in Runners, Live(r), NEW tool,
           NEW pc \in Watching, Spawns(r, tool, pc)
    PROVE  Keeps(s)
<1>1. task' = [task EXCEPT ![r] = [task[r] EXCEPT !.pc = pc, !.crossed = FALSE]]
    BY DEF Spawns
<1> QED
    BY <1>1 DEF Keeps, Live, ReapKnows, Watching, Shape, TaskRecord, Runners

LEMMA ProceedsKeeps ==
    ASSUME Shape, NEW s \in Schedulers, ReapKnows(s), NEW r \in Runners, Proceeds(r)
    PROVE  Keeps(s)
<1> USE DEF At
<1>1. Live(r)
    BY DEF Proceeds, NothingToDownload, DownloadBegins, ChecksServer, SpawnsTool,
           DownloadReady, DownloadFails, DownloadEnds, Reaps, ClosureIncomplete,
           ClosureComplete, LocalRefreshed, VerifyEnds, VerifyFails, Live
<1>2. CASE NothingToDownload(r) \/ DownloadBegins(r) \/ ChecksServer(r)
    BY <1>1, <1>2, GoesKeeps, ReturnsKeeps
       DEF NothingToDownload, DownloadBegins, ChecksServer, Steps
<1>3. CASE ClosureComplete(r) \/ LocalRefreshed(r)
    BY <1>1, <1>3, GoesKeeps, ReturnsKeeps DEF ClosureComplete, LocalRefreshed, Steps
<1>8. CASE SpawnsTool(r)
    BY <1>1, <1>8, SpawnsKeeps DEF SpawnsTool, Watching
<1>4. CASE DownloadReady(r) \/ DownloadFails(r) \/ VerifyFails(r)
    BY <1>1, <1>4, TerminatesKeeps DEF DownloadReady, DownloadFails, VerifyFails
<1>5. CASE DownloadEnds(r) \/ VerifyEnds(r)
    BY <1>1, <1>5, ReturnsKeeps DEF DownloadEnds, VerifyEnds
<1>6. CASE Reaps(r)
    <2>1. CASE r # s
        BY <1>6, <2>1 DEF Reaps, Ends, Returns, Stops, Goes, Keeps, Live, ReapKnows, Shape, Runners
    <2>2. CASE r = s /\ task[s].after = "cancelled"
        BY <1>1, <1>6, <2>2, AtRestIs DEF Reaps, Ends, Stops, Keeps, ReapKnows, Shape, Runners
    <2>3. CASE r = s /\ task[s].after = "raise"
        BY <1>1, <1>6, <2>3, ReturnsKeeps DEF Reaps, Ends
    <2>4. CASE r = s /\ task[s].after \in {"closure", "local"}
        BY <1>1, <1>6, <2>4, GoesKeeps DEF Reaps, Steps
    <2> QED
        BY <1>6, <2>1, <2>2, <2>3, <2>4 DEF Reaps, ReapKnows, Shape, TaskRecord, Runners
<1>7. CASE ClosureIncomplete(r)
    <2>1. CASE Retries(r)
        BY <1>7, <2>1 DEF ClosureIncomplete, Keeps, Live, ReapKnows, Shape, TaskRecord, Runners
    <2>2. CASE ~Retries(r)
        BY <1>1, <1>7, <2>2, ReturnsKeeps DEF ClosureIncomplete
    <2> QED
        BY <2>1, <2>2
<1> QED
    BY <1>2, <1>3, <1>4, <1>5, <1>6, <1>7, <1>8 DEF Proceeds

LEMMA RaisesKeeps ==
    ASSUME Shape, NEW s \in Schedulers, NEW r \in Runners, Raises(r)
    PROVE  Keeps(s)
<1>1. Live(r)
    BY DEF Raises, Live
<1> QED
    BY <1>1, TerminatesKeeps, ReturnsKeeps DEF Raises, Interrupted, Ends

LEMMA CycleKeeps ==
    ASSUME Shape, NEW s \in Schedulers, NEW r \in Schedulers, Cycle(r)
    PROVE  Keeps(s)
<1> USE RunnersAre DEF At, Live
<1>1. CASE CycleBegins(r) \/ CycleEnds(r)
    BY <1>1, GoesKeeps, ReturnsKeeps DEF CycleBegins, CycleEnds, Steps
<1>2. CASE AsksSteam(r)
    BY <1>2, SpawnsKeeps DEF AsksSteam, Watching
<1>3. ASSUME NEW pc \in {"begin", "refresh"}, NEW tries,
             task' = [task EXCEPT ![r] = [task[r] EXCEPT !.pc = pc, !.tries = tries]], Live(r)
      PROVE  Keeps(s)
    BY <1>3 DEF Keeps, ReapKnows, Shape, TaskRecord, Runners
<1>4. CASE CycleRefreshes(r) \/ SteamAnswers(r)
    <2>1. task' = [task EXCEPT ![r] = [task[r] EXCEPT !.pc = "begin", !.tries = 0]]
        BY <1>4 DEF CycleRefreshes, SteamAnswers, Begins
    <2> QED
        BY <1>3, <1>4, <2>1 DEF CycleRefreshes, SteamAnswers
<1>5. CASE AsksInVain(r)
    <2>1. task' = [task EXCEPT ![r] = [task[r] EXCEPT !.pc = "refresh", !.tries = task[r].tries + 1]]
        BY <1>5 DEF AsksInVain
    <2> QED
        BY <1>3, <1>5, <2>1 DEF AsksInVain
<1> QED
    BY <1>1, <1>2, <1>4, <1>5 DEF Cycle

(* A cancelled task ends, or waits for its process and then ends.           *)
LEMMA CancelledIs ==
    ASSUME Shape, NEW s \in Schedulers, ReapKnows(s), NEW r \in Runners, Cancelled(r)
    PROVE  /\ ~Live(s) => task'[s] = task[s]
           /\ s # r => task'[s] = task[s]
           /\ ReapKnows(s)'
           /\ cancels[r] = 1 => cancels' = [cancels EXCEPT ![r] = 0]
<1>1. CASE Terminates(r, "reap", "cancelled")
    <2>1. task' = [task EXCEPT ![r] = [task[r] EXCEPT !.pc = "reap", !.after = "cancelled"]]
        BY <1>1 DEF Terminates
    <2> QED
        BY <2>1 DEF Cancelled, Live, ReapKnows, Shape, TaskRecord, Runners
<1>2. CASE Stops(r)
    BY <1>2, AtRestIs DEF Stops, Cancelled, Live, ReapKnows, Shape, Runners
<1> QED
    BY <1>1, <1>2 DEF Cancelled, Interrupted, Ends

LEMMA BodiesKeep ==
    ASSUME PatchShape, SchedulerInv, UNCHANGED nightly,
           \A s \in Schedulers : Keeps(s) /\ cancels'[s] = cancels[s]
    PROVE  SchedulerInv'
<1> USE DEF SchedulerInv, nightly
<1>1. \A s \in Schedulers : ReapKnows(s)'
    BY DEF Keeps
<1>2. Nightlies' \subseteq Nightlies
    BY DEF Nightlies, Keeps, Live
<1>3. CASE ~Stopping
    <2>1. \A s \in Nightlies : Live(s)' /\ Unasked(s)'
        BY <1>3 DEF Nightlies, Keeps, Unasked
    <2>2. Nightlies' = Nightlies
        BY <1>2, <2>1 DEF Nightlies
    <2> QED
        BY <1>1, <1>3, <2>1, <2>2 DEF Changing, Settled, PatchIsAt, Stopping
<1>4. CASE Stopping
    <2>1. PICK p \in Patches : patch[p].pc = "stopping"
        BY <1>4 DEF Stopping
    <2>2. \A q \in Patches \ {p} : ~Changing(q)
        BY <2>1 DEF Changing
    <2> QED
        BY <1>1, <1>2, <2>1, <2>2 DEF Changing, PatchIsAt, Stopping
<1> QED
    BY <1>3, <1>4

LEMMA CancelKeeps ==
    ASSUME Shape, PatchShape, SchedulerInv, UNCHANGED nightly, NEW r \in Runners, Cancelled(r)
    PROVE  SchedulerInv'
<1> USE DEF SchedulerInv, nightly
<1>1. \A s \in Schedulers : ReapKnows(s)' /\ (~Live(s) => task'[s] = task[s])
                            /\ (s # r => task'[s] = task[s])
    BY CancelledIs
<1>2. cancels[r] = 1 /\ cancels' = [cancels EXCEPT ![r] = 0] /\ Live(r)
    BY DEF Cancelled, PatchShape, Live
<1>3. CASE r \notin Schedulers
    <2>1. \A s \in Schedulers : Keeps(s) /\ cancels'[s] = cancels[s]
        BY <1>1, <1>2, <1>3 DEF Keeps, Live, PatchShape, Runners
    <2> QED
        BY <2>1, BodiesKeep
<1>4. CASE r \in Schedulers
    <2>1. PICK p \in Patches : patch[p].pc = "stopping"
        BY <1>2, <1>4 DEF Stopping, Nightlies, Unasked
    <2>2. \A q \in Patches \ {p} : ~Changing(q)
        BY <2>1 DEF Changing
    <2>3. Nightlies' \subseteq Nightlies
        BY <1>1 DEF Nightlies, Live
    <2> QED
        BY <1>1, <2>1, <2>2, <2>3 DEF Changing, PatchIsAt, Stopping
<1> QED
    BY <1>3, <1>4

LEMMA PatchKeeps ==
    ASSUME "patch" \notin Overlaps, Shape, PatchShape, SchedulerInv, NEW p \in Patches,
           Serve(p) \/ \E want \in BOOLEAN : PatchSettings(p, want)
    PROVE  SchedulerInv'
<1> USE DEF SchedulerInv, Changing
<1>0. task \in [Runners -> TaskRecord] /\ Schedulers \subseteq Runners
    BY RunnersAre DEF Shape
<1>1. ASSUME NEW want \in BOOLEAN, PatchSettings(p, want) PROVE SchedulerInv'
    <2>1. \A q \in Patches : patch[q].pc = "idle"
        BY <1>1 DEF PatchSettings
    <2>2. /\ patch'[p] = [pc |-> "apply", want |-> want, who |-> current] /\ enabled' = want
          /\ \A q \in Patches \ {p} : patch'[q] = patch[q]
          /\ UNCHANGED <<task, cancels, current, held>>
        BY <1>1 DEF PatchSettings, PatchShape
    <2>3. UNCHANGED Nightlies
        BY <2>2 DEF Nightlies, Live
    <2>4. Changing(p)' /\ \A q \in Patches \ {p} : ~Changing(q)'
        BY <2>1, <2>2
    <2>5. current # None <=> enabled
        BY <2>1 DEF Settled, PatchShape
    <2>6. PatchIsAt(p)'
        BY <2>1, <2>2, <2>3, <2>5 DEF Settled, PatchIsAt
    <2>7. ~Stopping
        BY <2>1 DEF Stopping
    <2>8. \A s \in Nightlies : (Unasked(s) /\ held[s])'
        BY <2>2, <2>7 DEF Unasked
    <2>9. \A s \in Schedulers : ReapKnows(s)'
        BY <2>2 DEF ReapKnows
    <2> QED
        BY <2>3, <2>4, <2>6, <2>8, <2>9
<1>2. ASSUME patch[p].pc # "idle" PROVE \A q \in Patches \ {p} : patch[q].pc = "idle"
    BY <1>2
<1>3. CASE StopNightly(p)
    <2>1. patch[p].pc = "apply" /\ UNCHANGED <<task, enabled, current>>
        BY <1>3 DEF StopNightly
    <2>2. /\ patch[p].want = enabled /\ patch[p].who = current
          /\ Nightlies = IF current = None THEN {} ELSE {current}
        BY <2>1 DEF PatchIsAt
    <2>3. \A s \in Nightlies : held[s]
        BY <1>2, <2>1 DEF Stopping
    <2>4. current # None => held[current] /\ Live(current)
        BY <2>2, <2>3 DEF Nightlies
    <2>5. /\ patch'[p].pc = IF current # None THEN "stopping" ELSE "create"
          /\ patch'[p].want = patch[p].want /\ patch'[p].who = patch[p].who
          /\ \A q \in Patches \ {p} : patch'[q] = patch[q]
        BY <1>3, <2>2, <2>4 DEF StopNightly, PatchShape
    <2>6. UNCHANGED Nightlies /\ \A s \in Schedulers : ReapKnows(s)'
        BY <2>1 DEF Nightlies, Live, ReapKnows
    <2> QED
        BY <1>2, <2>1, <2>2, <2>5, <2>6 DEF PatchIsAt, Stopping
<1>4. CASE NightlyStopped(p)
    <2>1. patch[p].pc = "stopping" /\ ~Live(patch[p].who)
          /\ UNCHANGED <<task, cancels, enabled, current, held>>
        BY <1>4 DEF NightlyStopped
    <2>2. Nightlies = {} /\ patch[p].want = enabled
        BY <2>1 DEF PatchIsAt, Nightlies
    <2>3. /\ patch'[p].pc = "create" /\ patch'[p].want = patch[p].want
          /\ \A q \in Patches \ {p} : patch'[q] = patch[q]
        BY <1>4 DEF NightlyStopped, PatchShape
    <2>4. UNCHANGED Nightlies /\ \A s \in Schedulers : ReapKnows(s)'
        BY <2>1 DEF Nightlies, Live, ReapKnows
    <2> QED
        BY <1>2, <2>1, <2>2, <2>3, <2>4 DEF PatchIsAt, Stopping
<1>5. CASE CreateNightly(p)
    <2>1. patch[p].pc = "create" /\ UNCHANGED enabled /\ patch[p].want = enabled /\ Nightlies = {}
        BY <1>5 DEF CreateNightly, PatchIsAt
    <2>2. \A q \in Patches : patch'[q].pc = "idle"
        BY <1>2, <1>5, <2>1 DEF CreateNightly, PatchShape
    <2>3. CASE patch[p].want
        <3>1. PICK s \in Schedulers :
                /\ current' = s /\ held' = [held EXCEPT ![s] = TRUE]
                /\ task' = [task EXCEPT ![s] = NightlyTask]
                /\ cancels' = [cancels EXCEPT ![s] = 0]
            BY <1>5, <2>3 DEF CreateNightly, Unused
        <3>2. NightlyTask.pc = "sleep" /\ NightlyTask.after = "rest"
            BY DEF NightlyTask, AtRest
        <3>3. Nightlies' = {s} /\ Unasked(s)' /\ held'[s]
            BY <1>0, <2>1, <3>1, <3>2 DEF Nightlies, Live, Unasked, PatchShape
        <3>4. \A x \in Schedulers : ReapKnows(x)'
            BY <1>0, <3>1, <3>2 DEF ReapKnows
        <3> QED
            BY <2>1, <2>2, <2>3, <3>1, <3>3, <3>4 DEF Settled, Stopping
    <2>4. CASE ~patch[p].want
        <3>1. current' = None /\ UNCHANGED <<held, task, cancels>>
            BY <1>5, <2>4 DEF CreateNightly
        <3>2. Nightlies' = {} /\ \A s \in Schedulers : ReapKnows(s)'
            BY <2>1, <3>1 DEF Nightlies, Live, ReapKnows
        <3>3. ~enabled'
            BY <2>1, <2>4
        <3>4. Settled'
            BY <3>1, <3>2, <3>3, <2>1 DEF Settled, PatchShape
        <3> QED
            BY <2>2, <3>2, <3>4
    <2> QED
        BY <2>3, <2>4
<1> QED
    BY <1>1, <1>3, <1>4, <1>5 DEF Serve

LEMMA PatchShapeStep ==
    ASSUME PatchShape, [Next]_vars
    PROVE  PatchShape'
<1> USE RunnersAre DEF PatchShape
<1>1. ASSUME NEW p \in Patches, NEW want \in BOOLEAN, PatchSettings(p, want) PROVE PatchShape'
    BY <1>1 DEF PatchSettings
<1>2. ASSUME NEW p \in Patches, StopNightly(p) \/ NightlyStopped(p) PROVE PatchShape'
    <2>1. \E pc \in {"stopping", "create"} : patch' = [patch EXCEPT ![p].pc = pc]
        BY <1>2 DEF StopNightly, NightlyStopped
    <2>2. held' = held \/ \E s : held' = [held EXCEPT ![s] = FALSE]
        BY <1>2 DEF StopNightly, NightlyStopped
    <2>3. cancels' = cancels \/ \E s : cancels' = [cancels EXCEPT ![s] = 1]
        BY <1>2 DEF StopNightly, NightlyStopped
    <2>4. held' \in [Schedulers -> BOOLEAN]
        BY <2>2
    <2>5. cancels' \in [Runners -> 0..1]
        BY <2>3
    <2> QED
        BY <1>2, <2>1, <2>4, <2>5 DEF StopNightly, NightlyStopped
<1>3. ASSUME NEW p \in Patches, CreateNightly(p) PROVE PatchShape'
    <2>1. held' = held \/ \E s : held' = [held EXCEPT ![s] = TRUE]
        BY <1>3 DEF CreateNightly
    <2>2. cancels' = cancels \/ \E s : cancels' = [cancels EXCEPT ![s] = 0]
        BY <1>3 DEF CreateNightly
    <2>3. current' \in Schedulers \cup {None}
        BY <1>3 DEF CreateNightly, Unused
    <2>4. held' \in [Schedulers -> BOOLEAN]
        BY <2>1
    <2>5. cancels' \in [Runners -> 0..1]
        BY <2>2
    <2> QED
        BY <1>3, <2>3, <2>4, <2>5 DEF CreateNightly
<1>4. CASE TakeJob \/ RequestCancel
    BY <1>4 DEF TakeJob, RequestCancel, nightly
<1>5. ASSUME NEW r \in Runners, Raises(r) \/ Cancelled(r) PROVE PatchShape'
    BY <1>5 DEF Raises, Cancelled, Interrupted, nightly
<1>6. CASE UNCHANGED <<cancels, nightly>>
    BY <1>6 DEF nightly
<1> QED
    BY <1>1, <1>2, <1>3, <1>4, <1>5, <1>6
       DEF Next, vars, StartServer, ServerStops, Enqueue, ToolExits, UpdateBegins,
           SteamcmdEnds, Reports, CycleBegins, Cycle, CycleRefreshes, AsksSteam, AsksInVain,
           SteamAnswers, CycleEnds, Elsewhere, Ask, UpdateAsks, UpdateEnqueues, UpdateFails,
           Proceeds, NothingToDownload, DownloadBegins, ChecksServer, SpawnsTool,
           DownloadReady, DownloadFails, DownloadEnds, Reaps, ClosureIncomplete,
           ClosureComplete, LocalRefreshed, VerifyEnds, VerifyFails, Serve

LEMMA SchedulerStep ==
    ASSUME "patch" \notin Overlaps, Shape, AllRead, PatchShape, SchedulerInv, [Next]_vars
    PROVE  SchedulerInv'
<1> USE RunnersAre
<1>0. \A s \in Schedulers : ReapKnows(s) /\ s # Worker
    BY DEF SchedulerInv
<1>1. ASSUME NEW r \in Runners, Proceeds(r) PROVE SchedulerInv'
    <2>1. Elsewhere
        BY <1>1, ProceedsIs
    <2> QED
        BY <1>0, <1>1, <2>1, ProceedsKeeps, BodiesKeep DEF Elsewhere
<1>2. ASSUME NEW r \in Runners, Raises(r) PROVE SchedulerInv'
    BY <1>2, RaisesKeeps, BodiesKeep DEF Raises, Interrupted
<1>3. ASSUME NEW r \in Runners, Cancelled(r) PROVE SchedulerInv'
    BY <1>3, CancelKeeps DEF Cancelled, Interrupted
<1>4. ASSUME NEW s \in Schedulers, Cycle(s) PROVE SchedulerInv'
    BY <1>4, CycleIs, CycleKeeps, BodiesKeep DEF Elsewhere
<1>5. ASSUME NEW p \in Patches, Serve(p) \/ \E want \in BOOLEAN : PatchSettings(p, want)
      PROVE  SchedulerInv'
    BY <1>5, PatchKeeps
<1>6. ASSUME UNCHANGED nightly,
             \A s \in Schedulers : task'[s] = task[s] /\ cancels'[s] = cancels[s]
      PROVE  SchedulerInv'
    BY <1>6, BodiesKeep DEF Keeps, Live, ReapKnows
<1>7. CASE TakeJob \/ RequestCancel
    BY <1>0, <1>6, <1>7 DEF TakeJob, RequestCancel, Shape, PatchShape
<1>8. CASE UpdateBegins \/ SteamcmdEnds \/ Reports
    <2>1. \A s \in Schedulers : task'[s] = task[s]
        BY <1>0, <1>8 DEF UpdateBegins, SteamcmdEnds, Reports, Spawns, Goes, Returns, Shape
    <2> QED
        BY <1>6, <1>8, <2>1 DEF UpdateBegins, SteamcmdEnds, Reports, Elsewhere
<1>9. CASE UNCHANGED <<task, cancels, nightly>>
    BY <1>6, <1>9
<1>10. CASE StartServer
    <2>1. \A s \in Schedulers : task'[s].pc = task[s].pc /\ task'[s].after = task[s].after
        BY <1>10, StartIs
    <2>2. \A s \in Schedulers : ~Live(s) => task'[s] = task[s]
        BY <1>10 DEF StartServer, Live, Looked, Shape, TaskRecord
    <2>3. UNCHANGED <<cancels, nightly>>
        BY <1>10 DEF StartServer
    <2> QED
        BY <2>1, <2>2, <2>3, BodiesKeep DEF Keeps, Live, ReapKnows
<1> QED
    BY <1>1, <1>2, <1>3, <1>4, <1>5, <1>7, <1>8, <1>9, <1>10
       DEF Next, vars, ServerStops, Enqueue, ToolExits, Ask, UpdateAsks, UpdateEnqueues,
           UpdateFails

(* apply_nightly_settings and NightlyCheckScheduler.stop: as long as one     *)
(* request at a time changes the settings, the scheduler they ask for is     *)
(* the one that lives, and the only one, whatever cycle the old one was in.  *)
THEOREM SchedulerIsTheOne ==
    ASSUME "patch" \notin Overlaps
    PROVE  Spec => []SchedulerFollowsSettings
<1> DEFINE Inv == Shape /\ AllRead /\ PatchShape /\ SchedulerInv
<1>1. Init => Inv
    <2> SUFFICES ASSUME Init PROVE Inv
        OBVIOUS
    <2>1. NightlyTask.pc = "sleep" /\ NightlyTask.after = "rest" /\ AtRest.after = "rest"
        BY DEF NightlyTask, AtRest
    <2>2. Shape /\ AllRead /\ PatchShape
        BY AtRestIs DEF Init, Shape, AllRead, PatchShape, Runners
    <2>3. \A p \in Patches : ~Changing(p)
        BY DEF Init, Changing
    <2>4. \A s \in Schedulers : task[s] = IF s = current THEN NightlyTask ELSE AtRest
        BY RunnersAre DEF Init
    <2>5. Settled
        BY <2>1, <2>4, AtRestIs DEF Init, Settled, Nightlies, Live
    <2>6. \A s \in Schedulers : ReapKnows(s) /\ (s \in Nightlies => Unasked(s) /\ held[s])
        BY <2>1, <2>4, AtRestIs, RunnersAre DEF Init, ReapKnows, Nightlies, Live, Unasked
    <2> QED
        BY <2>2, <2>3, <2>5, <2>6 DEF SchedulerInv, Nightlies
<1>2. Inv /\ [Next]_vars => Inv'
    BY ShapeStep, ReadStep, PatchShapeStep, SchedulerStep
<1>3. Inv => SchedulerFollowsSettings
    BY DEF SchedulerInv, Changing, Settled, Nightlies, SchedulerFollowsSettings
<1> QED
    BY <1>1, <1>2, <1>3, PTL DEF Spec
==============================================================================
