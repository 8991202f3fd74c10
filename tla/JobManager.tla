----------------------------- MODULE JobManager -----------------------------
(***************************************************************************)
(* core/jobs.py and the handlers of api/jobs.py: one asyncio worker that   *)
(* drains an in-memory queue of jobs whose rows live in the database.      *)
(*                                                                         *)
(* Everything between two awaits is one action.  A step of this module     *)
(* therefore ends where the code awaits the database, the queue or the     *)
(* job's task, and any other handler may run before its continuation.      *)
(***************************************************************************)
EXTENDS Naturals, Sequences, FiniteSets

CONSTANTS
  Jobs,           \* job ids; each id is inserted at most once
  Clients,        \* concurrent HTTP callers of /jobs/{id}
  Registered,     \* jobs whose kind has a registered factory after a restart
  NoJob,          \* Python's None for a job id
  MaxRestarts,    \* bound: ends of the backend process
  MaxDbFailures   \* bound: commits of _mark that raise

ASSUME JobManagerAssumption ==
  /\ IsFiniteSet(Jobs)
  /\ NoJob \notin Jobs
  /\ Registered \subseteq Jobs
  /\ MaxRestarts \in Nat
  /\ MaxDbFailures \in Nat

VARIABLES
  row,          \* jobs.state of each row; "none" before insert, "gone" after delete
  entering,     \* rows committed by enqueue and not yet in pending
  pending,      \* keys of _pending
  queue,        \* _queue
  worker,       \* where the worker task is suspended, for which job, verdict
  body,         \* the asyncio task made from the job's factory
  current,      \* _current_job_id
  overtime,     \* now - _current_started has reached job_max_runtime_seconds
  cancelReq,    \* _cancel_requested
  calls,        \* the in-flight HTTP call of each client
  phase,        \* of the backend process
  restarts,     \* ends of the process so far
  dbFailures,   \* failed commits so far
  stranded,     \* history: jobs a failed commit left behind in this process
  executed      \* history: jobs whose body was ever started

memory == <<entering, pending, queue, worker, body, current, overtime,
            cancelReq, calls, stranded>>
vars == <<row, memory, phase, restarts, dbFailures, executed>>

MaybeJob   == Jobs \union {NoJob}
Terminal   == {"succeeded", "failed", "cancelled"}
RowStates  == {"none", "queued", "running", "gone"} \union Terminal
LiveBody   == {"running", "cancelling"}
EndedBody  == {"returned", "raised", "cancelled"}
BodyStates == {"none"} \union LiveBody \union EndedBody

NoCall     == [at |-> "idle", job |-> NoJob]
IdleWorker == [at |-> "idle", job |-> NoJob, verdict |-> "none"]
DeadWorker == [at |-> "dead", job |-> NoJob, verdict |-> "none"]

\* _mark on a row: it writes what it is told, and returns if the row is gone.
Mark(j, state) == [row EXCEPT ![j] = IF @ = "gone" THEN @ ELSE state]

\* The factory task is cancelled unless there is none or it is already done.
Interrupt(j) == [body EXCEPT ![j] = IF @ = "running" THEN "cancelling" ELSE @]

DbFails ==
  /\ dbFailures < MaxDbFailures
  /\ dbFailures' = dbFailures + 1

Orders(S) ==
  {q \in [1 .. Cardinality(S) -> S] : \A j \in S : \E i \in DOMAIN q : q[i] = j}

Init ==
  /\ row = [j \in Jobs |-> "none"]
  /\ entering = {} /\ pending = {} /\ queue = <<>>
  /\ worker = DeadWorker
  /\ body = [j \in Jobs |-> "none"]
  /\ current = NoJob /\ overtime = FALSE /\ cancelReq = {}
  /\ calls = [c \in Clients |-> NoCall]
  /\ phase = "down"
  /\ restarts = 0 /\ dbFailures = 0
  /\ stranded = {} /\ executed = {}
-----------------------------------------------------------------------------
(* Life of the backend process                                             *)

\* Mutant of Startup: rows found running are left as they are.
StartupKeepsRunning ==
  LET recover == {j \in Registered : row[j] = "queued"} IN
  /\ phase = "down"
  /\ phase' = "up"
  /\ row' = [j \in Jobs |->
               IF row[j] = "queued" /\ j \notin recover THEN "failed" ELSE row[j]]
  /\ pending' = recover
  /\ queue' \in Orders(recover)
  /\ worker' = IdleWorker
  /\ UNCHANGED <<entering, body, current, overtime, cancelReq, calls,
                 restarts, dbFailures, stranded, executed>>

\* start and _fail_orphans: queued rows with a factory are queued again, in
\* whatever order the SELECT returns them; every other live row fails.
Startup ==
  LET recover == {j \in Registered : row[j] = "queued"} IN
  /\ phase = "down"
  /\ phase' = "up"
  /\ row' = [j \in Jobs |->
               IF row[j] \in {"queued", "running"} /\ j \notin recover
               THEN "failed" ELSE row[j]]
  /\ pending' = recover
  /\ queue' \in Orders(recover)
  /\ worker' = IdleWorker
  /\ UNCHANGED <<entering, body, current, overtime, cancelReq, calls,
                 restarts, dbFailures, stranded, executed>>

\* The process is gone and its memory with it.  The "running" commit the
\* worker was awaiting may or may not have reached the database; the other
\* commits in flight are covered by their own action followed by this one.
ProcessEnds ==
  /\ phase' = "down"
  /\ restarts' = restarts + 1
  /\ entering' = {} /\ pending' = {} /\ queue' = <<>>
  /\ worker' = DeadWorker
  /\ body' = [j \in Jobs |-> "none"]
  /\ current' = NoJob /\ overtime' = FALSE /\ cancelReq' = {}
  /\ calls' = [c \in Clients |-> NoCall]
  /\ stranded' = {}
  /\ UNCHANGED <<dbFailures, executed>>

Crash ==
  /\ phase # "down" /\ restarts < MaxRestarts
  /\ \/ row' = row
     \/ worker.at = "starting" /\ row' = Mark(worker.job, "running")
  /\ ProcessEnds

\* stop, called by the lifespan once the requests are drained.  Cancelling a
\* worker that awaits a job's task only cancels that task: _execute takes the
\* CancelledError for the job's and the worker lives on.  Anywhere else the
\* CancelledError ends the worker; a commit it awaited may or may not land.
Stop ==
  /\ phase = "up" /\ restarts < MaxRestarts
  /\ entering = {} /\ \A c \in Clients : calls[c] = NoCall
  /\ phase' = "stopping"
  /\ \/ /\ worker.at = "body"
        /\ body' = [body EXCEPT ![worker.job] =
                      IF @ \in LiveBody THEN "cancelling" ELSE "cancelled"]
        /\ UNCHANGED <<row, worker, current, overtime, cancelReq>>
     \/ /\ worker.at # "body"
        /\ \/ row' = row
           \/ worker.at = "starting" /\ row' = Mark(worker.job, "running")
           \/ worker.at = "closing" /\ row' = Mark(worker.job, worker.verdict)
        /\ worker' = DeadWorker
        /\ UNCHANGED body
        /\ current' = IF worker.at = "closing" THEN NoJob ELSE current
        /\ overtime' = (overtime /\ worker.at # "closing")
        /\ cancelReq' = IF worker.at = "closing" THEN cancelReq \ {worker.job}
                        ELSE cancelReq
  /\ UNCHANGED <<entering, pending, queue, calls, restarts, dbFailures,
                 stranded, executed>>

\* stop awaits the worker; the process exits when that task is done.
StopReturns ==
  /\ phase = "stopping" /\ worker = DeadWorker
  /\ row' = row
  /\ ProcessEnds
-----------------------------------------------------------------------------
(* enqueue                                                                 *)

EnqueueCommit(j) ==
  /\ phase = "up" /\ row[j] = "none"
  /\ row' = [row EXCEPT ![j] = "queued"]
  /\ entering' = entering \union {j}
  /\ UNCHANGED <<pending, queue, worker, body, current, overtime, cancelReq,
                 calls, phase, restarts, dbFailures, stranded, executed>>

\* Mutant of EnqueueTrack: the job is pending but its id is not queued.
EnqueueForgetsQueue(j) ==
  /\ phase = "up" /\ j \in entering
  /\ entering' = entering \ {j}
  /\ pending' = pending \union {j}
  /\ UNCHANGED <<row, queue, worker, body, current, overtime, cancelReq, calls,
                 phase, restarts, dbFailures, stranded, executed>>

EnqueueTrack(j) ==
  /\ phase = "up" /\ j \in entering
  /\ entering' = entering \ {j}
  /\ pending' = pending \union {j}
  /\ queue' = Append(queue, j)
  /\ UNCHANGED <<row, worker, body, current, overtime, cancelReq, calls,
                 phase, restarts, dbFailures, stranded, executed>>
-----------------------------------------------------------------------------
(* The worker: _run and _execute                                           *)

\* A queue entry whose job left _pending was cancelled before its start.
WorkerSkip ==
  /\ worker.at = "idle" /\ queue # <<>> /\ Head(queue) \notin pending
  /\ queue' = Tail(queue)
  /\ UNCHANGED <<row, entering, pending, worker, body, current, overtime,
                 cancelReq, calls, phase, restarts, dbFailures, stranded,
                 executed>>

\* Mutant of WorkerTake: whether the job was withdrawn is not looked up.
WorkerTakesAny ==
  /\ worker.at = "idle" /\ queue # <<>>
  /\ queue' = Tail(queue)
  /\ pending' = pending \ {Head(queue)}
  /\ worker' = [at |-> "starting", job |-> Head(queue), verdict |-> "none"]
  /\ current' = Head(queue)
  /\ overtime' = FALSE
  /\ UNCHANGED <<row, entering, body, cancelReq, calls, phase, restarts,
                 dbFailures, stranded, executed>>

WorkerTake ==
  /\ worker.at = "idle" /\ queue # <<>> /\ Head(queue) \in pending
  /\ queue' = Tail(queue)
  /\ pending' = pending \ {Head(queue)}
  /\ worker' = [at |-> "starting", job |-> Head(queue), verdict |-> "none"]
  /\ current' = Head(queue)
  /\ overtime' = FALSE
  /\ UNCHANGED <<row, entering, body, cancelReq, calls, phase, restarts,
                 dbFailures, stranded, executed>>

\* Mutant of WorkerStart: the task is created and the row still says queued.
WorkerStartsUnmarked ==
  /\ worker.at = "starting"
  /\ body' = [body EXCEPT ![worker.job] = "running"]
  /\ worker' = [at |-> "body", job |-> worker.job, verdict |-> "none"]
  /\ executed' = executed \union {worker.job}
  /\ UNCHANGED <<row, entering, pending, queue, current, overtime, cancelReq,
                 calls, phase, restarts, dbFailures, stranded>>

\* The row says running, then the factory's task is created.
WorkerStart ==
  /\ worker.at = "starting"
  /\ row' = Mark(worker.job, "running")
  /\ body' = [body EXCEPT ![worker.job] = "running"]
  /\ worker' = [at |-> "body", job |-> worker.job, verdict |-> "none"]
  /\ executed' = executed \union {worker.job}
  /\ UNCHANGED <<entering, pending, queue, current, overtime, cancelReq,
                 calls, phase, restarts, dbFailures, stranded>>

\* That commit raises before the try block: nothing is cleaned up.
WorkerStartFails ==
  /\ worker.at = "starting" /\ DbFails
  /\ worker' = IdleWorker
  /\ stranded' = stranded \union {worker.job}
  /\ UNCHANGED <<row, entering, pending, queue, body, current, overtime,
                 cancelReq, calls, phase, restarts, executed>>

\* A body ends by itself or under cancellation; one that polls ctx.cancelled
\* raises CancelledError unasked.
BodyEnds(j, how) ==
  /\ \/ body[j] = "running" /\ (how = "cancelled" => j \in cancelReq)
     \/ body[j] = "cancelling"
  /\ body' = [body EXCEPT ![j] = how]
  /\ UNCHANGED <<row, entering, pending, queue, worker, current, overtime,
                 cancelReq, calls, phase, restarts, dbFailures, stranded,
                 executed>>

\* Mutant of Verdict: the row gets the outcome of the task, not a job state.
VerdictIsOutcome(j) == body[j]

Verdict(j) ==
  IF body[j] = "raised" THEN "failed"
  ELSE IF body[j] = "cancelled" \/ j \in cancelReq THEN "cancelled"
  ELSE "succeeded"

\* Mutant of WorkerReap: the task is not awaited to its end.
WorkerReapsEarly ==
  /\ worker.at = "body"
  /\ worker' = [at |-> "closing", job |-> worker.job,
                verdict |-> Verdict(worker.job)]
  /\ UNCHANGED <<row, entering, pending, queue, body, current, overtime, cancelReq,
                 calls, phase, restarts, dbFailures, stranded, executed>>

\* Mutant of WorkerReap: the task's CancelledError is not caught.
WorkerReapsUncancelled ==
  /\ worker.at = "body" /\ body[worker.job] \in {"returned", "raised"}
  /\ worker' = [at |-> "closing", job |-> worker.job,
                verdict |-> Verdict(worker.job)]
  /\ body' = [body EXCEPT ![worker.job] = "none"]
  /\ UNCHANGED <<row, entering, pending, queue, current, overtime, cancelReq,
                 calls, phase, restarts, dbFailures, stranded, executed>>

WorkerReap ==
  /\ worker.at = "body" /\ body[worker.job] \in EndedBody
  /\ worker' = [at |-> "closing", job |-> worker.job,
                verdict |-> Verdict(worker.job)]
  /\ body' = [body EXCEPT ![worker.job] = "none"]
  /\ UNCHANGED <<row, entering, pending, queue, current, overtime, cancelReq,
                 calls, phase, restarts, dbFailures, stranded, executed>>

\* The finally block, reached whether the terminal commit worked or raised.
ClearCurrent ==
  /\ worker' = IdleWorker
  /\ current' = NoJob
  /\ overtime' = FALSE
  /\ cancelReq' = cancelReq \ {worker.job}
  /\ UNCHANGED <<entering, pending, queue, body, calls, phase, restarts,
                 executed>>

WorkerClose ==
  /\ worker.at = "closing"
  /\ row' = Mark(worker.job, worker.verdict)
  /\ ClearCurrent
  /\ UNCHANGED <<dbFailures, stranded>>

WorkerCloseFails ==
  /\ worker.at = "closing" /\ DbFails
  /\ stranded' = stranded \union {worker.job}
  /\ ClearCurrent
  /\ UNCHANGED row
-----------------------------------------------------------------------------
(* _run_watchdog                                                           *)

TimePasses ==
  /\ phase = "up" /\ current # NoJob /\ ~overtime
  /\ overtime' = TRUE
  /\ UNCHANGED <<row, entering, pending, queue, worker, body, current,
                 cancelReq, calls, phase, restarts, dbFailures, stranded,
                 executed>>

\* Mutant of Watchdog: it only looks at jobs that were asked to cancel.
WatchdogOfTheAsked ==
  /\ phase = "up" /\ current # NoJob /\ overtime /\ current \in cancelReq
  /\ body' = Interrupt(current)
  /\ UNCHANGED <<row, entering, pending, queue, worker, current, overtime, cancelReq,
                 calls, phase, restarts, dbFailures, stranded, executed>>

\* A job somebody already asked to cancel is left alone.
Watchdog ==
  /\ phase = "up" /\ current # NoJob /\ overtime /\ current \notin cancelReq
  /\ cancelReq' = cancelReq \union {current}
  /\ body' = Interrupt(current)
  /\ UNCHANGED <<row, entering, pending, queue, worker, current, overtime,
                 calls, phase, restarts, dbFailures, stranded, executed>>
-----------------------------------------------------------------------------
(* POST /jobs/{id}/cancel, DELETE /jobs/{id}, POST /jobs/prune             *)

Call(c, at, j) == calls' = [calls EXCEPT ![c] = [at |-> at, job |-> j]]
Return(c)      == calls' = [calls EXCEPT ![c] = NoCall]

\* 404 and 409 end the call at once and change nothing.
CancelRead(c, j) ==
  /\ phase = "up" /\ calls[c] = NoCall
  /\ row[j] \in {"queued", "running"}
  /\ Call(c, "cancelRead", j)
  /\ UNCHANGED <<row, entering, pending, queue, worker, body, current,
                 overtime, cancelReq, phase, restarts, dbFailures, stranded,
                 executed>>

\* request_cancel up to its first await.
CancelDecide(c) ==
  LET j == calls[c].job IN
  /\ calls[c].at = "cancelRead"
  /\ \/ /\ j = current
        /\ cancelReq' = cancelReq \union {j}
        /\ body' = Interrupt(j)
        /\ Return(c)
        /\ UNCHANGED pending
     \/ /\ j # current /\ j \in pending
        /\ pending' = pending \ {j}
        /\ Call(c, "cancelMark", j)
        /\ UNCHANGED <<cancelReq, body>>
     \/ /\ j # current /\ j \notin pending
        /\ Call(c, "cancelUntracked", j)
        /\ UNCHANGED <<cancelReq, body, pending>>
  /\ UNCHANGED <<row, entering, queue, worker, current, overtime, phase,
                 restarts, dbFailures, stranded, executed>>

\* The commit of either path: request_cancel's _mark, or the handler's own
\* write of the row it loaded before asking the manager.
CancelCommit(c) ==
  /\ calls[c].at \in {"cancelMark", "cancelUntracked"}
  /\ row' = Mark(calls[c].job, "cancelled")
  /\ Return(c)
  /\ UNCHANGED <<entering, pending, queue, worker, body, current, overtime,
                 cancelReq, phase, restarts, dbFailures, stranded, executed>>

CancelMarkFails(c) ==
  /\ calls[c].at = "cancelMark" /\ DbFails
  /\ stranded' = stranded \union {calls[c].job}
  /\ Return(c)
  /\ UNCHANGED <<row, entering, pending, queue, worker, body, current,
                 overtime, cancelReq, phase, restarts, executed>>

DeleteRead(c, j) ==
  /\ phase = "up" /\ calls[c] = NoCall
  /\ row[j] \in Terminal
  /\ Call(c, "delete", j)
  /\ UNCHANGED <<row, entering, pending, queue, worker, body, current,
                 overtime, cancelReq, phase, restarts, dbFailures, stranded,
                 executed>>

DeleteCommit(c) ==
  /\ calls[c].at = "delete"
  /\ row' = [row EXCEPT ![calls[c].job] = "gone"]
  /\ Return(c)
  /\ UNCHANGED <<entering, pending, queue, worker, body, current, overtime,
                 cancelReq, phase, restarts, dbFailures, stranded, executed>>

Prune(wanted) ==
  /\ phase = "up"
  /\ \E j \in Jobs : row[j] \in wanted
  /\ row' = [j \in Jobs |-> IF row[j] \in wanted THEN "gone" ELSE row[j]]
  /\ UNCHANGED <<memory, phase, restarts, dbFailures, executed>>
-----------------------------------------------------------------------------
WorkerStep ==
  \/ WorkerSkip \/ WorkerTake
  \/ WorkerStart \/ WorkerStartFails
  \/ WorkerReap
  \/ WorkerClose \/ WorkerCloseFails

ClientStep(c) ==
  \/ \E j \in Jobs : CancelRead(c, j) \/ DeleteRead(c, j)
  \/ CancelDecide(c) \/ CancelCommit(c) \/ CancelMarkFails(c)
  \/ DeleteCommit(c)

Next ==
  \/ Startup \/ Crash \/ Stop \/ StopReturns
  \/ \E j \in Jobs : EnqueueCommit(j) \/ EnqueueTrack(j)
  \/ WorkerStep
  \/ \E j \in Jobs, how \in EndedBody : BodyEnds(j, how)
  \/ TimePasses \/ Watchdog
  \/ \E c \in Clients : ClientStep(c)
  \/ \E wanted \in SUBSET Terminal : Prune(wanted)

Spec == Init /\ [][Next]_vars

\* The event loop runs every task that is ready, the watchdog's clock
\* advances, and a coroutine that was thrown a CancelledError ends.  A body
\* left alone may hang, users need not call, nobody must restart a process.
Fairness ==
  /\ WF_vars(WorkerSkip \/ WorkerTake \/ WorkerStart \/ WorkerReap \/ WorkerClose)
  /\ \A j \in Jobs :
       /\ WF_vars(EnqueueTrack(j))
       /\ WF_vars(body[j] = "cancelling" /\ \E how \in EndedBody : BodyEnds(j, how))
  /\ WF_vars(TimePasses) /\ WF_vars(Watchdog)
  /\ \A c \in Clients : WF_vars(CancelDecide(c) \/ CancelCommit(c) \/ DeleteCommit(c))

FairSpec == Spec /\ Fairness
-----------------------------------------------------------------------------
(* Properties                                                              *)

\* Every variable of the job manager stays within its type.
RowType == row \in [Jobs -> RowStates]

QueueType ==
  /\ entering \subseteq Jobs /\ pending \subseteq Jobs
  /\ queue \in Seq(Jobs)

WorkerType ==
  /\ worker \in {IdleWorker, DeadWorker}
        \union [at : {"starting", "body"}, job : Jobs, verdict : {"none"}]
        \union [at : {"closing"}, job : Jobs, verdict : Terminal]
  /\ body \in [Jobs -> BodyStates]
  /\ current \in MaybeJob /\ overtime \in BOOLEAN
  /\ cancelReq \subseteq Jobs

CallType ==
  calls \in [Clients -> {NoCall} \union
    [at : {"cancelRead", "cancelMark", "cancelUntracked", "delete"}, job : Jobs]]

ProcessType ==
  /\ phase \in {"up", "stopping", "down"}
  /\ restarts \in 0 .. MaxRestarts /\ dbFailures \in 0 .. MaxDbFailures
  /\ phase = "stopping" => restarts < MaxRestarts
  /\ stranded \subseteq Jobs /\ executed \subseteq Jobs

TypeOK == RowType /\ QueueType /\ WorkerType /\ CallType /\ ProcessType

\* No queued job is lost: while the backend is up, a row that says queued is
\* about to be tracked by enqueue, is waiting in _pending and in the queue,
\* is being started or withdrawn, or was left behind by a failed commit.
QueuedIsTracked ==
  phase = "up" =>
    \A j \in Jobs : row[j] = "queued" =>
      \/ j \in entering
      \/ j \in pending /\ \E i \in DOMAIN queue : queue[i] = j
      \/ worker.at = "starting" /\ worker.job = j
      \/ \E c \in Clients : calls[c].at = "cancelMark" /\ calls[c].job = j
      \/ j \in stranded

\* While the backend is up, a row that says running belongs to the job the
\* worker is executing: no crash, restart or cancel leaves another one behind,
\* except a terminal commit that failed.
RunningIsOwned ==
  phase = "up" =>
    \A j \in Jobs : row[j] = "running" =>
      \/ worker.at \in {"body", "closing"} /\ worker.job = j
      \/ j \in stranded

\* What a poller may conclude from succeeded or failed: the job's coroutine is
\* over.  (It may not conclude it from cancelled, see TerminalIsFinal.)
SettledMeansOver ==
  \A j \in Jobs : row[j] \in {"succeeded", "failed"} => body[j] = "none"

\* The inductive invariant behind the theorems of JobManagerProofs: a task
\* exists only under the worker that awaits it, and a job that was ever
\* executed can be neither queued in the database nor waiting in memory.
BodyOwned ==
  /\ \A j \in Jobs : body[j] # "none" =>
       worker.at = "body" /\ worker.job = j /\ j \in executed
  /\ worker.at = "body" => body[worker.job] # "none"

Waiting(j) == j \in entering \union pending \/ (worker.at = "starting" /\ worker.job = j)

NeverAgain ==
  \A j \in executed : row[j] \notin {"none", "queued"} /\ ~Waiting(j)

WaitsOnce ==
  /\ \A j \in Jobs : Waiting(j) => row[j] # "none"
  /\ entering \intersect pending = {}
  /\ worker.at = "starting" => worker.job \notin entering \union pending

DownIsEmpty ==
  phase = "down" => entering = {} /\ pending = {} /\ worker = DeadWorker

IInv == TypeOK /\ BodyOwned /\ NeverAgain /\ WaitsOnce /\ DownIsEmpty

\* Bodies run at most once and one at a time, over any number of crashes,
\* restarts, failed commits and cancels.
Exec ==
  [j \in Jobs |-> IF body[j] \in LiveBody THEN "executing"
                  ELSE IF j \in executed THEN "over" ELSE "waiting"]

Executor == INSTANCE SerialExecutor WITH exec <- Exec

ExecutesSerially == Executor!Spec

\* A cancelled row the manager no longer holds in any form is final: its job,
\* which may still sit in the queue, is never taken by the worker.
WithdrawnStaysCancelled ==
  [][\A j \in Jobs :
        row[j] = "cancelled" /\ j \notin entering \union pending /\ worker.job # j
        => row'[j] \in {"cancelled", "gone"} /\ worker'.job # j]_vars

\* A cancel that reached the manager but not the task: it came while _execute
\* awaited the running mark, before there was a task to cancel.
Deaf == worker.at = "body" /\ current \in cancelReq /\ body[current] = "running"

\* Even when bodies hang, every queued job is eventually settled as long as the
\* process lives, commits work, and no cancel fell into the starting window.
QueuedEventuallySettles ==
  \A j \in Jobs :
    row[j] = "queued" ~> \/ row[j] \in Terminal \union {"gone"}
                         \/ phase # "up" \/ stranded # {} \/ Deaf

\* A cancelled job does get stopped: a body the user or the watchdog asked to
\* cancel while its task existed comes to its end, and so does its row.
InterruptedEventuallySettles ==
  \A j \in Jobs :
    body[j] = "cancelling" ~> \/ row[j] \in Terminal \union {"gone"}
                              \/ phase # "up" \/ j \in stranded

\* Claimed by mcp/composites.py wait_for_job ("Block until the job terminates,
\* then return its final JobOut"): a terminal state is the row's last.
TerminalIsFinal ==
  [][\A j \in Jobs : row[j] \in Terminal => row'[j] \in {row[j], "gone"}]_vars

\* Claimed by _run_watchdog ("Auto-cancel a job that has been running past the
\* runtime cap"): an overdue body does not go on running.
OvertimeIsCancelled ==
  \A j \in Jobs : (body[j] = "running" /\ overtime) ~> body[j] # "running"

\* Claimed by the module's docstring ("registered queued jobs are restored"):
\* a job that is still queued while the backend stops is left queued.
QueuedSurvivesStop ==
  [][phase = "stopping" =>
        \A j \in Jobs : row[j] = "queued" => row'[j] = "queued"]_vars
=============================================================================
