-------------------------- MODULE SupervisorProofs --------------------------
(***************************************************************************)
(* Theorems about Supervisor, for any set of definitions and any number of *)
(* pending watchers, backend restarts and failed commits.                  *)
(***************************************************************************)
EXTENDS Supervisor, TLAPS

USE SupervisorAssumption

\* The start call is described by its stage.
LEMMA StartIs ==
  ASSUME StartType
  PROVE  /\ start.at \in {"idle", "loading", "configuring", "spawning", "marking"}
         /\ start.at # "idle" => start.server \in Servers /\ start.save \in Selections
         /\ start.at = "marking" => start.proc \in Slots
BY DEF StartType, NoStart

\* A call that is under way is built from a server, what it read, and a slot.
LEMMA StartingTyped ==
  ASSUME NEW s \in Servers, NEW sel \in Selections
  PROVE  /\ \A at \in {"loading", "configuring", "spawning"} :
              Starting(at, s, sel, Nobody) \in
                [at : {"loading", "configuring", "spawning"}, server : Servers,
                 save : Selections, proc : {Nobody}]
         /\ \A p \in Slots : Starting("marking", s, sel, p) \in
                [at : {"marking"}, server : Servers, save : Selections, proc : Slots]
BY DEF Starting

LEMMA StartTypeStep ==
  ASSUME TypeOK, [Next]_vars
  PROVE  StartType'
<1> USE DEF TypeOK
<1>1. ASSUME NEW s \in Servers, StartCall(s) PROVE StartType'
  BY <1>1, StartingTyped DEF StartCall, StartType
<1>2. CASE StartLoad
  BY <1>2, StartIs, StartingTyped DEF StartLoad, StartType, RowsType
<1>3. CASE StartConfigure
  <2>1. PICK sel \in Selections : start' = Starting("spawning", start.server, sel, Nobody)
    BY <1>3, StartIs DEF StartConfigure
  <2>2. start.server \in Servers
    BY <1>3, StartIs DEF StartConfigure
  <2> QED
    BY <2>1, <2>2, StartingTyped DEF StartType
<1>4. ASSUME NEW p \in Slots, StartSpawn(p) PROVE StartType'
  BY <1>4, StartIs, StartingTyped DEF StartSpawn, StartType
<1>5. CASE start' = NoStart
  BY <1>5 DEF StartType
<1>6. CASE UNCHANGED start
  BY <1>6 DEF StartType
<1> QED
  BY <1>1, <1>2, <1>3, <1>4, <1>5, <1>6
     DEF Next, vars, Reconcile, BackendEnds, StartStep, StartRefused,
         StartAborts, StartMark, StartMarkFails, WatchStep, WatchRecord,
         WatchRecordFails, WatchEnds, ProcessExits, ScheduleFires, RestartSent,
         Request, StopCall, ScheduleRestart, CancelRestart, Arm, DeleteCheck,
         DeleteCommit

LEMMA RowsTypeStep ==
  ASSUME TypeOK, [Next]_vars
  PROVE  RowsType'
<1> USE DEF TypeOK, RowsType
<1>1. CASE Reconcile
  BY <1>1 DEF Reconcile, LastStates
<1>2. CASE StartConfigure
  BY <1>2, StartIs DEF StartConfigure
<1>3. CASE StartMark
  BY <1>3, StartIs DEF StartMark, LastStates
<1>4. ASSUME NEW p \in Slots, WatchRecord(p) PROVE RowsType'
  <2>1. Outcome(p) \in LastStates
    BY DEF Outcome, LastStates
  <2> QED
    BY <1>4, <2>1 DEF WatchRecord
<1>5. ASSUME NEW s \in Servers, DeleteCheck(s) \/ DeleteCommit(s) PROVE RowsType'
  BY <1>5 DEF DeleteCheck, DeleteCommit, rows
<1>6. ASSUME NEW s \in Servers, NEW sel \in Selections, Arm(s, sel) PROVE RowsType'
  BY <1>6 DEF Arm
<1>7. CASE BackendEnds
  BY <1>7 DEF BackendEnds, rows
<1>8. CASE UNCHANGED <<rows, deleting>>
  BY <1>8 DEF rows
<1> QED
  BY <1>1, <1>2, <1>3, <1>4, <1>5, <1>6, <1>7, <1>8
     DEF Next, vars, StartStep, StartCall, StartLoad, StartRefused, StartSpawn,
         StartAborts, StartMarkFails, WatchStep, WatchRecordFails, WatchEnds,
         ProcessExits, ScheduleFires, RestartSent, Request, StopCall,
         ScheduleRestart, CancelRestart

\* A schedule is none, or made of a stage and a slot.
LEMMA ScheduleIs ==
  ASSUME ProcsType
  PROVE  /\ schedule.at \in {"none", "armed", "sending"}
         /\ schedule.at # "none" => schedule # NoSchedule /\ schedule.proc \in Slots
         /\ schedule # NoSchedule => schedule.proc \in Slots
BY DEF ProcsType, NoSchedule

LEMMA ProcsTypeStep ==
  ASSUME TypeOK, [Next]_vars
  PROVE  ProcsType'
<1> USE DEF TypeOK, ProcsType
<1>1. CASE BackendEnds
  BY <1>1 DEF BackendEnds, StopRequests
<1>2. ASSUME NEW p \in Slots, StartSpawn(p) PROVE ProcsType'
  BY <1>2, StartIs DEF StartSpawn, StopRequests
<1>3. ASSUME NEW p \in Slots, NEW rc \in {0, 1}, ProcessExits(p, rc) PROVE ProcsType'
  BY <1>3 DEF ProcessExits
<1>4. ASSUME NEW p \in Slots, WatchStep(p) PROVE ProcsType'
  BY <1>4 DEF WatchStep, WatchRecord, WatchRecordFails, WatchEnds, Forget, StopRequests
<1>5. ASSUME NEW s \in Servers, StopCall(s) PROVE ProcsType'
  BY <1>5 DEF StopCall, StopRequests
<1>6. ASSUME NEW s \in Servers, ScheduleRestart(s) \/ CancelRestart(s) PROVE ProcsType'
  BY <1>6 DEF ScheduleRestart, CancelRestart, IsRunning, procs
<1>7. CASE ScheduleFires
  BY <1>7, ScheduleIs DEF ScheduleFires, StopRequests
<1>8. ASSUME NEW delivered \in BOOLEAN, RestartSent(delivered) PROVE ProcsType'
  BY <1>8, ScheduleIs DEF RestartSent, StopRequests
<1>9. CASE UNCHANGED <<procs, active, schedule>>
  BY <1>9 DEF procs
<1> QED
  BY <1>1, <1>2, <1>3, <1>4, <1>5, <1>6, <1>7, <1>8, <1>9
     DEF Next, vars, Reconcile, StartStep, StartCall, StartLoad, StartRefused,
         StartConfigure, StartAborts, StartMark, StartMarkFails, Request, Arm,
         DeleteCheck, DeleteCommit

LEMMA ProcessTypeStep ==
  ASSUME TypeOK, [Next]_vars
  PROVE  ProcessType'
<1> USE DEF TypeOK, ProcessType
<1>1. CASE Reconcile \/ BackendEnds
  BY <1>1 DEF Reconcile, BackendEnds
<1>2. CASE StartStep
  BY <1>2 DEF StartStep, StartLoad, StartRefused, StartConfigure, StartAborts,
       StartSpawn, StartMark, StartMarkFails, DbFails
<1>3. ASSUME NEW p \in Slots, WatchStep(p) PROVE ProcessType'
  BY <1>3 DEF WatchStep, WatchRecord, WatchRecordFails, WatchEnds, DbFails
<1>4. CASE UNCHANGED <<phase, restarts, dbFailures>>
  BY <1>4
<1> QED
  BY <1>1, <1>2, <1>3, <1>4
     DEF Next, vars, ProcessExits, ScheduleFires, RestartSent, Request,
         StartCall, StopCall, ScheduleRestart, CancelRestart, Arm, DeleteCheck,
         DeleteCommit

\* Every variable of the supervisor keeps its type.
THEOREM TypeCorrect == Spec => []TypeOK
<1>1. Init => TypeOK
  BY DEF Init, TypeOK, RowsType, StartType, ProcsType, ProcessType, LastStates,
     StopRequests
<1>2. TypeOK /\ [Next]_vars => TypeOK'
  BY StartTypeStep, RowsTypeStep, ProcsTypeStep, ProcessTypeStep DEF TypeOK
<1> QED
  BY <1>1, <1>2, PTL DEF Spec
-----------------------------------------------------------------------------
(* The handle, the lock and the schedule                                   *)

\* Only start brings a process to life, and only its own watcher forgets it.
LEMMA AliveStep ==
  ASSUME TypeOK, [Next]_vars
  PROVE  \/ \E p \in Slots : StartSpawn(p)
         \/ \E p \in Slots, rc \in {0, 1} : ProcessExits(p, rc)
         \/ alive' = {}
         \/ alive' = alive /\ active' = active
         \/ alive' = alive /\ \E p \in Slots : WatchEnds(p)
<1>1. CASE BackendEnds
  BY <1>1 DEF BackendEnds
<1>2. CASE UNCHANGED <<alive, active>>
  BY <1>2
<1>3. ASSUME NEW p \in Slots, WatchStep(p)
      PROVE  alive' = alive /\ (active' = active \/ WatchEnds(p))
  BY <1>3 DEF WatchStep, WatchRecord, WatchRecordFails, WatchEnds, Forget
<1> QED
  BY <1>1, <1>2, <1>3
     DEF Next, vars, procs, Reconcile, StartStep, StartCall, StartLoad,
         StartRefused, StartConfigure, StartAborts, StartMark, StartMarkFails,
         ScheduleFires, RestartSent, Request, StopCall, ScheduleRestart,
         CancelRestart, Arm, DeleteCheck, DeleteCommit

LEMMA AliveIsActiveStep ==
  ASSUME IInv, [Next]_vars
  PROVE  AliveIsActive'
<1> USE DEF AliveIsActive
<1>1. ASSUME NEW p \in Slots, StartSpawn(p) PROVE AliveIsActive'
  BY <1>1 DEF StartSpawn, IInv, StartsAlone
<1>2. ASSUME NEW p \in Slots, WatchEnds(p) PROVE AliveIsActive'
  <2>1. p \notin alive
    BY <1>2 DEF WatchEnds, IInv, WatcherAwaits
  <2> QED
    BY <1>2, <2>1 DEF WatchEnds, Forget, IInv
<1>3. ASSUME NEW p \in Slots, NEW rc \in {0, 1}, ProcessExits(p, rc) PROVE AliveIsActive'
  BY <1>3 DEF ProcessExits, IInv
<1> QED
  BY <1>1, <1>2, <1>3, AliveStep DEF IInv

LEMMA StartsAloneStep ==
  ASSUME IInv, [Next]_vars
  PROVE  StartsAlone'
<1> USE DEF StartsAlone
<1>1. ASSUME NEW s \in Servers, StartCall(s) PROVE StartsAlone'
  BY <1>1 DEF StartCall, IsRunning, IInv, AliveIsActive, procs
<1>2. CASE StartStep
  BY <1>2 DEF StartStep, StartLoad, StartRefused, StartConfigure, StartAborts,
     StartSpawn, StartMark, StartMarkFails, Starting, NoStart, procs, IInv
<1>3. CASE start' = start /\ alive' \subseteq alive
  BY <1>3 DEF IInv
<1>4. CASE BackendEnds
  BY <1>4 DEF BackendEnds
<1> QED
  BY <1>1, <1>2, <1>3, <1>4
     DEF Next, vars, procs, Reconcile, WatchStep, WatchRecord, WatchRecordFails,
         WatchEnds, Forget, ProcessExits, ScheduleFires, RestartSent, Request,
         StopCall, ScheduleRestart, CancelRestart, Arm, DeleteCheck,
         DeleteCommit

LEMMA WatcherAwaitsStep ==
  ASSUME IInv, [Next]_vars
  PROVE  WatcherAwaits'
<1> USE DEF WatcherAwaits
<1>0. ProcsType /\ StartType
  BY DEF IInv, TypeOK
<1>1. ASSUME NEW p \in Slots, StartSpawn(p) PROVE WatcherAwaits'
  <2>1. start.server \in Servers
    BY <1>0, <1>1, StartIs DEF StartSpawn
  <2> QED
    BY <1>0, <1>1, <2>1 DEF StartSpawn, ProcsType, IInv
<1>2. ASSUME NEW p \in Slots, WatchStep(p) PROVE WatcherAwaits'
  BY <1>0, <1>2 DEF WatchStep, WatchRecord, WatchRecordFails, WatchEnds, Forget,
     ProcsType, IInv
<1>3. ASSUME NEW p \in Slots, NEW rc \in {0, 1}, ProcessExits(p, rc) PROVE WatcherAwaits'
  BY <1>0, <1>3 DEF ProcessExits, ProcsType, IInv
<1>4. CASE BackendEnds
  BY <1>4 DEF BackendEnds
<1>5. CASE UNCHANGED <<owner, alive, watch>>
  BY <1>5 DEF IInv
<1> QED
  BY <1>1, <1>2, <1>3, <1>4, <1>5
     DEF Next, vars, procs, Reconcile, StartStep, StartCall, StartLoad,
         StartRefused, StartConfigure, StartAborts, StartMark, StartMarkFails,
         ScheduleFires, RestartSent, Request, StopCall, ScheduleRestart,
         CancelRestart, Arm, DeleteCheck, DeleteCommit

LEMMA ScheduleStep ==
  ASSUME IInv, [Next]_vars
  PROVE  ScheduleFollowsProcess'
<1> USE DEF ScheduleFollowsProcess
<1>0. ProcsType /\ StartType
  BY DEF IInv, TypeOK
<1>1. ASSUME NEW p \in Slots, StartSpawn(p) PROVE ScheduleFollowsProcess'
  BY <1>1 DEF StartSpawn, IInv, StartsAlone
<1>2. ASSUME NEW p \in Slots, WatchEnds(p) PROVE ScheduleFollowsProcess'
  BY <1>2 DEF WatchEnds, Forget, IInv, WatcherAwaits
<1>3. ASSUME NEW p \in Slots, NEW rc \in {0, 1}, ProcessExits(p, rc)
      PROVE  ScheduleFollowsProcess'
  BY <1>3 DEF ProcessExits, IInv, AliveIsActive
<1>4. ASSUME NEW s \in Servers, ScheduleRestart(s) \/ CancelRestart(s)
      PROVE  ScheduleFollowsProcess'
  BY <1>4 DEF ScheduleRestart, CancelRestart, IsRunning, procs, IInv
<1>5. CASE ScheduleFires \/ \E delivered \in BOOLEAN : RestartSent(delivered)
  BY <1>5 DEF ScheduleFires, RestartSent, IInv
<1>6. CASE BackendEnds
  BY <1>6 DEF BackendEnds
<1>7. CASE UNCHANGED <<schedule, active, alive>>
  BY <1>7 DEF IInv
<1> QED
  BY <1>1, <1>2, <1>3, <1>4, <1>5, <1>6, <1>7
     DEF Next, vars, procs, Reconcile, StartStep, StartCall, StartLoad,
         StartRefused, StartConfigure, StartAborts, StartMark, StartMarkFails,
         WatchStep, WatchRecord, WatchRecordFails, Forget, Request, StopCall,
         Arm, DeleteCheck, DeleteCommit

\* The strengthened invariant holds in every state.
THEOREM Inductive == Spec => []IInv
<1>1. Init => IInv
  BY DEF Init, IInv, TypeOK, RowsType, StartType, ProcsType, ProcessType, LastStates,
     StopRequests, AliveIsActive, ScheduleFollowsProcess, StartsAlone,
     WatcherAwaits, NoStart
<1>2. IInv /\ [Next]_vars => IInv'
  <2> SUFFICES ASSUME IInv, [Next]_vars PROVE IInv'
    OBVIOUS
  <2>1. TypeOK'
    BY StartTypeStep, RowsTypeStep, ProcsTypeStep, ProcessTypeStep DEF TypeOK, IInv
  <2> QED
    BY <2>1, AliveIsActiveStep, StartsAloneStep, WatcherAwaitsStep, ScheduleStep
       DEF IInv
<1> QED
  BY <1>1, <1>2, PTL DEF Spec

\* No interleaving of start, stop, watchers and the schedule loses the handle
\* on a process that is alive.
THEOREM HandleIsKept == Spec => []AliveIsActive
<1>1. IInv => AliveIsActive
  BY DEF IInv
<1> QED
  BY <1>1, Inductive, PTL

\* A scheduled restart is dropped with the process it was armed for.
THEOREM ScheduleNeverOutlives == Spec => []ScheduleFollowsProcess
<1>1. IInv => ScheduleFollowsProcess
  BY DEF IInv
<1> QED
  BY <1>1, Inductive, PTL
-----------------------------------------------------------------------------
(* The single-server rule                                                  *)

\* The one process that may be alive tells which definition runs.
LEMMA RunningIs ==
  ASSUME IInv
  PROVE  /\ alive = {} => Running = Nobody
         /\ \A p \in alive : Running = owner[p] /\ owner[p] \in Servers
<1>1. \A p \in alive : alive = {p}
  BY DEF IInv, AliveIsActive
<1>2. \A p \in alive : owner[p] \in Servers
  BY DEF IInv, WatcherAwaits, TypeOK, ProcsType
<1> QED
  BY <1>1, <1>2 DEF Running

LEMMA RuleStep ==
  ASSUME IInv, IInv', [Next]_vars
  PROVE  [Rule!Next]_Running
<1>1. ASSUME NEW p \in Slots, StartSpawn(p) PROVE Rule!Next
  <2>1. Running = Nobody
    BY <1>1, RunningIs DEF StartSpawn, IInv, StartsAlone
  <2>2. start.server \in Servers
    BY <1>1, StartIs DEF StartSpawn, IInv, TypeOK
  <2>3. alive' = {p} /\ owner'[p] = start.server
    BY <1>1 DEF StartSpawn, IInv, TypeOK, ProcsType, StartsAlone
  <2>4. Running' = start.server
    BY <2>3 DEF Running
  <2> QED
    BY <2>1, <2>2, <2>4 DEF Rule!Next, Rule!Launch
<1>2. CASE alive' = {}
  <2>1. Running' = Nobody
    BY <1>2 DEF Running
  <2>2. CASE alive = {}
    BY <2>1, <2>2, RunningIs
  <2>3. CASE alive # {}
    <3>1. Running # Nobody
      BY <2>3, RunningIs
    <3> QED
      BY <2>1, <3>1 DEF Rule!Next, Rule!End
  <2> QED
    BY <2>2, <2>3
<1>3. ASSUME NEW p \in Slots, NEW rc \in {0, 1}, ProcessExits(p, rc) PROVE Rule!Next
  <2>1. alive' = {}
    BY <1>3 DEF ProcessExits, IInv, AliveIsActive
  <2>2. Running' = Nobody /\ Running # Nobody
    BY <1>3, <2>1, RunningIs DEF ProcessExits, Running
  <2> QED
    BY <2>2 DEF Rule!Next, Rule!End
<1>4. CASE alive' = alive /\ \A p \in alive : owner'[p] = owner[p]
  BY <1>4 DEF Running
<1>5. ASSUME NEW p \in Slots, WatchStep(p)
      PROVE  alive' = alive /\ \A q \in alive : owner'[q] = owner[q]
  <2>1. p \notin alive
    BY <1>5 DEF WatchStep, WatchRecord, WatchRecordFails, WatchEnds, IInv, WatcherAwaits
  <2> QED
    BY <1>5, <2>1 DEF WatchStep, WatchRecord, WatchRecordFails, WatchEnds, Forget,
       IInv, TypeOK, ProcsType
<1> QED
  BY <1>1, <1>2, <1>3, <1>4, <1>5
     DEF Next, vars, procs, Reconcile, BackendEnds, StartStep, StartCall,
         StartLoad, StartRefused, StartConfigure, StartAborts, StartMark,
         StartMarkFails, ScheduleFires, RestartSent, Request, StopCall,
         ScheduleRestart, CancelRestart, Arm, DeleteCheck, DeleteCommit

\* The supervisor implements the single-server rule: a definition's process is
\* launched only when none is alive.
THEOREM SingleServerRule == Spec => KeepsSingleServerRule
<1>1. Init => Rule!Init
  BY DEF Init, Rule!Init, Running
<1>2. IInv /\ IInv' /\ [Next]_vars => [Rule!Next]_Running
  BY RuleStep
<1> QED
  BY <1>1, <1>2, Inductive, PTL DEF Spec, KeepsSingleServerRule, Rule!Spec
-----------------------------------------------------------------------------
(* The flags, as long as commits work and take less than half a second      *)

\* The process that start is about to mark has not been recorded as over.
MarkedIsWatched ==
  dbFailures = 0 /\ start.at = "marking" =>
    owner[start.proc] = start.server /\ watch[start.proc] \in {"waiting", "draining"}

\* A backend that is down holds no call and no process.
DownIsEmpty == phase = "down" => start = NoStart /\ alive = {}

LEMMA MarkedStep ==
  ASSUME ~SlowCommits, IInv, MarkedIsWatched, [Next]_vars
  PROVE  MarkedIsWatched'
<1> USE DEF MarkedIsWatched
<1>0. ProcsType /\ StartType /\ dbFailures \in Nat
  BY DEF IInv, TypeOK, ProcessType
<1>1. CASE StartStep
  BY <1>0, <1>1 DEF StartStep, StartLoad, StartRefused, StartConfigure, StartAborts,
     StartSpawn, StartMark, StartMarkFails, Starting, NoStart, ProcsType
<1>2. ASSUME NEW p \in Slots, WatchStep(p) PROVE MarkedIsWatched'
  <2>1. CASE WatchRecord(p)
    BY <1>0, <2>1 DEF WatchRecord, ProcsType
  <2>2. CASE WatchRecordFails(p)
    BY <1>0, <2>2 DEF WatchRecordFails, DbFails
  <2>3. CASE WatchEnds(p)
    BY <1>0, <2>3 DEF WatchEnds, Forget, ProcsType
  <2> QED
    BY <1>2, <2>1, <2>2, <2>3 DEF WatchStep
<1>3. ASSUME NEW p \in Slots, NEW rc \in {0, 1}, ProcessExits(p, rc) PROVE MarkedIsWatched'
  BY <1>0, <1>3 DEF ProcessExits, ProcsType
<1>4. CASE start' = NoStart
  BY <1>4 DEF NoStart
<1>5. ASSUME NEW s \in Servers, StartCall(s) PROVE MarkedIsWatched'
  BY <1>5 DEF StartCall, Starting
<1>6. CASE UNCHANGED <<start, owner, watch, dbFailures>>
  BY <1>6
<1> QED
  BY <1>1, <1>2, <1>3, <1>4, <1>5, <1>6
     DEF Next, vars, procs, Reconcile, BackendEnds, ScheduleFires, RestartSent, Request,
         StopCall, ScheduleRestart, CancelRestart, Arm, DeleteCheck, DeleteCommit

LEMMA FlagStep ==
  ASSUME ~SlowCommits, IInv, MarkedIsWatched, FlagHasProcess, [Next]_vars
  PROVE  FlagHasProcess'
<1> USE DEF FlagHasProcess
<1>0. ProcsType /\ StartType /\ dbFailures \in Nat /\ ProcessType
  BY DEF IInv, TypeOK, ProcessType
<1>1. CASE Reconcile
  BY <1>1 DEF Reconcile
<1>2. CASE BackendEnds
  BY <1>2 DEF BackendEnds
<1>3. CASE StartMark
  <2>1. start.proc \in Slots
    BY <1>0, <1>3, StartIs DEF StartMark
  <2> QED
    BY <1>3, <2>1 DEF StartMark, MarkedIsWatched, procs
<1>4. ASSUME NEW p \in Slots, StartSpawn(p) PROVE FlagHasProcess'
  BY <1>0, <1>4 DEF StartSpawn, rows, ProcsType
<1>5. ASSUME NEW p \in Slots, WatchStep(p) PROVE FlagHasProcess'
  <2>1. CASE WatchRecord(p)
    BY <1>0, <2>1 DEF WatchRecord, ProcsType
  <2>2. CASE WatchRecordFails(p)
    BY <1>0, <2>2 DEF WatchRecordFails, DbFails
  <2>3. CASE WatchEnds(p)
    BY <1>0, <2>3 DEF WatchEnds, Forget, rows, ProcsType
  <2> QED
    BY <1>5, <2>1, <2>2, <2>3 DEF WatchStep
<1>6. ASSUME NEW p \in Slots, NEW rc \in {0, 1}, ProcessExits(p, rc) PROVE FlagHasProcess'
  BY <1>0, <1>6 DEF ProcessExits, rows, ProcsType
<1>7. CASE DbFails
  BY <1>0, <1>7 DEF DbFails
<1>8. CASE UNCHANGED <<phase, dbFailures, owner, watch>> /\ flagged' \subseteq flagged
  BY <1>8
<1> QED
  BY <1>1, <1>2, <1>3, <1>4, <1>5, <1>6, <1>7, <1>8
     DEF Next, vars, rows, procs, StartStep, StartCall, StartLoad, StartRefused,
         StartConfigure, StartAborts, StartMarkFails, ScheduleFires, RestartSent, Request,
         StopCall, ScheduleRestart, CancelRestart, Arm, DeleteCheck, DeleteCommit

\* start's two sessions, the watcher, deletes and reconcile_on_startup leave no
\* flag that would refuse every other start without a process behind it, as
\* long as commits work and start's lands before the watcher's half second ends.
THEOREM FlagsHaveProcesses == ASSUME ~SlowCommits PROVE Spec => []FlagHasProcess
<1>1. Init => MarkedIsWatched /\ FlagHasProcess
  BY DEF Init, MarkedIsWatched, FlagHasProcess, NoStart
<1>2. IInv /\ MarkedIsWatched /\ FlagHasProcess /\ [Next]_vars
        => MarkedIsWatched' /\ FlagHasProcess'
  BY MarkedStep, FlagStep
<1> QED
  BY <1>1, <1>2, Inductive, PTL DEF Spec

LEMMA DownStep ==
  ASSUME IInv, DownIsEmpty, [Next]_vars
  PROVE  DownIsEmpty'
<1> USE DEF DownIsEmpty
<1>1. CASE Reconcile
  BY <1>1 DEF Reconcile
<1>2. CASE BackendEnds
  BY <1>2 DEF BackendEnds
<1>3. CASE StartStep
  BY <1>3 DEF StartStep, StartLoad, StartRefused, StartConfigure, StartAborts,
     StartSpawn, StartMark, StartMarkFails, NoStart, procs
<1>4. ASSUME NEW s \in Servers, StartCall(s) PROVE DownIsEmpty'
  BY <1>4 DEF StartCall
<1>5. CASE UNCHANGED <<phase, start>> /\ alive' \subseteq alive
  BY <1>5
<1> QED
  BY <1>1, <1>2, <1>3, <1>4, <1>5
     DEF Next, vars, procs, WatchStep, WatchRecord, WatchRecordFails, WatchEnds, Forget,
         ProcessExits, ScheduleFires, RestartSent, Request, StopCall, ScheduleRestart,
         CancelRestart, Arm, DeleteCheck, DeleteCommit

\* A definition is not started while a watcher has its row still to write, nor
\* is one running beside such a watcher.
StartsDrained ==
  /\ start.at \in {"loading", "configuring", "spawning"} => ~Draining(start.server)
  /\ \A p \in alive : ~Draining(owner[p])

LEMMA DrainedStep ==
  ASSUME ~HastyRestarts, IInv, StartsDrained, [Next]_vars
  PROVE  StartsDrained'
<1> USE DEF StartsDrained, Draining
<1>0. ProcsType /\ StartType
  BY DEF IInv, TypeOK
<1>1. ASSUME NEW s \in Servers, StartCall(s) PROVE StartsDrained'
  BY <1>1 DEF StartCall, Starting, procs
<1>2. ASSUME NEW p \in Slots, StartSpawn(p) PROVE StartsDrained'
  BY <1>0, <1>2 DEF StartSpawn, Starting, ProcsType, IInv, StartsAlone
<1>3. CASE StartLoad \/ StartConfigure
  BY <1>3 DEF StartLoad, StartConfigure, Starting, procs
<1>4. ASSUME NEW p \in Slots, NEW rc \in {0, 1}, ProcessExits(p, rc) PROVE StartsDrained'
  <2>1. alive' = {} /\ start' = start
    BY <1>4 DEF ProcessExits, IInv, AliveIsActive
  <2>2. start.at \notin {"loading", "configuring", "spawning"}
    BY <1>4 DEF ProcessExits, IInv, StartsAlone
  <2> QED
    BY <2>1, <2>2
<1>5. ASSUME NEW p \in Slots, WatchStep(p) PROVE StartsDrained'
  <2>1. p \notin alive
    BY <1>5 DEF WatchStep, WatchRecord, WatchRecordFails, WatchEnds, IInv, WatcherAwaits
  <2> QED
    BY <1>0, <1>5, <2>1 DEF WatchStep, WatchRecord, WatchRecordFails, WatchEnds, Forget,
       ProcsType
<1>6. CASE BackendEnds
  BY <1>6 DEF BackendEnds, NoStart
<1>7. CASE start' = NoStart /\ UNCHANGED procs
  BY <1>7 DEF NoStart, procs
<1>8. CASE UNCHANGED <<start, owner, watch, alive>>
  BY <1>8
<1> QED
  BY <1>1, <1>2, <1>3, <1>4, <1>5, <1>6, <1>7, <1>8
     DEF Next, vars, procs, Reconcile, StartStep, StartRefused, StartAborts, StartMark,
         StartMarkFails, ScheduleFires, RestartSent, Request, StopCall, ScheduleRestart,
         CancelRestart, Arm, DeleteCheck, DeleteCommit

\* A running server of a stored definition is flagged, or about to be.
FlaggedOrMarking ==
  \A p \in alive :
    dbFailures = 0 /\ owner[p] \in stored =>
      owner[p] \in flagged \/ (start.at = "marking" /\ start.proc = p)

LEMMA FlaggedStep ==
  ASSUME IInv, MarkedIsWatched, DownIsEmpty, StartsDrained, FlaggedOrMarking, [Next]_vars
  PROVE  FlaggedOrMarking'
<1> USE DEF FlaggedOrMarking
<1>0. ProcsType /\ StartType /\ dbFailures \in Nat
  BY DEF IInv, TypeOK, ProcessType
<1>1. CASE Reconcile \/ BackendEnds
  BY <1>1 DEF Reconcile, BackendEnds, DownIsEmpty, procs
<1>2. ASSUME NEW p \in Slots, StartSpawn(p) PROVE FlaggedOrMarking'
  BY <1>0, <1>2 DEF StartSpawn, Starting, IInv, StartsAlone
<1>3. CASE StartMark
  <2>1. UNCHANGED <<owner, alive, stored, dbFailures>> /\ flagged \subseteq flagged'
    BY <1>3 DEF StartMark, procs
  <2>2. start.at = "marking" /\ (start.server \in stored => start.server \in flagged')
    BY <1>3 DEF StartMark
  <2> QED
    BY <2>1, <2>2 DEF MarkedIsWatched
<1>4. CASE DbFails
  BY <1>0, <1>4 DEF DbFails
<1>5. ASSUME NEW p \in Slots, WatchRecord(p) PROVE FlaggedOrMarking'
  BY <1>5 DEF WatchRecord, StartsDrained, Draining
<1>6. ASSUME NEW p \in Slots, WatchEnds(p) PROVE FlaggedOrMarking'
  <2>1. p \notin alive
    BY <1>6 DEF WatchEnds, IInv, WatcherAwaits
  <2> QED
    BY <1>0, <1>6, <2>1 DEF WatchEnds, Forget, rows, ProcsType
<1>7. ASSUME NEW p \in Slots, NEW rc \in {0, 1}, ProcessExits(p, rc) PROVE FlaggedOrMarking'
  BY <1>7 DEF ProcessExits, rows
<1>8. ASSUME NEW s \in Servers, DeleteCommit(s) PROVE FlaggedOrMarking'
  BY <1>8 DEF DeleteCommit, procs
<1>9. CASE /\ start.at # "marking" \/ start' = start
           /\ UNCHANGED <<stored, flagged, owner, alive, dbFailures>>
  BY <1>9
<1>10. CASE StartStep
  BY <1>2, <1>3, <1>4, <1>9, <1>10
     DEF StartStep, StartLoad, StartRefused, StartConfigure, StartAborts, StartMarkFails,
         rows, procs
<1>11. ASSUME NEW s \in Servers, Request(s) PROVE FlaggedOrMarking'
  BY <1>8, <1>9, <1>11
     DEF Request, StartCall, StopCall, ScheduleRestart, CancelRestart, Arm, DeleteCheck,
         rows, procs, NoStart
<1> QED
  BY <1>1, <1>4, <1>5, <1>6, <1>7, <1>9, <1>10, <1>11
     DEF Next, vars, rows, procs, WatchStep, WatchRecordFails, ScheduleFires, RestartSent

\* A server that runs is flagged in its row once its start call returned, as
\* long as commits work, start's lands in time, and no definition is started
\* again while the watcher of its earlier process has the row to write.
THEOREM RunningIsMarked ==
  ASSUME ~SlowCommits, ~HastyRestarts
  PROVE  Spec => []RunningIsFlagged
<1> DEFINE Inv == MarkedIsWatched /\ DownIsEmpty /\ StartsDrained /\ FlaggedOrMarking
<1>1. Init => Inv
  BY DEF Init, MarkedIsWatched, DownIsEmpty, StartsDrained, FlaggedOrMarking, NoStart
<1>2. IInv /\ Inv /\ [Next]_vars => Inv'
  BY MarkedStep, DownStep, DrainedStep, FlaggedStep
<1>3. Inv => RunningIsFlagged
  BY DEF FlaggedOrMarking, RunningIsFlagged, NoStart
<1> QED
  BY <1>1, <1>2, <1>3, Inductive, PTL DEF Spec
=============================================================================
