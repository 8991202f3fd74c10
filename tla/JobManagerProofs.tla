-------------------------- MODULE JobManagerProofs --------------------------
(***************************************************************************)
(* Theorems of JobManager for every set of jobs and clients and every      *)
(* bound on restarts and failures.                                         *)
(***************************************************************************)
EXTENDS JobManager, FiniteSetTheorems, SequenceTheorems, TLAPS
-----------------------------------------------------------------------------
(* Type correctness                                                        *)

LEMMA MaybeJobFacts ==
  NoJob \in MaybeJob /\ \A j \in Jobs : j \in MaybeJob
BY DEF MaybeJob

LEMMA MarkType ==
  ASSUME row \in [Jobs -> RowStates], NEW j, NEW s \in RowStates
  PROVE  Mark(j, s) \in [Jobs -> RowStates]
BY DEF Mark

LEMMA MarkValue ==
  ASSUME row \in [Jobs -> RowStates], NEW j, NEW s, NEW k \in Jobs
  PROVE  Mark(j, s)[k] = IF k = j /\ row[k] # "gone" THEN s ELSE row[k]
BY DEF Mark

\* What a step of the worker or its end may do to the rows.
LEMMA WorkerMarks ==
  ASSUME TypeOK, WorkerStep \/ Stop
  PROVE  \/ row' = row
         \/ \E s \in Terminal \union {"running"} :
              /\ worker.at \in {"starting", "closing"} /\ worker.job \in Jobs
              /\ \A k \in Jobs :
                   row'[k] = IF k = worker.job /\ row[k] # "gone" THEN s ELSE row[k]
<1>1. /\ row \in [Jobs -> RowStates]
      /\ worker.at \in {"starting", "closing"} => worker.job \in Jobs
      /\ worker.at = "closing" => worker.verdict \in Terminal
  BY DEF TypeOK, RowType, WorkerType, IdleWorker, DeadWorker
<1>2. \/ row' = row
      \/ worker.at = "starting" /\ row' = Mark(worker.job, "running")
      \/ worker.at = "closing" /\ row' = Mark(worker.job, worker.verdict)
  BY DEF WorkerStep, Stop, WorkerSkip, WorkerTake, WorkerStart,
         WorkerStartFails, WorkerReap, WorkerClose, WorkerCloseFails
<1> QED
  BY <1>1, <1>2, MarkValue

LEMMA InterruptType ==
  ASSUME body \in [Jobs -> BodyStates], NEW j
  PROVE  Interrupt(j) \in [Jobs -> BodyStates]
BY DEF Interrupt, BodyStates, LiveBody

\* Cancelling a task neither creates nor ends one.
LEMMA InterruptKeeps ==
  ASSUME body \in [Jobs -> BodyStates], NEW k, NEW j \in Jobs
  PROVE  /\ Interrupt(k)[j] = "none" <=> body[j] = "none"
         /\ Interrupt(k)[j] \in LiveBody <=> body[j] \in LiveBody
BY DEF Interrupt, LiveBody

\* Whatever order the recovered jobs come in, they form a queue of jobs.
LEMMA OrdersType ==
  ASSUME NEW S \in SUBSET Jobs, NEW q \in Orders(S)
  PROVE  /\ q \in Seq(Jobs)
         /\ \A j \in S : \E i \in DOMAIN q : q[i] = j
<1>1. Cardinality(S) \in Nat
  BY FS_Subset, FS_CardinalityType, JobManagerAssumption
<1>2. q \in [1 .. Cardinality(S) -> S]
  BY DEF Orders
<1>3. q \in Seq(S)
  BY <1>1, <1>2
<1> QED
  BY <1>3 DEF Orders

LEMMA VerdictType ==
  ASSUME NEW j, body[j] \in EndedBody
  PROVE  Verdict(j) \in Terminal
BY DEF Verdict, EndedBody, Terminal

LEMMA RowTypeStep ==
  TypeOK /\ [Next]_vars => RowType'
BY DEF TypeOK, RowType, WorkerType, CallType, RowStates, Terminal,
       LiveBody, EndedBody, IdleWorker, DeadWorker, NoCall, Mark,
       Next, vars, memory, Startup, Crash, Stop, StopReturns, ProcessEnds,
       EnqueueCommit, EnqueueTrack, WorkerStep, WorkerSkip, WorkerTake,
       WorkerStart, WorkerStartFails, BodyEnds, WorkerReap, WorkerClose,
       WorkerCloseFails, ClearCurrent, TimePasses, Watchdog, ClientStep,
       CancelRead, CancelDecide, CancelCommit, CancelMarkFails, DeleteRead,
       DeleteCommit, Call, Return, Prune

LEMMA QueueTypeStep ==
  ASSUME TypeOK, [Next]_vars
  PROVE  QueueType'
<1> USE DEF TypeOK, QueueType
<1>1. CASE Startup
  <2> DEFINE recover == {j \in Registered : row[j] = "queued"}
  <2>1. recover \in SUBSET Jobs
    BY JobManagerAssumption
  <2>2. queue' \in Orders(recover) /\ pending' = recover /\ entering' = entering
    BY <1>1 DEF Startup
  <2> QED
    BY <2>1, <2>2, OrdersType
<1>2. CASE \E j \in Jobs : EnqueueCommit(j) \/ EnqueueTrack(j)
  BY <1>2 DEF EnqueueCommit, EnqueueTrack
<1>3. CASE WorkerSkip \/ WorkerTake
  <2>1. queue # <<>>
    BY <1>3 DEF WorkerSkip, WorkerTake
  <2>2. Tail(queue) \in Seq(Jobs)
    BY <2>1, HeadTailProperties
  <2> QED
    BY <1>3, <2>2 DEF WorkerSkip, WorkerTake
<1>4. CASE \E c \in Clients : ClientStep(c)
  BY <1>4 DEF ClientStep, CancelRead, CancelDecide, CancelCommit,
              CancelMarkFails, DeleteRead, DeleteCommit
<1>5. CASE Crash \/ StopReturns
  <2>1. entering' = {} /\ pending' = {} /\ queue' = <<>>
    BY <1>5 DEF Crash, StopReturns, ProcessEnds
  <2> QED
    BY <2>1
<1>6. CASE UNCHANGED <<entering, pending, queue>>
  BY <1>6
<1> QED
  BY <1>1, <1>2, <1>3, <1>4, <1>5, <1>6
     DEF Next, vars, memory, Stop, WorkerStep, WorkerStart, WorkerStartFails,
         BodyEnds, WorkerReap, WorkerClose, WorkerCloseFails, ClearCurrent,
         TimePasses, Watchdog, Prune

LEMMA WorkerTypeStep ==
  ASSUME TypeOK, [Next]_vars
  PROVE  WorkerType'
<1> USE DEF TypeOK, WorkerType, BodyStates, LiveBody, EndedBody
<1>1. CASE Startup
  BY <1>1 DEF Startup
<1>2. CASE Crash \/ StopReturns
  BY <1>2, MaybeJobFacts DEF Crash, StopReturns, ProcessEnds
<1>3. CASE Stop
  BY <1>3, MaybeJobFacts DEF Stop
<1>4. CASE WorkerTake
  <2>1. Head(queue) \in Jobs
    BY <1>4, HeadTailProperties DEF WorkerTake, QueueType
  <2> QED
    BY <1>4, <2>1, MaybeJobFacts DEF WorkerTake
<1>5. CASE WorkerStart \/ WorkerStartFails
  BY <1>5 DEF WorkerStart, WorkerStartFails, IdleWorker, DeadWorker
<1>6. CASE WorkerReap
  BY <1>6, VerdictType DEF WorkerReap, IdleWorker, DeadWorker
<1>7. CASE WorkerClose \/ WorkerCloseFails
  BY <1>7, MaybeJobFacts DEF WorkerClose, WorkerCloseFails, ClearCurrent
<1>8. CASE \E j \in Jobs, how \in EndedBody : BodyEnds(j, how)
  BY <1>8 DEF BodyEnds
<1>9. CASE TimePasses \/ Watchdog
  <2>1. Interrupt(current) \in [Jobs -> BodyStates]
    BY InterruptType
  <2>2. current # NoJob => current \in Jobs
    BY DEF MaybeJob
  <2> QED
    BY <1>9, <2>1, <2>2 DEF TimePasses, Watchdog
<1>10. ASSUME NEW c \in Clients, CancelDecide(c)
       PROVE  WorkerType'
  <2>1. calls[c].job \in Jobs
    BY <1>10 DEF CancelDecide, CallType, NoCall
  <2>2. Interrupt(calls[c].job) \in [Jobs -> BodyStates]
    BY InterruptType
  <2> QED
    BY <1>10, <2>1, <2>2 DEF CancelDecide
<1>11. CASE UNCHANGED <<worker, body, current, overtime, cancelReq>>
  BY <1>11
<1> QED
  BY <1>1, <1>2, <1>3, <1>4, <1>5, <1>6, <1>7, <1>8, <1>9, <1>10, <1>11
     DEF Next, vars, memory, EnqueueCommit, EnqueueTrack, WorkerStep,
         WorkerSkip, ClientStep, CancelRead, CancelCommit, CancelMarkFails,
         DeleteRead, DeleteCommit, Prune

LEMMA CallTypeStep ==
  TypeOK /\ [Next]_vars => CallType'
BY DEF TypeOK, CallType, NoCall,
       Next, vars, memory, Startup, Crash, Stop, StopReturns, ProcessEnds,
       EnqueueCommit, EnqueueTrack, WorkerStep, WorkerSkip, WorkerTake,
       WorkerStart, WorkerStartFails, BodyEnds, WorkerReap, WorkerClose,
       WorkerCloseFails, ClearCurrent, TimePasses, Watchdog, ClientStep,
       CancelRead, CancelDecide, CancelCommit, CancelMarkFails, DeleteRead,
       DeleteCommit, Call, Return, Prune

LEMMA ProcessTypeStep ==
  ASSUME TypeOK, [Next]_vars
  PROVE  ProcessType'
<1> USE JobManagerAssumption DEF TypeOK, ProcessType
<1>1. CASE Startup \/ Stop
  BY <1>1 DEF Startup, Stop
<1>2. CASE Crash \/ StopReturns
  BY <1>2 DEF Crash, StopReturns, ProcessEnds
<1>3. CASE WorkerStep
  BY <1>3 DEF WorkerStep, WorkerSkip, WorkerTake, WorkerStart,
              WorkerStartFails, WorkerReap, WorkerClose, WorkerCloseFails,
              ClearCurrent, DbFails, WorkerType, IdleWorker, DeadWorker
<1>4. CASE \E c \in Clients : CancelMarkFails(c)
  BY <1>4 DEF CancelMarkFails, DbFails, CallType, NoCall
<1>5. CASE UNCHANGED <<phase, restarts, dbFailures, stranded, executed>>
  BY <1>5
<1> QED
  BY <1>1, <1>2, <1>3, <1>4, <1>5
     DEF Next, vars, memory, EnqueueCommit, EnqueueTrack, BodyEnds, TimePasses,
         Watchdog, ClientStep, CancelRead, CancelDecide, CancelCommit,
         DeleteRead, DeleteCommit, Prune

LEMMA TypeCorrectInit == Init => TypeOK
<1> SUFFICES ASSUME Init PROVE TypeOK
  OBVIOUS
<1>1. RowType /\ QueueType
  BY DEF Init, RowType, RowStates, QueueType
<1>2. WorkerType /\ CallType
  BY MaybeJobFacts DEF Init, WorkerType, BodyStates, CallType
<1>3. ProcessType
  BY JobManagerAssumption DEF Init, ProcessType
<1> QED
  BY <1>1, <1>2, <1>3 DEF TypeOK

LEMMA TypeCorrectStep == TypeOK /\ [Next]_vars => TypeOK'
BY RowTypeStep, QueueTypeStep, WorkerTypeStep, CallTypeStep, ProcessTypeStep
   DEF TypeOK

\* Every variable keeps its type in every behaviour of the job manager.
THEOREM TypeCorrect == Spec => []TypeOK
BY TypeCorrectInit, TypeCorrectStep, PTL DEF Spec
-----------------------------------------------------------------------------
(* The inductive invariant                                                 *)

LEMMA InitIInv == Init => IInv
<1>1. Init => TypeOK
  BY TypeCorrectInit
<1>2. Init => BodyOwned /\ NeverAgain
  BY DEF Init, BodyOwned, NeverAgain, DeadWorker
<1>3. Init => WaitsOnce /\ DownIsEmpty
  BY DEF Init, WaitsOnce, Waiting, DownIsEmpty, DeadWorker
<1> QED
  BY <1>1, <1>2, <1>3 DEF IInv

\* A task is created and reaped only by the worker, and it dies with it.
LEMMA BodyOwnedStep ==
  ASSUME TypeOK, BodyOwned, DownIsEmpty, [Next]_vars
  PROVE  BodyOwned'
<1> USE DEF BodyOwned
<1>0. /\ body \in [Jobs -> BodyStates]
      /\ worker.at \in {"starting", "body", "closing"} => worker.job \in Jobs
  BY DEF TypeOK, WorkerType, IdleWorker, DeadWorker
<1>1. CASE Startup
  BY <1>1 DEF Startup, IdleWorker, DeadWorker, DownIsEmpty
<1>2. CASE Crash \/ StopReturns
  BY <1>2 DEF Crash, StopReturns, ProcessEnds, DeadWorker
<1>3. CASE Stop
  BY <1>0, <1>3 DEF Stop, DeadWorker
<1>4. CASE WorkerStep
  BY <1>0, <1>4 DEF WorkerStep, WorkerSkip, WorkerTake, WorkerStart, IdleWorker,
                    WorkerStartFails, WorkerReap, WorkerClose,
                    WorkerCloseFails, ClearCurrent
<1>5. CASE \E j \in Jobs, how \in EndedBody : BodyEnds(j, how)
  BY <1>0, <1>5 DEF BodyEnds, EndedBody
<1>6. CASE Watchdog \/ \E c \in Clients : CancelDecide(c)
  <2>1. PICK k : body' = body \/ body' = Interrupt(k)
    BY <1>6 DEF Watchdog, CancelDecide
  <2>2. \A j \in Jobs : body'[j] = "none" <=> body[j] = "none"
    BY <1>0, <2>1, InterruptKeeps
  <2>3. UNCHANGED <<worker, executed>>
    BY <1>6 DEF Watchdog, CancelDecide
  <2> QED
    BY <1>0, <2>2, <2>3
<1>7. CASE UNCHANGED <<body, worker, executed>>
  BY <1>7
<1> QED
  BY <1>1, <1>2, <1>3, <1>4, <1>5, <1>6, <1>7
     DEF Next, vars, memory, EnqueueCommit, EnqueueTrack, TimePasses,
         ClientStep, CancelRead, CancelCommit, CancelMarkFails, DeleteRead,
         DeleteCommit, Prune

\* The only step that creates a task is the worker's start of its job.
LEMMA BodyAppears ==
  ASSUME TypeOK, BodyOwned, [Next]_vars,
         NEW j \in Jobs, body[j] = "none", body'[j] # "none"
  PROVE  WorkerStart /\ worker.job = j
<1>0. body \in [Jobs -> BodyStates]
  BY DEF TypeOK, WorkerType
<1>1. CASE WorkerStart
  BY <1>0, <1>1 DEF WorkerStart
<1>2. CASE Crash \/ StopReturns
  BY <1>2 DEF Crash, StopReturns, ProcessEnds
<1>3. CASE Stop
  BY <1>0, <1>3 DEF Stop, BodyOwned
<1>4. CASE WorkerReap
  BY <1>0, <1>4 DEF WorkerReap
<1>5. CASE \E k \in Jobs, how \in EndedBody : BodyEnds(k, how)
  BY <1>0, <1>5 DEF BodyEnds
<1>6. CASE Watchdog \/ \E c \in Clients : CancelDecide(c)
  <2>1. PICK k : body' = body \/ body' = Interrupt(k)
    BY <1>6 DEF Watchdog, CancelDecide
  <2> QED
    BY <1>0, <2>1, InterruptKeeps
<1>7. CASE UNCHANGED body
  BY <1>7
<1> QED
  BY <1>1, <1>2, <1>3, <1>4, <1>5, <1>6, <1>7
     DEF Next, vars, memory, Startup, EnqueueCommit, EnqueueTrack, WorkerStep,
         WorkerSkip, WorkerTake, WorkerStartFails, WorkerClose,
         WorkerCloseFails, ClearCurrent, TimePasses, ClientStep, CancelRead,
         CancelCommit, CancelMarkFails, DeleteRead, DeleteCommit, Prune

\* Between two processes no job waits and no worker lives.
LEMMA DownIsEmptyStep ==
  ASSUME TypeOK, DownIsEmpty, [Next]_vars
  PROVE  DownIsEmpty'
<1> USE DEF DownIsEmpty
<1>1. CASE Startup \/ Crash \/ StopReturns \/ Stop
  BY <1>1 DEF Startup, Crash, StopReturns, Stop, ProcessEnds
<1>2. CASE \E j \in Jobs : EnqueueCommit(j) \/ EnqueueTrack(j)
  BY <1>2 DEF EnqueueCommit, EnqueueTrack
<1>3. CASE WorkerStep
  BY <1>3 DEF DeadWorker, WorkerStep, WorkerSkip, WorkerTake, WorkerStart,
              WorkerStartFails, WorkerReap, WorkerClose, WorkerCloseFails,
              ClearCurrent
<1>4. CASE \E c \in Clients : CancelDecide(c)
  BY <1>4 DEF CancelDecide
<1>5. CASE UNCHANGED <<phase, entering, pending, worker>>
  BY <1>5
<1> QED
  BY <1>1, <1>2, <1>3, <1>4, <1>5
     DEF Next, vars, memory, BodyEnds, TimePasses, Watchdog, ClientStep,
         CancelRead, CancelCommit, CancelMarkFails, DeleteRead, DeleteCommit,
         Prune

\* A job waits in one place at a time, and only once its row exists.
LEMMA WaitsOnceStep ==
  ASSUME TypeOK, WaitsOnce, DownIsEmpty, [Next]_vars
  PROVE  WaitsOnce'
<1> USE DEF WaitsOnce, Waiting
<1>0. /\ row \in [Jobs -> RowStates] /\ entering \subseteq Jobs
      /\ worker.at \in {"starting", "body", "closing"} => worker.job \in Jobs
      /\ \A c \in Clients : calls[c].at # "idle" => calls[c].job \in Jobs
  BY DEF TypeOK, RowType, QueueType, WorkerType, CallType, NoCall, IdleWorker, DeadWorker
<1>1. CASE Startup
  BY <1>0, <1>1 DEF Startup, IdleWorker, DownIsEmpty
<1>2. CASE Crash \/ StopReturns
  BY <1>2 DEF Crash, StopReturns, ProcessEnds, DeadWorker
<1>3. CASE Stop
  BY <1>0, <1>3, WorkerMarks DEF Stop, DeadWorker, Terminal
<1>4. CASE \E j \in Jobs : EnqueueCommit(j) \/ EnqueueTrack(j)
  BY <1>0, <1>4 DEF EnqueueCommit, EnqueueTrack
<1>5. CASE WorkerStep
  <2>1. \A k \in Jobs : row[k] # "none" => row'[k] # "none"
    BY <1>5, WorkerMarks DEF Terminal
  <2> QED
    BY <1>0, <1>5, <2>1 DEF WorkerStep, WorkerSkip, WorkerTake, WorkerStart,
       WorkerStartFails, WorkerReap, WorkerClose, WorkerCloseFails,
       ClearCurrent, IdleWorker
<1>6. ASSUME NEW c \in Clients, ClientStep(c)
      PROVE  WaitsOnce'
  BY <1>0, <1>6 DEF ClientStep, CancelRead, CancelDecide, CancelCommit,
                    CancelMarkFails, DeleteRead, DeleteCommit, Mark
<1>7. ASSUME NEW wanted \in SUBSET Terminal, Prune(wanted)
      PROVE  WaitsOnce'
  BY <1>0, <1>7 DEF Prune, memory, Terminal
<1>8. CASE UNCHANGED <<row, entering, pending, worker>>
  BY <1>8
<1> QED
  BY <1>1, <1>2, <1>3, <1>4, <1>5, <1>6, <1>7, <1>8
     DEF Next, vars, memory, BodyEnds, TimePasses, Watchdog

\* The row of an executed job never says queued again, so that no restart
\* recovers it, and nothing in memory can hand it to the worker twice.
LEMMA NeverAgainStep ==
  ASSUME TypeOK, NeverAgain, WaitsOnce, DownIsEmpty, [Next]_vars
  PROVE  NeverAgain'
<1> USE DEF NeverAgain, Waiting
<1>0. /\ row \in [Jobs -> RowStates] /\ entering \subseteq Jobs
      /\ executed \subseteq Jobs
      /\ worker.at \in {"starting", "body", "closing"} => worker.job \in Jobs
      /\ worker.at = "closing" => worker.verdict \in Terminal
      /\ \A c \in Clients : calls[c].at # "idle" => calls[c].job \in Jobs
  BY DEF TypeOK, RowType, QueueType, WorkerType, CallType, ProcessType, NoCall, IdleWorker, DeadWorker
<1>1. CASE Startup
  BY <1>0, <1>1 DEF Startup, IdleWorker, DownIsEmpty
<1>2. CASE Crash \/ StopReturns
  BY <1>0, <1>2 DEF Crash, StopReturns, ProcessEnds, DeadWorker, Mark
<1>3. CASE Stop
  BY <1>0, <1>3, WorkerMarks DEF Stop, DeadWorker, Terminal
<1>4. CASE \E j \in Jobs : EnqueueCommit(j) \/ EnqueueTrack(j)
  BY <1>0, <1>4 DEF EnqueueCommit, EnqueueTrack, WaitsOnce
<1>5. CASE WorkerStep
  <2>1. \A k \in Jobs : row[k] \notin {"none", "queued"} => row'[k] \notin {"none", "queued"}
    BY <1>5, WorkerMarks DEF Terminal
  <2>2. CASE WorkerStart
    <3>1. row'[worker.job] \notin {"none", "queued"}
      BY <1>0, <2>2, MarkValue DEF WorkerStart
    <3> QED
      BY <1>0, <2>1, <2>2, <3>1 DEF WorkerStart, WaitsOnce
  <2>3. CASE WorkerSkip \/ WorkerTake
    BY <1>0, <2>1, <2>3 DEF WorkerSkip, WorkerTake
  <2>4. CASE WorkerStartFails \/ WorkerReap \/ WorkerClose \/ WorkerCloseFails
    BY <1>0, <2>1, <2>4 DEF WorkerStartFails, WorkerReap, WorkerClose,
       WorkerCloseFails, ClearCurrent, IdleWorker
  <2> QED
    BY <1>5, <2>2, <2>3, <2>4 DEF WorkerStep
<1>6. ASSUME NEW c \in Clients, ClientStep(c)
      PROVE  NeverAgain'
  BY <1>0, <1>6 DEF ClientStep, CancelRead, CancelDecide, CancelCommit,
                    CancelMarkFails, DeleteRead, DeleteCommit, Mark
<1>7. ASSUME NEW wanted \in SUBSET Terminal, Prune(wanted)
      PROVE  NeverAgain'
  BY <1>0, <1>7 DEF Prune, memory, Terminal
<1>8. CASE UNCHANGED <<row, entering, pending, worker, executed>>
  BY <1>8
<1> QED
  BY <1>1, <1>2, <1>3, <1>4, <1>5, <1>6, <1>7, <1>8
     DEF Next, vars, memory, BodyEnds, TimePasses, Watchdog

LEMMA IInvStep == IInv /\ [Next]_vars => IInv'
BY TypeCorrectStep, BodyOwnedStep, NeverAgainStep, WaitsOnceStep,
   DownIsEmptyStep DEF IInv

\* The strengthened invariant holds in every reachable state.
THEOREM Inductive == Spec => []IInv
BY InitIInv, IInvStep, PTL DEF Spec
-----------------------------------------------------------------------------
(* The executor's promise                                                  *)

\* What each kind of step does to the abstract stage of the jobs.
LEMMA ExecStep ==
  ASSUME IInv, [Next]_vars
  PROVE  [Executor!Next]_Exec
<1> USE DEF IInv
<1>0. /\ body \in [Jobs -> BodyStates] /\ executed \subseteq Jobs
      /\ worker.at \in {"starting", "body", "closing"} => worker.job \in Jobs
  BY DEF TypeOK, WorkerType, ProcessType, IdleWorker, DeadWorker
<1>1. CASE WorkerStart
  <2> DEFINE w == worker.job
  <2>1. w \in Jobs /\ w \notin executed /\ \A k \in Jobs : body[k] = "none"
    BY <1>0, <1>1 DEF WorkerStart, NeverAgain, Waiting, BodyOwned
  <2>2. Exec[w] = "waiting" /\ \A k \in Jobs : Exec[k] # "executing"
    BY <2>1 DEF Exec, LiveBody
  <2>3. Exec' = [Exec EXCEPT ![w] = "executing"]
    BY <1>0, <1>1, <2>1 DEF WorkerStart, Exec, LiveBody
  <2>4. Executor!Start(w)
    BY <2>2, <2>3 DEF Executor!Start
  <2> QED
    BY <2>1, <2>4 DEF Executor!Next
<1>2. ASSUME NEW j \in Jobs, NEW how \in EndedBody, BodyEnds(j, how)
      PROVE  Executor!Next
  <2>1. j \in executed /\ body[j] \in LiveBody
    BY <1>2 DEF BodyEnds, BodyOwned, LiveBody
  <2>2. Exec[j] = "executing"
    BY <2>1 DEF Exec
  <2>3. Exec' = [Exec EXCEPT ![j] = "over"]
    BY <1>0, <1>2, <2>1 DEF BodyEnds, Exec, LiveBody, EndedBody
  <2>4. Executor!Finish(j)
    BY <2>2, <2>3 DEF Executor!Finish
  <2> QED
    BY <2>4 DEF Executor!Next
<1>3. CASE Crash \/ StopReturns
  <2>1. body' = [j \in Jobs |-> "none"] /\ executed' = executed
    BY <1>3 DEF Crash, StopReturns, ProcessEnds
  <2>2. CASE \A j \in Jobs : body[j] \notin LiveBody
    BY <2>1, <2>2 DEF Exec, LiveBody
  <2>3. CASE \E j \in Jobs : body[j] \in LiveBody
    <3>1. PICK j \in Jobs : body[j] \in LiveBody
      BY <2>3
    <3>2. j \in executed /\ \A k \in Jobs \ {j} : body[k] = "none"
      BY <3>1 DEF BodyOwned, LiveBody
    <3>3. Exec[j] = "executing" /\ Exec' = [Exec EXCEPT ![j] = "over"]
      BY <2>1, <3>1, <3>2 DEF Exec, LiveBody
    <3> QED
      BY <3>3 DEF Executor!Next, Executor!Finish
  <2> QED
    BY <2>2, <2>3
<1>4. CASE Stop
  <2>1. executed' = executed /\ (body' = body \/
          (worker.at = "body" /\
           body' = [body EXCEPT ![worker.job] =
                      IF @ \in LiveBody THEN "cancelling" ELSE "cancelled"]))
    BY <1>4 DEF Stop
  <2>2. \A j \in Jobs : body'[j] \in LiveBody <=> body[j] \in LiveBody
    BY <1>0, <2>1 DEF LiveBody
  <2> QED
    BY <2>1, <2>2 DEF Exec
<1>5. CASE WorkerReap
  <2>1. /\ executed' = executed /\ worker.job \in Jobs
        /\ body[worker.job] \in EndedBody
        /\ body' = [body EXCEPT ![worker.job] = "none"]
    BY <1>0, <1>5 DEF WorkerReap
  <2>2. \A j \in Jobs : body'[j] \in LiveBody <=> body[j] \in LiveBody
    BY <1>0, <2>1 DEF LiveBody, EndedBody
  <2> QED
    BY <2>1, <2>2 DEF Exec
<1>6. CASE Watchdog \/ \E c \in Clients : CancelDecide(c)
  <2>1. PICK k : body' = body \/ body' = Interrupt(k)
    BY <1>6 DEF Watchdog, CancelDecide
  <2>2. executed' = executed
    BY <1>6 DEF Watchdog, CancelDecide
  <2>3. \A j \in Jobs : body'[j] \in LiveBody <=> body[j] \in LiveBody
    BY <1>0, <2>1, InterruptKeeps
  <2> QED
    BY <2>2, <2>3 DEF Exec
<1>7. CASE UNCHANGED <<body, executed>>
  BY <1>7 DEF Exec
<1> QED
  BY <1>1, <1>2, <1>3, <1>4, <1>5, <1>6, <1>7
     DEF Next, vars, memory, Startup, EnqueueCommit, EnqueueTrack, WorkerStep,
         WorkerSkip, WorkerTake, WorkerStartFails, WorkerClose,
         WorkerCloseFails, ClearCurrent, TimePasses, ClientStep, CancelRead,
         CancelCommit, CancelMarkFails, DeleteRead, DeleteCommit, Prune

\* Over crashes, restarts, cancels and failed commits, no body is ever run a
\* second time, and no two are run at once.
THEOREM SerialExecution == Spec => ExecutesSerially
<1>1. Init => Executor!Init
  BY DEF Init, Executor!Init, Exec, LiveBody
<1>2. IInv /\ [Next]_vars => [Executor!Next]_Exec
  BY ExecStep
<1> QED
  BY <1>1, <1>2, Inductive, PTL DEF Spec, ExecutesSerially, Executor!Spec
-----------------------------------------------------------------------------
(* What a row says about its job                                           *)

\* How the rows may change in one step, whoever takes it.
LEMMA RowStep ==
  ASSUME TypeOK, [Next]_vars
  PROVE  \A j \in Jobs : row'[j] # row[j] =>
           \/ /\ phase = "down" /\ row[j] \in {"queued", "running"}
              /\ row'[j] = "failed"
           \/ row[j] = "none" /\ row'[j] = "queued" /\ j \in entering'
           \/ worker.at = "starting" /\ worker.job = j /\ row'[j] = "running"
                /\ (WorkerStart \/ phase' # "up")
           \/ worker.at = "closing" /\ worker.job = j /\ row'[j] \in Terminal
           \/ row'[j] \in {"cancelled", "gone"}
<1>0. /\ row \in [Jobs -> RowStates]
      /\ worker.at = "closing" => worker.verdict \in Terminal
  BY DEF TypeOK, RowType, WorkerType, IdleWorker, DeadWorker
<1>1. CASE Startup
  BY <1>0, <1>1 DEF Startup
<1>2. CASE Crash \/ StopReturns \/ Stop \/ WorkerStep
  <2>1. \/ row' = row
        \/ /\ worker.at = "starting" /\ row' = Mark(worker.job, "running")
           /\ WorkerStart \/ phase' # "up"
        \/ worker.at = "closing" /\ row' = Mark(worker.job, worker.verdict)
    BY <1>2 DEF Crash, StopReturns, ProcessEnds, Stop, WorkerStep, WorkerSkip,
         WorkerTake, WorkerStart, WorkerStartFails, WorkerReap, WorkerClose,
         WorkerCloseFails
  <2> QED
    BY <1>0, <2>1, MarkValue
<1>3. CASE \E j \in Jobs : EnqueueCommit(j) \/ EnqueueTrack(j)
  BY <1>0, <1>3 DEF EnqueueCommit, EnqueueTrack
<1>4. ASSUME NEW c \in Clients, ClientStep(c)
      PROVE  \A j \in Jobs : row'[j] # row[j] => row'[j] \in {"cancelled", "gone"}
  <2>1. \/ row' = row \/ row' = Mark(calls[c].job, "cancelled")
        \/ row' = [row EXCEPT ![calls[c].job] = "gone"]
    BY <1>4 DEF ClientStep, CancelRead, CancelDecide, CancelCommit,
         CancelMarkFails, DeleteRead, DeleteCommit
  <2> QED
    BY <1>0, <2>1, MarkValue
<1>5. ASSUME NEW wanted \in SUBSET Terminal, Prune(wanted)
      PROVE  \A j \in Jobs : row'[j] # row[j] => row'[j] \in {"cancelled", "gone"}
  BY <1>0, <1>5 DEF Prune
<1>6. CASE row' = row
  BY <1>6
<1> QED
  BY <1>1, <1>2, <1>3, <1>4, <1>5, <1>6
     DEF Next, vars, memory, BodyEnds, TimePasses, Watchdog

\* A job whose row says succeeded or failed is not executing any more.
THEOREM Settled == Spec => []SettledMeansOver
<1>1. Init => SettledMeansOver
  BY DEF Init, SettledMeansOver
<1>2. ASSUME IInv, SettledMeansOver, [Next]_vars
      PROVE  SettledMeansOver'
  <2> SUFFICES ASSUME NEW j \in Jobs, row'[j] \in {"succeeded", "failed"}
               PROVE  body'[j] = "none"
    BY DEF SettledMeansOver
  <2>1. IInv'
    BY <1>2, IInvStep
  <2>2. CASE body'[j] # "none" /\ row'[j] = row[j]
    <3>1. body[j] = "none"
      BY <1>2, <2>2 DEF SettledMeansOver
    <3>2. WorkerStart /\ worker.job = j
      BY <1>2, <2>2, <3>1, BodyAppears DEF IInv
    <3>3. row'[j] \in {"running", "gone"}
      BY <1>2, <3>2, MarkValue DEF WorkerStart, IInv, TypeOK, RowType
    <3> QED
      BY <3>3
  <2>3. CASE body'[j] # "none" /\ row'[j] # row[j]
    <3>1. phase = "down" \/ (worker.at = "closing" /\ worker.job = j)
      BY <1>2, <2>3, RowStep DEF IInv
    <3>2. body[j] = "none"
      BY <1>2, <3>1 DEF IInv, BodyOwned, DownIsEmpty, DeadWorker
    <3>3. WorkerStart
      BY <1>2, <2>3, <3>2, BodyAppears DEF IInv
    <3> QED
      BY <1>2, <3>1, <3>3 DEF WorkerStart, IInv, DownIsEmpty, DeadWorker
  <2> QED
    BY <2>2, <2>3
<1> QED
  BY <1>1, <1>2, Inductive, PTL DEF Spec

\* While the backend is up, a running row is the worker's, or its terminal
\* commit failed.
THEOREM Owned == Spec => []RunningIsOwned
<1>1. Init => RunningIsOwned
  BY DEF Init, RunningIsOwned
<1>2. ASSUME TypeOK, RunningIsOwned, [Next]_vars
      PROVE  RunningIsOwned'
  <2> SUFFICES ASSUME phase' = "up", NEW j \in Jobs, row'[j] = "running"
               PROVE  \/ worker'.at \in {"body", "closing"} /\ worker'.job = j
                      \/ j \in stranded'
    BY DEF RunningIsOwned
  <2>1. CASE row[j] # "running"
    <3>1. WorkerStart /\ worker.job = j
      BY <1>2, <2>1, RowStep DEF Terminal
    <3> QED
      BY <3>1 DEF WorkerStart
  <2>2. CASE row[j] = "running" /\ phase = "up"
    <3>1. \/ worker.at \in {"body", "closing"} /\ worker.job = j
          \/ j \in stranded
      BY <1>2, <2>2 DEF RunningIsOwned
    <3>2. CASE WorkerClose
      <4>1. worker.job # j
        BY <1>2, <2>2, <3>2, MarkValue
           DEF WorkerClose, TypeOK, RowType, WorkerType, IdleWorker, DeadWorker, Terminal
      <4> QED
        BY <3>1, <3>2, <4>1 DEF WorkerClose
    <3>3. CASE WorkerStep /\ ~WorkerClose
      BY <3>1, <3>3 DEF WorkerStep, WorkerSkip, WorkerTake, WorkerStart,
           WorkerStartFails, WorkerReap, WorkerCloseFails, ClearCurrent
    <3>4. CASE \E c \in Clients : ClientStep(c)
      BY <3>1, <3>4 DEF ClientStep, CancelRead, CancelDecide, CancelCommit,
           CancelMarkFails, DeleteRead, DeleteCommit
    <3>5. CASE UNCHANGED <<worker, stranded>>
      BY <3>1, <3>5
    <3> QED
      BY <1>2, <2>2, <3>2, <3>3, <3>4, <3>5
         DEF Next, vars, memory, Startup, Crash, Stop, StopReturns, ProcessEnds,
             EnqueueCommit, EnqueueTrack, BodyEnds, TimePasses, Watchdog, Prune
  <2>3. CASE row[j] = "running" /\ phase # "up"
    <3>1. Startup
      BY <1>2, <2>3
         DEF Next, vars, memory, Crash, Stop, StopReturns, ProcessEnds,
             EnqueueCommit, EnqueueTrack, WorkerStep, WorkerSkip, WorkerTake,
             WorkerStart, WorkerStartFails, WorkerReap, WorkerClose,
             WorkerCloseFails, ClearCurrent, BodyEnds, TimePasses, Watchdog,
             ClientStep, CancelRead, CancelDecide, CancelCommit,
             CancelMarkFails, DeleteRead, DeleteCommit, Prune
    <3> QED
      BY <2>3, <3>1 DEF Startup
  <2> QED
    BY <2>1, <2>2, <2>3
<1> QED
  BY <1>1, <1>2, TypeCorrect, PTL DEF Spec
-----------------------------------------------------------------------------
(* Where a queued job is                                                   *)

\* The ways in which a job whose row says queued is accounted for.
Tracked(j) ==
  \/ j \in entering
  \/ j \in pending /\ \E i \in DOMAIN queue : queue[i] = j
  \/ worker.at = "starting" /\ worker.job = j
  \/ \E c \in Clients : calls[c].at = "cancelMark" /\ calls[c].job = j
  \/ j \in stranded

LEMMA InTail ==
  ASSUME NEW q \in Seq(Jobs), q # <<>>, NEW j, j # Head(q),
         \E i \in DOMAIN q : q[i] = j
  PROVE  \E i \in DOMAIN Tail(q) : Tail(q)[i] = j
<1>1. PICK i \in DOMAIN q : q[i] = j
  OBVIOUS
<1>2. /\ Len(q) \in Nat /\ DOMAIN q = 1 .. Len(q)
      /\ Len(Tail(q)) = Len(q) - 1 /\ DOMAIN Tail(q) = 1 .. Len(Tail(q))
      /\ Head(q) = q[1]
      /\ \A k \in 1 .. Len(q) - 1 : Tail(q)[k] = q[k + 1]
  BY HeadTailProperties
<1>3. i - 1 \in DOMAIN Tail(q) /\ Tail(q)[i - 1] = j
  BY <1>1, <1>2
<1> QED
  BY <1>3

LEMMA InAppend ==
  ASSUME NEW q \in Seq(Jobs), NEW k \in Jobs, NEW j,
         j = k \/ \E i \in DOMAIN q : q[i] = j
  PROVE  \E i \in DOMAIN Append(q, k) : Append(q, k)[i] = j
<1>1. /\ Len(q) \in Nat /\ DOMAIN q = 1 .. Len(q)
      /\ DOMAIN Append(q, k) = 1 .. Len(q) + 1
      /\ \A i \in 1 .. Len(q) : Append(q, k)[i] = q[i]
      /\ Append(q, k)[Len(q) + 1] = k
  BY AppendProperties
<1> QED
  BY <1>1

\* No queued job is lost, whoever calls and whatever commit fails.
THEOREM NoneLost == Spec => []QueuedIsTracked
<1>1. Init => QueuedIsTracked
  BY DEF Init, QueuedIsTracked
<1>2. ASSUME TypeOK, QueuedIsTracked, [Next]_vars
      PROVE  QueuedIsTracked'
  <2>0. /\ queue \in Seq(Jobs) /\ row \in [Jobs -> RowStates]
        /\ worker.at \in {"starting", "closing"} => worker.job \in Jobs
        /\ worker.at = "closing" => worker.verdict \in Terminal
    BY <1>2 DEF TypeOK, QueueType, RowType, WorkerType, IdleWorker, DeadWorker
  <2> SUFFICES ASSUME phase' = "up", NEW j \in Jobs, row'[j] = "queued"
               PROVE  \/ j \in entering'
                      \/ j \in pending' /\ \E i \in DOMAIN queue' : queue'[i] = j
                      \/ worker'.at = "starting" /\ worker'.job = j
                      \/ \E c \in Clients :
                           calls'[c].at = "cancelMark" /\ calls'[c].job = j
                      \/ j \in stranded'
    BY DEF QueuedIsTracked
  <2>1. CASE Startup
    <3>1. j \in {k \in Registered : row[k] = "queued"}
      BY <2>0, <2>1 DEF Startup
    <3>2. {k \in Registered : row[k] = "queued"} \in SUBSET Jobs
      BY JobManagerAssumption
    <3>3. \E i \in DOMAIN queue' : queue'[i] = j
      BY <2>1, <3>1, <3>2, OrdersType DEF Startup
    <3> QED
      BY <2>1, <3>1, <3>3 DEF Startup
  <2>2. CASE row[j] # "queued"
    BY <1>2, <2>2, RowStep, <2>1 DEF Terminal
  <2>3. CASE row[j] = "queued" /\ ~Startup
    <3>1. phase = "up"
      BY <1>2, <2>3
         DEF Next, vars, memory, Crash, Stop, StopReturns, ProcessEnds,
             EnqueueCommit, EnqueueTrack, WorkerStep, WorkerSkip, WorkerTake,
             WorkerStart, WorkerStartFails, WorkerReap, WorkerClose,
             WorkerCloseFails, ClearCurrent, BodyEnds, TimePasses, Watchdog,
             ClientStep, CancelRead, CancelDecide, CancelCommit,
             CancelMarkFails, DeleteRead, DeleteCommit, Prune
    <3>2. Tracked(j)
      BY <1>2, <2>3, <3>1 DEF QueuedIsTracked, Tracked
    <3>3. CASE WorkerSkip \/ WorkerTake
      <4>1. queue # <<>> /\ queue' = Tail(queue)
        BY <3>3 DEF WorkerSkip, WorkerTake
      <4>2. CASE j = Head(queue) /\ j \in pending
        BY <3>3, <4>2 DEF WorkerSkip, WorkerTake
      <4>3. CASE j \in pending /\ j # Head(queue)
                 /\ \E i \in DOMAIN queue : queue[i] = j
        <5>1. \E i \in DOMAIN queue' : queue'[i] = j
          BY <2>0, <4>1, <4>3, InTail
        <5> QED
          BY <3>3, <4>3, <5>1 DEF WorkerSkip, WorkerTake
      <4>4. worker.at = "idle"
        BY <3>3 DEF WorkerSkip, WorkerTake
      <4> QED
        BY <3>2, <3>3, <4>2, <4>3, <4>4 DEF Tracked, WorkerSkip, WorkerTake
    <3>4. CASE WorkerStart \/ WorkerReap \/ WorkerClose
      <4>1. ~(worker.at = "starting" /\ worker.job = j)
        BY <2>0, <2>3, <3>4, MarkValue
           DEF WorkerStart, WorkerReap, WorkerClose
      <4> QED
        BY <3>2, <3>4, <4>1
           DEF Tracked, WorkerStart, WorkerReap, WorkerClose, ClearCurrent
    <3>5. CASE WorkerStartFails \/ WorkerCloseFails
      BY <3>2, <3>5 DEF Tracked, WorkerStartFails, WorkerCloseFails, ClearCurrent
    <3>6. CASE \E k \in Jobs : EnqueueCommit(k) \/ EnqueueTrack(k)
      <4>1. PICK k \in Jobs : EnqueueCommit(k) \/ EnqueueTrack(k)
        BY <3>6
      <4>2. CASE EnqueueCommit(k)
        BY <3>2, <4>2 DEF Tracked, EnqueueCommit
      <4>3. CASE EnqueueTrack(k)
        <5>0. queue' = Append(queue, k)
          BY <4>3 DEF EnqueueTrack
        <5>1. ASSUME j = k \/ \E i \in DOMAIN queue : queue[i] = j
              PROVE  \E i \in DOMAIN queue' : queue'[i] = j
          <6>1. \E i \in DOMAIN Append(queue, k) : Append(queue, k)[i] = j
            BY <2>0, <5>1, InAppend
          <6> QED
            BY <6>1, <5>0
        <5> QED
          BY <3>2, <4>3, <5>1 DEF Tracked, EnqueueTrack
      <4> QED
        BY <4>1, <4>2, <4>3
    <3>7. ASSUME NEW c \in Clients, ClientStep(c)
          PROVE  \/ j \in entering'
                 \/ j \in pending' /\ \E i \in DOMAIN queue' : queue'[i] = j
                 \/ worker'.at = "starting" /\ worker'.job = j
                 \/ \E d \in Clients :
                      calls'[d].at = "cancelMark" /\ calls'[d].job = j
                 \/ j \in stranded'
      <4>0. calls \in [Clients -> {NoCall} \union
              [at : {"cancelRead", "cancelMark", "cancelUntracked", "delete"}, job : Jobs]]
        BY <1>2 DEF TypeOK, CallType
      <4>1. CASE \E k \in Jobs : CancelRead(c, k) \/ DeleteRead(c, k)
        BY <3>2, <4>0, <4>1 DEF Tracked, CancelRead, DeleteRead, Call, NoCall
      <4>2. CASE CancelDecide(c)
        BY <3>2, <4>0, <4>2 DEF Tracked, CancelDecide, Call, Return, NoCall
      <4>3. CASE CancelCommit(c)
        <5>1. calls[c].job # j
          BY <2>0, <2>3, <4>3, MarkValue DEF CancelCommit
        <5> QED
          BY <3>2, <4>0, <4>3, <5>1 DEF Tracked, CancelCommit, Return, NoCall
      <4>4. CASE CancelMarkFails(c)
        BY <3>2, <4>0, <4>4 DEF Tracked, CancelMarkFails, Return, NoCall
      <4>5. CASE DeleteCommit(c)
        BY <3>2, <4>0, <4>5 DEF Tracked, DeleteCommit, Return, NoCall
      <4> QED
        BY <3>7, <4>1, <4>2, <4>3, <4>4, <4>5 DEF ClientStep
    <3>8. CASE UNCHANGED <<entering, pending, queue, worker, calls, stranded>>
      BY <3>2, <3>8 DEF Tracked
    <3> QED
      BY <1>2, <2>3, <3>1, <3>3, <3>4, <3>5, <3>6, <3>7, <3>8
         DEF Next, vars, memory, Crash, Stop, StopReturns, ProcessEnds,
             WorkerStep, BodyEnds, TimePasses, Watchdog, Prune
  <2> QED
    BY <2>1, <2>2, <2>3
<1> QED
  BY <1>1, <1>2, TypeCorrect, PTL DEF Spec

\* A job that was cancelled and that nobody holds any more is not taken by the
\* worker, and its row stays as it is until it is deleted.
THEOREM Withdrawn == Spec => WithdrawnStaysCancelled
<1>1. ASSUME TypeOK, [Next]_vars, NEW j \in Jobs, row[j] = "cancelled",
             j \notin entering \union pending, worker.job # j
      PROVE  row'[j] \in {"cancelled", "gone"} /\ worker'.job # j
  <2>1. row'[j] \in {"cancelled", "gone"}
    BY <1>1, RowStep DEF Terminal
  <2>2. worker'.job # j
    <3>1. CASE WorkerTake
      BY <1>1, <3>1 DEF WorkerTake
    <3>2. CASE worker' = worker \/ worker' \in {IdleWorker, DeadWorker}
               \/ worker'.job = worker.job
      BY <1>1, <3>2, JobManagerAssumption DEF IdleWorker, DeadWorker
    <3> QED
      BY <1>1, <3>1, <3>2
         DEF Next, vars, memory, Startup, Crash, Stop, StopReturns, ProcessEnds,
             EnqueueCommit, EnqueueTrack, WorkerStep, WorkerSkip, WorkerStart,
             WorkerStartFails, WorkerReap, WorkerClose, WorkerCloseFails,
             ClearCurrent, BodyEnds, TimePasses, Watchdog, ClientStep,
             CancelRead, CancelDecide, CancelCommit, CancelMarkFails,
             DeleteRead, DeleteCommit, Prune
  <2> QED
    BY <2>1, <2>2
<1>2. TypeOK /\ [Next]_vars =>
        [\A j \in Jobs :
           row[j] = "cancelled" /\ j \notin entering \union pending /\ worker.job # j
           => row'[j] \in {"cancelled", "gone"} /\ worker'.job # j]_vars
  BY <1>1
<1> QED
  BY <1>2, TypeCorrect, PTL DEF Spec, WithdrawnStaysCancelled
=============================================================================
