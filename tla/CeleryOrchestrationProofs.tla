------------------------ MODULE CeleryOrchestrationProofs ------------------------
(***************************************************************************)
(* Safety of the distributed deployment for every batch, every number of   *)
(* managers and task workers, every retry policy and every bound of        *)
(* CeleryOrchestration.  Typing first; then the inductive invariant, whose *)
(* heart is that at most one manager holds a run, although any number of   *)
(* them may have picked it up.                                             *)
(***************************************************************************)
EXTENDS CeleryOrchestration, TLAPS

-----------------------------------------------------------------------------
(* Typing of the repository's transactions.                                *)

\* Every target of a run transition is a run state.
LEMMA RunTargets ==
    ASSUME NEW s PROVE RUN_TRANSITIONS(s) \subseteq RunState
  BY DEF RUN_TRANSITIONS, RunState, RUN_TERMINAL

\* Every target of an attempt transition is an attempt state.
LEMMA AttemptTargets ==
    ASSUME NEW s PROVE ATTEMPT_TRANSITIONS(s) \subseteq AttemptState
  BY DEF ATTEMPT_TRANSITIONS, AttemptState, ATTEMPT_LEASED, ATTEMPT_TERMINAL, RUN_TERMINAL

\* RunRepository.transition writes a run state.
LEMMA TransitionType ==
    ASSUME RepositoryTypeOK, NEW r \in Runs, NEW t, Transition(r, t)
    PROVE  RepositoryTypeOK'
  BY RunTargets DEF RepositoryTypeOK, Transition, CanTransition

\* transition_attempt and complete_attempt write an attempt state.
LEMMA TransitionAttemptType ==
    ASSUME RepositoryTypeOK, NEW a, NEW t, TransitionAttempt(a, t)
    PROVE  RepositoryTypeOK'
  BY AttemptTargets DEF RepositoryTypeOK, TransitionAttempt, CanTransitionAttempt

\* begin_attempt keeps the types, and the row it inserts is within the bound.
LEMMA BeginAttemptType ==
    ASSUME RepositoryTypeOK, NEW r \in Runs, BeginAttempt(r)
    PROVE  RepositoryTypeOK' /\ made[r] + 1 \in 1..AttemptBound
  <1>1. made[r] + 1 \in 1..AttemptBound /\ LeaseSeconds \in 0..LeaseSeconds
    BY RepositoryAssumption DEF RepositoryTypeOK, BeginAttempt
  <1>2. "RUNNING" \in RunState /\ "CLAIMED" \in AttemptState
    BY DEF RunState, AttemptState, ATTEMPT_LEASED
  <1>3. made' \in [Runs -> 0..AttemptBound]
    BY <1>1, RepositoryAssumption DEF RepositoryTypeOK, BeginAttempt
  <1>4. lease' \in [Attempts -> 0..LeaseSeconds]
    BY <1>1 DEF RepositoryTypeOK, BeginAttempt
  <1>5. /\ run' \in [Runs -> RunState]
        /\ attempt' \in [Attempts -> AttemptState \cup {"ABSENT"}]
    BY <1>2 DEF RepositoryTypeOK, BeginAttempt
  <1> QED
    BY <1>1, <1>3, <1>4, <1>5 DEF RepositoryTypeOK

\* renew_attempt_lease keeps the types.
LEMMA RenewType ==
    ASSUME RepositoryTypeOK, NEW a, RenewAttemptLease(a)
    PROVE  RepositoryTypeOK'
  <1>1. LeaseSeconds \in 0..LeaseSeconds
    BY RepositoryAssumption
  <1> QED  BY <1>1 DEF RepositoryTypeOK, RenewAttemptLease

\* expire_attempt_leases keeps the types.
LEMMA ExpireType ==
    ASSUME RepositoryTypeOK, NEW S, ExpireAttemptLeases(S)
    PROVE  RepositoryTypeOK'
  <1>1. "INFRA_ERROR" \in RunState /\ "LOST" \in AttemptState
    BY DEF RunState, RUN_TERMINAL, AttemptState, ATTEMPT_TERMINAL
  <1> QED  BY <1>1 DEF RepositoryTypeOK, ExpireAttemptLeases

\* The passing of time never makes a lease negative.
LEMMA TickType ==
    ASSUME RepositoryTypeOK, Tick
    PROVE  RepositoryTypeOK'
  BY RepositoryAssumption DEF RepositoryTypeOK, Tick

-----------------------------------------------------------------------------
(* Typing of the steps.                                                    *)

\* Moving a process to a known label keeps pc well typed.
LEMMA GotoType ==
    ASSUME ManagerTypeOK, NEW p \in Processes, NEW l \in Labels, Goto(p, l)
    PROVE  pc' \in [Processes -> Labels]
  BY DEF ManagerTypeOK, Goto

\* The end of one iteration of dispatch_available keeps the types.
LEMMA LoopAfterType ==
    ASSUME TypeOK, NEW p \in Processes, NEW r \in Runs, NEW f \in BOOLEAN, LoopAfter(p, r, f)
    PROVE  CoordinatorTypeOK' /\ pc' \in [Processes -> Labels]
  <1>1. CoordinatorTypeOK'
    BY DEF LoopAfter, CoordinatorTypeOK, TypeOK
  <1>2. \E l \in {"dispatch", "claim", "refilled"} : Goto(p, l)
    BY DEF LoopAfter
  <1>3. pc' \in [Processes -> Labels]
    BY <1>2, GotoType DEF TypeOK, Labels
  <1> QED  BY <1>1, <1>3

\* A pool thread may also be inside dispatch_available.
LEMMA WorkersAreProcesses == Workers \subseteq Processes
  BY ManagerAssumption

\* The messages and the counters of the model's bounds.
CeleryTypeOK ==
    /\ broker \subseteq Messages
    /\ retrying \in [TaskWorkers -> Messages \cup {NoMessage}]
    /\ redelivered \in 0..Redeliveries
    /\ crashes \in 0..MaxCrashes /\ taskCrashes \in 0..MaxTaskCrashes

\* The type invariant, as one fact per group of variables.
LEMMA TypeParts ==
    TypeOK <=> RepositoryTypeOK /\ CoordinatorTypeOK /\ ManagerTypeOK /\ CeleryTypeOK
  BY DEF TypeOK, CeleryTypeOK

\* The same after a step that leaves the managers' rows alone.
LEMMA CoordinatorParts ==
    ASSUME TypeOK, RepositoryTypeOK', CoordinatorTypeOK', CeleryTypeOK',
           pc' \in [Processes -> Labels], UNCHANGED workerVars
    PROVE  TypeOK'
  BY DEF TypeOK, CeleryTypeOK, ManagerTypeOK, workerVars

\* The message of a run is a message.
LEMMA MessageType ==
    ASSUME NEW r \in Runs, NEW n \in 0..AttemptBound
    PROVE  <<"prepare_run", r, 0>> \in Messages /\ <<"retry_run", r, n>> \in Messages
  BY RepositoryAssumption DEF Messages

\* Every step of dispatch_available keeps the types.
LEMMA CoordinatorStepType ==
    ASSUME TypeOK, NEW p \in Processes, CoordinatorStep(p)
    PROVE  TypeOK'
  <1>0. UNCHANGED repoVars => RepositoryTypeOK'
    BY DEF TypeOK, RepositoryTypeOK, repoVars
  <1>00. UNCHANGED celeryVars => CeleryTypeOK'
    BY DEF TypeOK, CeleryTypeOK, celeryVars, counters
  <1>1. CASE Claim(p)
    <2>1. PICK S \in SUBSET Waiting :
            /\ run' = [r \in Runs |-> IF r \in S THEN "QUEUED" ELSE run[r]]
            /\ todo' = [todo EXCEPT ![p] = S]
            /\ Goto(p, IF S = {} THEN "refilled" ELSE "dispatch")
      BY <1>1 DEF Claim, ClaimAvailableRuns
    <2>2. "QUEUED" \in RunState /\ {"refilled", "dispatch"} \subseteq Labels
      BY DEF RunState, Labels
    <2>3. RepositoryTypeOK'
      BY <1>1, <2>1, <2>2 DEF Claim, ClaimAvailableRuns, RepositoryTypeOK, TypeOK
    <2>4. CoordinatorTypeOK'
      BY <1>1, <2>1 DEF Claim, ClaimAvailableRuns, CoordinatorTypeOK, TypeOK, Waiting
    <2>5. pc' \in [Processes -> Labels]
      BY <2>1, <2>2, GotoType DEF TypeOK
    <2> QED  BY <1>1, <1>00, <2>3, <2>4, <2>5, CoordinatorParts DEF Claim
  <1>2. ASSUME NEW r \in Runs, SendPrepare(p, r) PROVE TypeOK'
    <2>1. CoordinatorTypeOK' /\ pc' \in [Processes -> Labels]
      BY <1>2, LoopAfterType DEF SendPrepare, Dispatched
    <2>2. <<"prepare_run", r, 0>> \in Messages
      BY RepositoryAssumption DEF Messages
    <2>3. CeleryTypeOK'
      BY <1>2, <2>2 DEF SendPrepare, TypeOK, CeleryTypeOK, counters
    <2> QED  BY <1>0, <1>2, <2>1, <2>3, CoordinatorParts DEF SendPrepare
  <1>3. ASSUME NEW r \in Runs, SendPrepareRaises(p, r) PROVE TypeOK'
    <2>1. CoordinatorTypeOK'
      BY <1>3 DEF SendPrepareRaises, DispatchRaised, TypeOK, CoordinatorTypeOK
    <2>2. pc' \in [Processes -> Labels]
      BY <1>3, GotoType DEF SendPrepareRaises, DispatchRaised, TypeOK, Labels
    <2>3. <<"prepare_run", r, 0>> \in Messages
      BY RepositoryAssumption DEF Messages
    <2>4. CeleryTypeOK'
      BY <1>3, <2>3 DEF SendPrepareRaises, SendRaised, TypeOK, CeleryTypeOK, counters
    <2> QED  BY <1>0, <1>3, <2>1, <2>2, <2>4, CoordinatorParts DEF SendPrepareRaises
  <1>4. ASSUME NEW r \in Runs, SendFails(p, r) PROVE TypeOK'
    <2>1. RepositoryTypeOK'
      BY <1>0, <1>4, TransitionType DEF SendFails, FailDispatch, TypeOK
    <2>2. CASE LoopAfter(p, r, TRUE)
      BY <1>4, <1>00, <2>1, <2>2, LoopAfterType, CoordinatorParts DEF SendFails
    <2>3. CASE /\ todo' = [todo EXCEPT ![p] = {}]
               /\ Goto(p, "refilled")
               /\ UNCHANGED refill
      <3>1. CoordinatorTypeOK'
        BY <2>3 DEF TypeOK, CoordinatorTypeOK
      <3>2. pc' \in [Processes -> Labels]
        BY <2>3, GotoType DEF TypeOK, Labels
      <3> QED  BY <1>4, <1>00, <2>1, <3>1, <3>2, CoordinatorParts DEF SendFails
    <2> QED  BY <1>4, <2>2, <2>3 DEF SendFails, FailDispatch
  <1> QED  BY <1>1, <1>2, <1>3, <1>4 DEF CoordinatorStep

\* A worker step that leaves the batch loop's and the broker's state alone.
LEMMA WorkerParts ==
    ASSUME TypeOK, RepositoryTypeOK', UNCHANGED <<todo, refill, celeryVars, job>>,
           pc' \in [Processes -> Labels],
           number' \in [Workers -> 0..AttemptBound], result' \in [Workers -> Result]
    PROVE  TypeOK'
  BY DEF TypeOK, CoordinatorTypeOK, ManagerTypeOK, celeryVars, counters

\* _RESULT_STATES maps a result to a result.
LEMMA VerdictType ==
    ASSUME TypeOK, NEW w \in Workers
    PROVE  Verdict(w) \in Result
  BY DEF TypeOK, ManagerTypeOK, Verdict, Result, ResultOutcome, RUN_TERMINAL

\* Steps of execute that only move the worker and write one transaction.
LEMMA SimpleStepType ==
    ASSUME TypeOK, NEW w \in Workers, job[w] \in Runs, UNCHANGED <<celeryVars, workerVars>>,
           \/ Load(w) \/ Prepare(w) \/ Launch(w) \/ CheckLost(w) \/ Collect(w)
           \/ Complete(w) \/ Decide(w) \/ RetryWait(w) \/ MarkCancelling(w) \/ Settle(w)
    PROVE  TypeOK'
  <1>1. UNCHANGED repoVars => RepositoryTypeOK'
    BY DEF TypeOK, RepositoryTypeOK, repoVars
  <1>2. RepositoryTypeOK'
    BY <1>1, TransitionType, TransitionAttemptType
    DEF TypeOK, Load, Prepare, Launch, Advance, CheckLost, Collect, Complete, CompleteAttempt, Finish,
        Decide, RetryWait, MoveRun, MarkCancelling, Settle
  <1>3. UNCHANGED <<todo, refill>>
    BY DEF Load, Prepare, Launch, Advance, CheckLost, Collect, Complete, Finish,
        Decide, RetryWait, MoveRun, MarkCancelling, Settle, At
  <1>4. \E l \in Labels : Goto(w, l)
    BY DEF Load, Prepare, Launch, Advance, CheckLost, Collect, Complete, Finish,
        Decide, RetryWait, MoveRun, MarkCancelling, Settle, Labels, ManagerLabels
  <1>5. pc' \in [Processes -> Labels]
    BY <1>4, GotoType, WorkersAreProcesses DEF TypeOK
  <1> QED
    BY <1>2, <1>3, <1>5, WorkerParts DEF workerVars, TypeOK, ManagerTypeOK

\* Every step of RunnerManager.execute, and every heartbeat, keeps the types.
LEMMA ManagerStepType ==
    ASSUME TypeOK, NEW w \in Workers, job[w] \in Runs, UNCHANGED celeryVars,
           ManagerStep(w) \/ Heartbeat(w)
    PROVE  TypeOK'
  <1>1. UNCHANGED repoVars => RepositoryTypeOK'
    BY DEF TypeOK, RepositoryTypeOK, repoVars
  <1>2. CASE Begin(w)
    <2>1. RepositoryTypeOK' /\ number' \in [Workers -> 0..AttemptBound]
      <3>1. CASE BeginAttempt(job[w]) /\ number' = [number EXCEPT ![w] = made[job[w]] + 1]
        <4>1. RepositoryTypeOK' /\ made[job[w]] + 1 \in 1..AttemptBound
          BY <3>1, BeginAttemptType DEF TypeOK
        <4>2. made[job[w]] + 1 \in 0..AttemptBound
          BY <4>1, RepositoryAssumption
        <4> QED  BY <3>1, <4>1, <4>2 DEF TypeOK, ManagerTypeOK
      <3> QED  BY <1>1, <1>2, <3>1 DEF Begin, TypeOK, ManagerTypeOK
    <2>2. pc' \in [Processes -> Labels]
      <3>1. \E l \in Labels : Goto(w, l)
        BY <1>2 DEF Begin, Labels, ManagerLabels
      <3> QED  BY <3>1, GotoType, WorkersAreProcesses DEF TypeOK
    <2>3. UNCHANGED <<todo, refill, job, result>>
      BY <1>2 DEF Begin, At
    <2> QED  BY <2>1, <2>2, <2>3, WorkerParts DEF TypeOK, ManagerTypeOK
  <1>3. CASE Heartbeat(w)
    <2>1. RepositoryTypeOK'
      BY <1>1, <1>3, RenewType DEF Heartbeat, TypeOK
    <2>2. result' \in [Workers -> Result]
      BY <1>3 DEF Heartbeat, TypeOK, ManagerTypeOK, Result, ResultOutcome, RUN_TERMINAL
    <2> QED  BY <1>3, <2>1, <2>2, WorkerParts DEF Heartbeat, At, TypeOK, ManagerTypeOK
  <1>4. CASE ExecutorReturns(w) \/ CheckCancel(w)
    <2>1. \E o \in Result : result' = [result EXCEPT ![w] = o]
      BY <1>4, ManagerAssumption DEF ExecutorReturns, CheckCancel, TypeOK, ManagerTypeOK,
         Result, ResultOutcome, RUN_TERMINAL
    <2>2. result' \in [Workers -> Result]
      BY <2>1 DEF TypeOK, ManagerTypeOK
    <2>3. \E l \in Labels : Goto(w, l)
      BY <1>4 DEF ExecutorReturns, CheckCancel, Labels, ManagerLabels
    <2>4. pc' \in [Processes -> Labels]
      BY <2>3, GotoType, WorkersAreProcesses DEF TypeOK
    <2> QED
      BY <1>1, <1>4, <2>2, <2>4, WorkerParts
      DEF ExecutorReturns, CheckCancel, At, TypeOK, ManagerTypeOK
  <1>5. CASE GiveUp(w)
    <2>1. RepositoryTypeOK'
      BY <1>1, <1>5, TransitionType DEF GiveUp, TypeOK
    <2>2. result' \in [Workers -> Result]
      BY <1>5, VerdictType DEF GiveUp, TypeOK, ManagerTypeOK
    <2>3. \E l \in Labels : Goto(w, l)
      BY <1>5 DEF GiveUp, Labels, ManagerLabels
    <2>4. pc' \in [Processes -> Labels]
      BY <2>3, GotoType, WorkersAreProcesses DEF TypeOK
    <2> QED
      BY <1>5, <2>1, <2>2, <2>4, WorkerParts DEF GiveUp, At, TypeOK, ManagerTypeOK
  <1>6. CASE \/ Load(w) \/ Prepare(w) \/ Launch(w) \/ CheckLost(w) \/ Collect(w)
             \/ Complete(w) \/ Decide(w) \/ RetryWait(w) \/ MarkCancelling(w) \/ Settle(w)
    <2>1. UNCHANGED workerVars
      BY <1>6 DEF Load, Prepare, Launch, Advance, CheckLost, Collect, Complete, Finish,
        Decide, RetryWait, MoveRun, MarkCancelling, Settle
    <2> QED  BY <1>6, <2>1, SimpleStepType
  <1> QED  BY <1>2, <1>3, <1>4, <1>5, <1>6 DEF ManagerStep

\* An acknowledgement, lost or not, keeps the types.
LEMMA AcknowledgeType ==
    ASSUME TypeOK, NEW m, Acknowledge(m)
    PROVE  broker' \subseteq Messages /\ redelivered' \in 0..Redeliveries
  BY CeleryAssumption DEF Acknowledge, TypeOK

\* Every step of a Celery task keeps the types; a task leaves the managers alone.
LEMMA TaskStepType ==
    ASSUME TypeOK,
           \/ \E r \in Runs : PrepareRunTask(r)
           \/ \E t \in TaskWorkers : TaskStep(t) \/ TaskWorkerCrash(t)
    PROVE  TypeOK' /\ UNCHANGED <<coordinatorVars, workerVars>>
  <1>0. UNCHANGED repoVars => RepositoryTypeOK'
    BY DEF TypeOK, RepositoryTypeOK, repoVars
  <1>00. ASSUME RepositoryTypeOK', CeleryTypeOK', UNCHANGED <<coordinatorVars, workerVars>>
         PROVE  TypeOK'
    BY <1>00 DEF TypeOK, CeleryTypeOK, CoordinatorTypeOK, ManagerTypeOK, coordinatorVars, workerVars
  <1>1. ASSUME NEW r \in Runs, PrepareRunTask(r)
        PROVE  TypeOK' /\ UNCHANGED <<coordinatorVars, workerVars>>
    <2>1. RepositoryTypeOK'
      BY <1>0, <1>1, TransitionType DEF PrepareRunTask, PrepareRun, TypeOK
    <2>2. broker' \subseteq Messages /\ redelivered' \in 0..Redeliveries
      BY <1>1, AcknowledgeType DEF PrepareRunTask
    <2>3. CeleryTypeOK'
      BY <1>1, <2>2 DEF PrepareRunTask, TypeOK, CeleryTypeOK
    <2> QED  BY <1>00, <1>1, <2>1, <2>3 DEF PrepareRunTask
  <1>2. ASSUME NEW t \in TaskWorkers, NEW r \in Runs, NEW n \in 1..AttemptBound, RetryRunTask(t, r, n)
        PROVE  TypeOK' /\ UNCHANGED <<coordinatorVars, workerVars>>
    <2>1. RepositoryTypeOK'
      BY <1>0, <1>2, TransitionType DEF RetryRunTask, TypeOK
    <2>2. broker' \subseteq Messages /\ redelivered' \in 0..Redeliveries
      BY <1>2, AcknowledgeType DEF RetryRunTask, TypeOK
    <2>3. <<"retry_run", r, n>> \in Messages
      BY <1>2 DEF RetryRunTask, TypeOK
    <2>4. retrying' \in [TaskWorkers -> Messages \cup {NoMessage}]
      BY <1>2, <2>3 DEF RetryRunTask, TypeOK
    <2>5. CeleryTypeOK'
      BY <1>2, <2>2, <2>4 DEF RetryRunTask, TypeOK, CeleryTypeOK
    <2> QED  BY <1>00, <1>2, <2>1, <2>5 DEF RetryRunTask
  <1>3. ASSUME NEW t \in TaskWorkers, RetryRunPrepares(t)
        PROVE  TypeOK' /\ UNCHANGED <<coordinatorVars, workerVars>>
    <2>1. retrying[t] \in Messages
      BY <1>3 DEF RetryRunPrepares, TypeOK
    <2>2. retrying[t][2] \in Runs
      BY <2>1 DEF Messages
    <2>3. RepositoryTypeOK'
      BY <1>0, <1>3, <2>2, TransitionType DEF RetryRunPrepares, PrepareRun, TypeOK
    <2>4. broker' \subseteq Messages /\ redelivered' \in 0..Redeliveries
      BY <1>3, AcknowledgeType DEF RetryRunPrepares
    <2>5. CeleryTypeOK'
      BY <1>3, <2>4 DEF RetryRunPrepares, TypeOK, CeleryTypeOK
    <2> QED  BY <1>00, <1>3, <2>3, <2>5 DEF RetryRunPrepares
  <1>4. ASSUME NEW t \in TaskWorkers, TaskWorkerCrash(t)
        PROVE  TypeOK' /\ UNCHANGED <<coordinatorVars, workerVars>>
    <2>1. CeleryTypeOK'
      BY <1>4, CeleryAssumption DEF TaskWorkerCrash, TypeOK, CeleryTypeOK
    <2> QED  BY <1>0, <1>00, <1>4, <2>1 DEF TaskWorkerCrash
  <1> QED  BY <1>1, <1>2, <1>3, <1>4 DEF TaskStep

-----------------------------------------------------------------------------
(* The type invariant.  It needs one fact beyond typing: a manager that is *)
(* not idle has a run, so what it indexes by job[w] is a run.              *)

Busy == \A w \in Workers : pc[w] # "idle" => job[w] \in Runs

Typed == TypeOK /\ Busy

\* The initial state is well typed.
LEMMA TypedInit == Init => Typed
  <1> SUFFICES ASSUME Init PROVE Typed
    OBVIOUS
  <1>1. RepositoryTypeOK
    BY RepositoryAssumption
    DEF Init, RepositoryInit, RepositoryTypeOK, RunState
  <1>2. CoordinatorTypeOK /\ ManagerTypeOK
    BY RepositoryAssumption
    DEF Init, CoordinatorTypeOK, ManagerTypeOK, Labels, ManagerLabels, Result
  <1>3. TypeOK
    BY <1>1, <1>2, CeleryAssumption DEF Init, TypeOK
  <1>4. Busy
    BY CeleryAssumption DEF Init, Busy
  <1> QED  BY <1>3, <1>4 DEF Typed

\* PickUp, schedule, return and crash of a manager keep the types.
LEMMA LifeType ==
    ASSUME Typed, NEW w \in Workers,
           \/ \E r \in Runs : PickUp(w, r)
           \/ Schedule(w) \/ Return(w) \/ ManagerCrash(w)
    PROVE  Typed'
  <1> USE DEF Typed
  <1>0. UNCHANGED repoVars => RepositoryTypeOK'
    BY DEF TypeOK, RepositoryTypeOK, repoVars
  <1>1. ASSUME NEW r \in Runs, PickUp(w, r) PROVE Typed'
    BY <1>0, <1>1, WorkersAreProcesses
    DEF PickUp, At, Goto, TypeOK, CoordinatorTypeOK, ManagerTypeOK, Busy, Labels, ManagerLabels,
        celeryVars, counters
  <1>2. CASE Schedule(w)
    <2>1. job[w] \in Runs
      BY <1>2 DEF Schedule, At, Busy
    <2>2. RetryMessage(w) \in Messages
      BY <2>1, MessageType DEF RetryMessage, TypeOK, ManagerTypeOK
    <2>3. CeleryTypeOK'
      BY <1>2, <2>2 DEF Schedule, SendRaised, TypeOK, CeleryTypeOK, counters
    <2>4. result' \in [Workers -> Result]
      BY <1>2, VerdictType DEF Schedule, TypeOK, ManagerTypeOK
    <2>5. \E l \in {"refilled", "give_up"} : Goto(w, l)
      BY <1>2 DEF Schedule
    <2>6. pc' \in [Processes -> Labels]
      BY <2>5, GotoType, WorkersAreProcesses DEF TypeOK, Labels, ManagerLabels
    <2>7. Busy'
      BY <1>2, <2>1, <2>5, WorkersAreProcesses DEF Schedule, Goto, Busy, TypeOK, ManagerTypeOK
    <2>8. CoordinatorTypeOK' /\ RepositoryTypeOK' /\ ManagerTypeOK'
      BY <1>0, <1>2, <2>4, <2>6 DEF Schedule, At, TypeOK, CoordinatorTypeOK, ManagerTypeOK
    <2> QED  BY <2>3, <2>7, <2>8 DEF TypeOK, CeleryTypeOK
  <1>3. CASE Return(w)
    <2>1. ManagerTypeOK'
      BY <1>3, WorkersAreProcesses, RepositoryAssumption
      DEF Return, Leave, Goto, TypeOK, ManagerTypeOK, Labels, Result
    <2>2. CoordinatorTypeOK' /\ RepositoryTypeOK' /\ CeleryTypeOK'
      BY <1>0, <1>3 DEF Return, At, TypeOK, CoordinatorTypeOK, CeleryTypeOK, celeryVars, counters
    <2>3. Busy'
      BY <1>3, WorkersAreProcesses DEF Return, Leave, Goto, Busy, TypeOK, ManagerTypeOK
    <2> QED  BY <2>1, <2>2, <2>3 DEF TypeOK, CeleryTypeOK
  <1>4. CASE ManagerCrash(w)
    <2>1. ManagerTypeOK'
      BY <1>4, WorkersAreProcesses, RepositoryAssumption
      DEF ManagerCrash, Leave, Goto, TypeOK, ManagerTypeOK, Labels, Result
    <2>2. CoordinatorTypeOK' /\ RepositoryTypeOK' /\ CeleryTypeOK'
      BY <1>0, <1>4, WorkersAreProcesses, CeleryAssumption
      DEF ManagerCrash, TypeOK, CoordinatorTypeOK, CeleryTypeOK
    <2>3. Busy'
      BY <1>4, WorkersAreProcesses DEF ManagerCrash, Leave, Goto, Busy, TypeOK, ManagerTypeOK
    <2> QED  BY <2>1, <2>2, <2>3 DEF TypeOK, CeleryTypeOK
  <1> QED  BY <1>1, <1>2, <1>3, <1>4

\* Every step of the deployment keeps the types.
LEMMA TypedStep == Typed /\ [Next]_vars => Typed'
  <1> SUFFICES ASSUME Typed, [Next]_vars PROVE Typed'
    OBVIOUS
  <1> USE DEF Typed
  <1>1. ASSUME NEW p \in Processes, CoordinatorStep(p) PROVE Typed'
    <2>1. UNCHANGED job /\ pc[p] # "idle" /\ \E l : Goto(p, l)
      BY <1>1 DEF CoordinatorStep, Claim, ClaimAvailableRuns, SendPrepare, Dispatched, LoopAfter,
         SendPrepareRaises, DispatchRaised, SendFails, FailDispatch, workerVars
    <2>2. Busy'
      BY <2>1 DEF Busy, Goto, TypeOK, ManagerTypeOK
    <2> QED  BY <1>1, <2>2, CoordinatorStepType
  <1>2. ASSUME NEW w \in Workers, ManagerStep(w) \/ Heartbeat(w), UNCHANGED celeryVars
        PROVE Typed'
    <2>1. pc[w] # "idle" /\ UNCHANGED job
      BY <1>2 DEF ManagerStep, Heartbeat, Load, Begin, Prepare, Launch, Advance,
         ExecutorReturns, CheckCancel, CheckLost, Collect, Complete, Finish, Decide,
         RetryWait, MoveRun, GiveUp, MarkCancelling, Settle, At, workerVars
    <2>2. UNCHANGED pc \/ \E l : Goto(w, l)
      BY <1>2 DEF ManagerStep, Heartbeat, Load, Begin, Prepare, Launch, Advance,
         ExecutorReturns, CheckCancel, CheckLost, Collect, Complete, Finish, Decide,
         RetryWait, MoveRun, GiveUp, MarkCancelling, Settle
    <2>3. job[w] \in Runs
      BY <2>1 DEF Busy
    <2>4. Busy'
      BY <2>1, <2>2, <2>3, WorkersAreProcesses DEF Busy, Goto, TypeOK, ManagerTypeOK
    <2> QED  BY <1>2, <2>3, <2>4, ManagerStepType
  <1>3. CASE \/ \E r \in Runs : PrepareRunTask(r)
             \/ \E t \in TaskWorkers : TaskStep(t) \/ TaskWorkerCrash(t)
    <2>1. TypeOK' /\ UNCHANGED <<coordinatorVars, workerVars>>
      BY <1>3, TaskStepType
    <2> QED  BY <2>1 DEF Busy, coordinatorVars, workerVars
  <1>4. CASE (\E r \in Runs : CancelRequest(r)) \/ Reap \/ TimePasses
    <2>1. RepositoryTypeOK'
      BY <1>4, TransitionType, ExpireType, TickType
      DEF CancelRequest, Cancel, Reap, TimePasses, TypeOK
    <2>2. UNCHANGED <<coordinatorVars, workerVars, celeryVars>>
      BY <1>4 DEF CancelRequest, Reap, TimePasses
    <2> QED
      BY <2>1, <2>2 DEF TypeOK, CoordinatorTypeOK, ManagerTypeOK, Busy,
        coordinatorVars, workerVars, celeryVars, counters
  <1>5. CASE UNCHANGED vars
    BY <1>5 DEF vars, TypeOK, RepositoryTypeOK, repoVars, CoordinatorTypeOK, ManagerTypeOK, Busy,
      coordinatorVars, workerVars, celeryVars, counters
  <1> QED
    BY <1>1, <1>2, <1>3, <1>4, <1>5, LifeType DEF Next, WorkerStep

-----------------------------------------------------------------------------
(* The inductive invariant.  A manager holds its run from begin_attempt    *)
(* until it has written the run's state; while it does, nobody can begin   *)
(* another attempt, because only its own retry takes a RUNNING run back to *)
(* a state from which DISPATCHING can be reached.                          *)

\* Where a manager holds its run, and where its attempt has its verdict.
Holding ==
    {"prepare", "launch", "execute", "check_cancel", "check_lost", "collect",
     "complete", "decide", "retry_wait", "mark_cancelling", "settle"}
Decided == {"decide", "retry_wait", "mark_cancelling", "settle"}

\* States from which begin_attempt may still be reached without a retry.
AwaitsAttempt == {"CREATED", "QUEUED", "DISPATCHING", "RETRY_WAIT"}

\* A run that awaits an attempt has one left, only its last attempt can hold a
\* lease, its verdict is backed, and its attempt rows are only appended.
Row(r) ==
    /\ made[r] <= MaxAttempts
    /\ run[r] \in AwaitsAttempt => made[r] < MaxAttempts
    /\ \A n \in 1..AttemptBound : Leased(<<r, n>>) =>
          n = made[r] /\ run[r] \in {"RUNNING", "CANCELLING", "INFRA_ERROR"}
    /\ Terminal(r) /\ run[r] # "INFRA_ERROR" =>
          made[r] > 0 /\ attempt[<<r, made[r]>>] = run[r]
    /\ \A n \in 1..AttemptBound : attempt[<<r, n>>] = "LOST" => run[r] = "INFRA_ERROR"
    /\ \A n \in 1..AttemptBound : n > made[r] => attempt[<<r, n>>] = "ABSENT"

\* A manager that holds its run has the last attempt, and knows its verdict
\* once that attempt has one.
Holder(w) ==
    pc[w] \in Holding =>
        /\ number[w] = made[job[w]] /\ number[w] > 0
        /\ run[job[w]] \notin AwaitsAttempt
        /\ pc[w] \in Decided => Verdict(w) \in RUN_TERMINAL /\ attempt[Mine(w)] = Verdict(w)
        /\ pc[w] = "retry_wait" => made[job[w]] < MaxAttempts

OneHolder ==
    \A v, w \in Workers :
        pc[v] \in Holding /\ pc[w] \in Holding /\ job[v] = job[w] => v = w

CeleryInv ==
    Typed /\ (\A r \in Runs : Row(r)) /\ (\A w \in Workers : Holder(w)) /\ OneHolder

\* What a step does to the rows when it neither begins nor retries.
Gentle ==
    /\ made' = made
    /\ \A r \in Runs : run[r] \notin AwaitsAttempt => run'[r] \notin AwaitsAttempt
    /\ \A a \in Attempts : attempt[a] \in ATTEMPT_TERMINAL => attempt'[a] = attempt[a]

\* The attempt a holder works on is a row of the table.
LEMMA MineIsAttempt ==
    ASSUME Typed, NEW w \in Workers, Holder(w), pc[w] \in Holding
    PROVE  job[w] \in Runs /\ Mine(w) \in Attempts /\ number[w] \in 1..AttemptBound
  <1>1. job[w] \in Runs /\ number[w] \in 1..AttemptBound
    BY RepositoryAssumption DEF Typed, Busy, Holder, Holding, TypeOK, ManagerTypeOK
  <1> QED  BY <1>1 DEF Mine, Attempts

\* A row that no step touches keeps what holds of it.
LEMMA RowKept ==
    ASSUME NEW s \in Runs, Row(s), run'[s] = run[s], made'[s] = made[s],
           \A n \in 1..AttemptBound : attempt'[<<s, n>>] = attempt[<<s, n>>],
           RepositoryTypeOK
    PROVE  Row(s)'
  <1>1. made[s] \in 0..AttemptBound
    BY DEF RepositoryTypeOK
  <1>2. made[s] > 0 => attempt'[<<s, made[s]>>] = attempt[<<s, made[s]>>]
    BY <1>1, RepositoryAssumption
  <1> QED  BY <1>2 DEF Row, Leased, Terminal

\* The rows after a transition of a run.  A retry or a verdict is written only
\* when the last attempt has ended, in that verdict.
LEMMA TransitionRows ==
    ASSUME RepositoryTypeOK, \A s \in Runs : Row(s), NEW r \in Runs, NEW t, Transition(r, t),
           \/ t \in {"INFRA_ERROR", "CANCELLING", "QUEUED", "DISPATCHING"}
           \/ /\ made[r] > 0 /\ attempt[<<r, made[r]>>] \in RUN_TERMINAL
              /\ \/ attempt[<<r, made[r]>>] = t
                 \/ t = "RETRY_WAIT" /\ made[r] < MaxAttempts
    PROVE  /\ \A s \in Runs : Row(s)'
           /\ t # "RETRY_WAIT" => Gentle
           /\ \A s \in Runs : s # r => run'[s] = run[s]
           /\ UNCHANGED <<made, attempt>>
           /\ run'[r] = t
  <1>1. UNCHANGED <<made, attempt>> /\ run' = [run EXCEPT ![r] = t] /\ t \in RUN_TRANSITIONS(run[r])
    BY DEF Transition, CanTransition
  <1>2. run'[r] = t /\ \A s \in Runs : s # r => run'[s] = run[s]
    BY <1>1 DEF RepositoryTypeOK
  <1>3. ASSUME NEW s \in Runs, s # r PROVE Row(s)'
    BY <1>1, <1>2, <1>3, RowKept
  <1>4. ~Terminal(r)
    BY <1>1 DEF RUN_TRANSITIONS, Terminal, RUN_TERMINAL
  <1>5. \A n \in 1..AttemptBound : attempt[<<r, n>>] # "LOST"
    BY <1>4 DEF Row, Terminal, RUN_TERMINAL
  <1>6. t \in AwaitsAttempt => run[r] \in AwaitsAttempt \/ t = "RETRY_WAIT"
    BY <1>1 DEF RUN_TRANSITIONS, AwaitsAttempt
  <1>7. made[r] \in 0..AttemptBound
    BY DEF RepositoryTypeOK
  <1>8. CASE t \in {"INFRA_ERROR", "CANCELLING", "QUEUED", "DISPATCHING"}
    <2>1. made'[r] <= MaxAttempts /\ (run'[r] \in AwaitsAttempt => made'[r] < MaxAttempts)
      BY <1>1, <1>2, <1>6, <1>8 DEF Row
    <2>2. ASSUME NEW n \in 1..AttemptBound, attempt[<<r, n>>] \in ATTEMPT_LEASED
          PROVE  n = made[r] /\ t \in {"RUNNING", "CANCELLING", "INFRA_ERROR"}
      <3>1. n = made[r] /\ run[r] \in {"RUNNING", "CANCELLING"}
        BY <2>2, <1>4 DEF Row, Leased, Terminal, RUN_TERMINAL
      <3> QED  BY <3>1, <1>1, <1>8 DEF RUN_TRANSITIONS
    <2> QED
      BY <1>1, <1>2, <1>3, <1>5, <1>6, <1>8, <2>1, <2>2
      DEF Row, Leased, Terminal, RUN_TERMINAL, Gentle
  <1>9. CASE /\ made[r] > 0 /\ attempt[<<r, made[r]>>] \in RUN_TERMINAL
             /\ \/ attempt[<<r, made[r]>>] = t
                \/ t = "RETRY_WAIT" /\ made[r] < MaxAttempts
    <2>1. \A n \in 1..AttemptBound : attempt[<<r, n>>] \notin ATTEMPT_LEASED
      BY <1>9, <1>7 DEF Row, Leased, ATTEMPT_LEASED, RUN_TERMINAL
    <2>2. made'[r] <= MaxAttempts /\ (run'[r] \in AwaitsAttempt => made'[r] < MaxAttempts)
      BY <1>1, <1>2, <1>9 DEF Row, AwaitsAttempt, RUN_TERMINAL
    <2>3. t \in RUN_TERMINAL => t = attempt[<<r, made[r]>>]
      BY <1>9 DEF RUN_TERMINAL
    <2>4. Row(r)'
      BY <1>1, <1>2, <1>5, <1>9, <2>1, <2>2, <2>3 DEF Row, Leased, Terminal
    <2> QED  BY <1>1, <1>2, <1>3, <1>6, <2>4 DEF Gentle
  <1> QED  BY <1>8, <1>9

\* The transitions anybody may ask for, whatever the attempts do.
LEMMA FreeTransitionRows ==
    ASSUME RepositoryTypeOK, \A s \in Runs : Row(s), NEW r \in Runs,
           NEW t \in {"INFRA_ERROR", "CANCELLING", "QUEUED", "DISPATCHING"}, Transition(r, t)
    PROVE  (\A s \in Runs : Row(s)') /\ Gentle
  <1>1. t # "RETRY_WAIT"
    OBVIOUS
  <1> QED  BY <1>1, TransitionRows

\* The rows after an attempt moved on; it did so out of a state that can.
LEMMA TransitionAttemptRows ==
    ASSUME RepositoryTypeOK, \A s \in Runs : Row(s), NEW r \in Runs, NEW n \in 1..AttemptBound,
           NEW t \in {"PREPARING", "RUNNING", "COLLECTING"} \cup RUN_TERMINAL,
           TransitionAttempt(<<r, n>>, t)
    PROVE  (\A s \in Runs : Row(s)') /\ Gentle /\ attempt'[<<r, n>>] = t /\ UNCHANGED <<run, made>>
  <1>1. /\ UNCHANGED <<run, made>> /\ attempt' = [attempt EXCEPT ![<<r, n>>] = t]
        /\ t \in ATTEMPT_TRANSITIONS(attempt[<<r, n>>])
    BY DEF TransitionAttempt, CanTransitionAttempt
  <1>2. <<r, n>> \in Attempts
    BY DEF Attempts
  <1>3. /\ attempt'[<<r, n>>] = t
        /\ \A a \in Attempts : a # <<r, n>> => attempt'[a] = attempt[a]
    BY <1>1, <1>2 DEF RepositoryTypeOK
  <1>4. attempt[<<r, n>>] \notin ATTEMPT_TERMINAL
    BY <1>1 DEF ATTEMPT_TRANSITIONS, ATTEMPT_TERMINAL, RUN_TERMINAL
  <1>5. \A s \in Runs, m \in 1..AttemptBound :
           <<s, m>> # <<r, n>> => attempt'[<<s, m>>] = attempt[<<s, m>>]
    BY <1>3 DEF Attempts
  <1>6. ASSUME NEW s \in Runs, s # r PROVE Row(s)'
    BY <1>1, <1>5, <1>6, RowKept
  <1>7. t \in ATTEMPT_LEASED => attempt[<<r, n>>] \in ATTEMPT_LEASED
    BY <1>1 DEF ATTEMPT_TRANSITIONS, ATTEMPT_LEASED, RUN_TERMINAL
  <1>8. made[r] > 0 => made[r] \in 1..AttemptBound
    BY DEF RepositoryTypeOK
  <1>9. Row(r)'
    <2>1. \A m \in 1..AttemptBound : attempt'[<<r, m>>] \in ATTEMPT_LEASED =>
             m = made[r] /\ run[r] \in {"RUNNING", "CANCELLING", "INFRA_ERROR"}
      BY <1>3, <1>5, <1>7 DEF Row, Leased
    <2>2. \A m \in 1..AttemptBound : attempt'[<<r, m>>] = "LOST" => run[r] = "INFRA_ERROR"
      BY <1>3, <1>5 DEF Row, RUN_TERMINAL
    <2>3. Terminal(r) /\ run[r] # "INFRA_ERROR" =>
             made[r] > 0 /\ attempt'[<<r, made[r]>>] = run[r]
      BY <1>4, <1>5, <1>8 DEF Row, Terminal, ATTEMPT_TERMINAL
    <2>4. attempt[<<r, n>>] # "ABSENT"
      BY <1>1 DEF ATTEMPT_TRANSITIONS
    <2>5. \A m \in 1..AttemptBound : m > made[r] => attempt'[<<r, m>>] = "ABSENT"
      BY <1>5, <2>4 DEF Row
    <2> QED  BY <1>1, <2>1, <2>2, <2>3, <2>5 DEF Row, Leased, Terminal
  <1> QED  BY <1>1, <1>3, <1>4, <1>6, <1>9 DEF Gentle

\* The rows after begin_attempt.
LEMMA BeginRows ==
    ASSUME RepositoryTypeOK, \A s \in Runs : Row(s), NEW r \in Runs, BeginAttempt(r)
    PROVE  /\ \A s \in Runs : Row(s)'
           /\ run[r] = "DISPATCHING" /\ run'[r] = "RUNNING" /\ made'[r] = made[r] + 1
           /\ \A s \in Runs : s # r => run'[s] = run[s] /\ made'[s] = made[s]
           /\ \A s \in Runs, n \in 1..AttemptBound : s # r => attempt'[<<s, n>>] = attempt[<<s, n>>]
  <1>1. run[r] = "DISPATCHING" /\ made[r] < AttemptBound
    BY DEF BeginAttempt, CanTransition, RUN_TRANSITIONS, RUN_TERMINAL
  <1>2. made[r] + 1 \in 1..AttemptBound /\ made[r] \in Nat
    BY BeginAttemptType, RepositoryAssumption DEF RepositoryTypeOK
  <1>3. <<r, made[r] + 1>> \in Attempts
    BY <1>2 DEF Attempts
  <1>4. /\ run'[r] = "RUNNING" /\ made'[r] = made[r] + 1
        /\ \A s \in Runs : s # r => run'[s] = run[s] /\ made'[s] = made[s]
    BY DEF BeginAttempt, RepositoryTypeOK
  <1>5. /\ attempt'[<<r, made[r] + 1>>] = "CLAIMED"
        /\ \A s \in Runs, n \in 1..AttemptBound :
              <<s, n>> # <<r, made[r] + 1>> => attempt'[<<s, n>>] = attempt[<<s, n>>]
    BY <1>3 DEF BeginAttempt, RepositoryTypeOK, Attempts
  <1>6. ASSUME NEW s \in Runs, s # r PROVE Row(s)'
    BY <1>4, <1>5, <1>6, RowKept
  <1>7. Row(r)'
    <2>1. made[r] < MaxAttempts
      BY <1>1 DEF Row, AwaitsAttempt
    <2>2. made[r] + 1 <= MaxAttempts
      BY <1>2, <2>1, ManagerAssumption
    <2>3. \A n \in 1..AttemptBound : attempt'[<<r, n>>] \in ATTEMPT_LEASED => n = made'[r]
      BY <1>1, <1>4, <1>5 DEF Row, Leased
    <2>4. \A n \in 1..AttemptBound : attempt'[<<r, n>>] # "LOST"
      BY <1>1, <1>5 DEF Row
    <2>5. \A n \in 1..AttemptBound : n > made'[r] => n > made[r] /\ n # made[r] + 1
      BY <1>2, <1>4, RepositoryAssumption
    <2>6. \A n \in 1..AttemptBound : n > made'[r] => attempt'[<<r, n>>] = "ABSENT"
      BY <1>5, <2>5 DEF Row
    <2> QED
      BY <1>4, <2>2, <2>3, <2>4, <2>6 DEF Row, Leased, Terminal, AwaitsAttempt, RUN_TERMINAL
  <1> QED  BY <1>1, <1>4, <1>5, <1>6, <1>7

\* The rows after the reaper's transaction.
LEMMA ExpireRows ==
    ASSUME RepositoryTypeOK, \A s \in Runs : Row(s), NEW S, ExpireAttemptLeases(S)
    PROVE  (\A s \in Runs : Row(s)') /\ Gentle
  <1> DEFINE hit == {r \in Runs : ~Terminal(r) /\ \E a \in S : a[1] = r}
  <1>1. /\ S \subseteq Expired
        /\ attempt' = [a \in Attempts |-> IF a \in S THEN "LOST" ELSE attempt[a]]
        /\ run' = [r \in Runs |-> IF r \in hit THEN "INFRA_ERROR" ELSE run[r]]
        /\ made' = made
    BY DEF ExpireAttemptLeases
  <1>2. \A a \in S : a \in Attempts /\ attempt[a] \in ATTEMPT_LEASED
    BY <1>1 DEF Expired, Leased
  <1>3. \A a \in Attempts : a \notin S => attempt'[a] = attempt[a]
    BY <1>1
  <1>4. \A a \in S : attempt'[a] = "LOST"
    BY <1>1, <1>2
  <1>5. ASSUME NEW s \in Runs PROVE Row(s)'
    <2>1. \A n \in 1..AttemptBound : <<s, n>> \in Attempts /\ <<s, n>>[1] = s
      BY DEF Attempts
    <2>2. \A n \in 1..AttemptBound : attempt'[<<s, n>>] \in {attempt[<<s, n>>], "LOST"}
      BY <1>3, <1>4, <2>1
    <2>3. run'[s] = IF s \in hit THEN "INFRA_ERROR" ELSE run[s]
      BY <1>1
    <2>4. \A n \in 1..AttemptBound : <<s, n>> \in S => run'[s] = "INFRA_ERROR"
      <3> SUFFICES ASSUME NEW n \in 1..AttemptBound, <<s, n>> \in S PROVE run'[s] = "INFRA_ERROR"
        OBVIOUS
      <3>1. run[s] \in {"RUNNING", "CANCELLING", "INFRA_ERROR"}
        BY <1>2 DEF Row, Leased
      <3>2. CASE Terminal(s)
        <4>1. run[s] = "INFRA_ERROR" /\ s \notin hit
          BY <3>1, <3>2 DEF Terminal, RUN_TERMINAL
        <4> QED  BY <4>1, <2>3
      <3>3. CASE ~Terminal(s)
        <4>1. s \in hit
          BY <3>3, <2>1
        <4> QED  BY <4>1, <2>3
      <3> QED  BY <3>2, <3>3
    <2>5. \A n \in 1..AttemptBound : attempt'[<<s, n>>] = "LOST" => run'[s] = "INFRA_ERROR"
      <3> SUFFICES ASSUME NEW n \in 1..AttemptBound, attempt'[<<s, n>>] = "LOST", <<s, n>> \notin S
                   PROVE  run'[s] = "INFRA_ERROR"
        BY <2>4
      <3>1. attempt[<<s, n>>] = "LOST"
        BY <1>3, <2>1
      <3>2. run[s] = "INFRA_ERROR"
        BY <3>1 DEF Row
      <3> QED  BY <3>2, <2>3
    <2>6. \A n \in 1..AttemptBound : attempt'[<<s, n>>] \in ATTEMPT_LEASED =>
             n = made[s] /\ run'[s] \in {"RUNNING", "CANCELLING", "INFRA_ERROR"}
      BY <2>2, <2>3 DEF Row, Leased, ATTEMPT_LEASED
    <2>7. run'[s] \in RUN_TERMINAL /\ run'[s] # "INFRA_ERROR" =>
             made[s] > 0 /\ attempt'[<<s, made[s]>>] = run'[s]
      <3> SUFFICES ASSUME run'[s] \in RUN_TERMINAL, run'[s] # "INFRA_ERROR"
                   PROVE  made[s] > 0 /\ attempt'[<<s, made[s]>>] = run'[s]
        OBVIOUS
      <3>1. run'[s] = run[s]
        BY <2>3
      <3>2. made[s] > 0 /\ attempt[<<s, made[s]>>] = run[s] /\ made[s] \in 1..AttemptBound
        BY <3>1 DEF Row, Terminal, RepositoryTypeOK
      <3>3. <<s, made[s]>> \in Attempts /\ <<s, made[s]>> \notin S
        BY <2>1, <2>4, <3>2
      <3> QED  BY <1>3, <3>1, <3>2, <3>3
    <2>8. run'[s] \in AwaitsAttempt => run[s] \in AwaitsAttempt
      BY <2>3 DEF AwaitsAttempt
    <2>9. \A n \in 1..AttemptBound : n > made[s] => attempt'[<<s, n>>] = "ABSENT"
      <3>1. \A n \in 1..AttemptBound : attempt[<<s, n>>] = "ABSENT" => <<s, n>> \notin S
        BY <1>2 DEF ATTEMPT_LEASED
      <3> QED  BY <1>3, <2>1, <3>1 DEF Row
    <2> QED
      BY <1>1, <2>5, <2>6, <2>7, <2>8, <2>9 DEF Row, Leased, Terminal
  <1>6. Gentle
    <2>1. \A r \in Runs : run'[r] \in {run[r], "INFRA_ERROR"}
      BY <1>1
    <2>2. \A a \in Attempts : attempt[a] \in ATTEMPT_TERMINAL => a \notin S
      BY <1>2 DEF ATTEMPT_TERMINAL, ATTEMPT_LEASED, RUN_TERMINAL
    <2> QED  BY <1>1, <1>3, <2>1, <2>2 DEF Gentle, AwaitsAttempt
  <1> QED  BY <1>5, <1>6

\* A claim moves waiting runs to QUEUED and leaves the attempts alone.
LEMMA ClaimRows ==
    ASSUME RepositoryTypeOK, \A s \in Runs : Row(s), NEW p, ClaimAvailableRuns(p)
    PROVE  (\A s \in Runs : Row(s)') /\ Gentle
  <1>1. PICK S \in SUBSET Waiting : run' = [r \in Runs |-> IF r \in S THEN "QUEUED" ELSE run[r]]
    BY DEF ClaimAvailableRuns
  <1>2. UNCHANGED <<made, attempt>>
    BY DEF ClaimAvailableRuns
  <1>3. ASSUME NEW s \in Runs PROVE Row(s)'
    <2>1. CASE s \in S
      <3>1. run[s] = "CREATED" /\ run'[s] = "QUEUED"
        BY <1>1, <2>1 DEF Waiting
      <3> QED
        BY <1>2, <3>1 DEF Row, AwaitsAttempt, Leased, Terminal, RUN_TERMINAL
    <2>2. CASE s \notin S
      <3>1. run'[s] = run[s]
        BY <1>1, <2>2
      <3> QED  BY <1>2, <3>1, RowKept
    <2> QED  BY <2>1, <2>2
  <1> QED  BY <1>1, <1>2, <1>3 DEF Gentle, Waiting, AwaitsAttempt

\* The rows that keep their run and attempt columns keep what holds of them.
LEMMA RowsKept ==
    ASSUME RepositoryTypeOK, \A s \in Runs : Row(s), UNCHANGED <<run, made, attempt>>
    PROVE  (\A s \in Runs : Row(s)') /\ Gentle
  BY RowKept DEF Gentle

\* A manager that does not move keeps what holds of it while the rows change
\* gently, or when the change is to another manager's run.
LEMMA HolderKept ==
    ASSUME CeleryInv, NEW w \in Workers, pc'[w] = pc[w], job'[w] = job[w],
           number'[w] = number[w], result'[w] = result[w],
           pc[w] \in Holding =>
              /\ made'[job[w]] = made[job[w]]
              /\ run'[job[w]] \notin AwaitsAttempt
              /\ attempt[Mine(w)] \in RUN_TERMINAL => attempt'[Mine(w)] = attempt[Mine(w)]
    PROVE  Holder(w)'
  <1>1. Holder(w)
    BY DEF CeleryInv
  <1>2. Mine(w)' = Mine(w) /\ Verdict(w)' = Verdict(w)
    BY DEF Mine, Verdict
  <1> QED  BY <1>1, <1>2 DEF Holder

\* Every manager but the one that steps keeps what holds of it when the rows
\* change gently; a manager that does not begin an attempt is no new holder.
LEMMA Combine ==
    ASSUME CeleryInv, Typed', NEW p \in Processes, \A r \in Runs : Row(r)', Gentle,
           \A q \in Processes : q # p => pc'[q] = pc[q],
           \A v \in Workers : v # p =>
              job'[v] = job[v] /\ number'[v] = number[v] /\ result'[v] = result[v],
           p \in Workers => Holder(p)' /\
              (pc'[p] \in Holding => pc[p] \in Holding /\ job'[p] = job[p])
    PROVE  CeleryInv'
  <1>1. ASSUME NEW v \in Workers PROVE Holder(v)'
    <2>1. CASE v = p
      BY <2>1
    <2>2. CASE v # p
      <3>1. pc'[v] = pc[v]
        BY <2>2, WorkersAreProcesses
      <3>2. Holder(v) /\ Typed
        BY DEF CeleryInv
      <3>3. pc[v] \in Holding => job[v] \in Runs /\ Mine(v) \in Attempts /\ run[job[v]] \notin AwaitsAttempt
        BY <3>2, MineIsAttempt DEF Holder
      <3>4. pc[v] \in Holding =>
              /\ made'[job[v]] = made[job[v]]
              /\ run'[job[v]] \notin AwaitsAttempt
              /\ attempt[Mine(v)] \in RUN_TERMINAL => attempt'[Mine(v)] = attempt[Mine(v)]
        BY <3>3 DEF Gentle, ATTEMPT_TERMINAL
      <3> QED  BY <2>2, <3>1, <3>4, HolderKept
    <2> QED  BY <2>1, <2>2
  <1>2. \A v \in Workers : pc'[v] \in Holding => pc[v] \in Holding /\ job'[v] = job[v]
    BY WorkersAreProcesses
  <1>3. OneHolder'
    BY <1>2 DEF CeleryInv, OneHolder
  <1> QED  BY <1>1, <1>3 DEF CeleryInv

\* The coordinator's loop, in the request or after a run finished.
LEMMA CoordinatorInv ==
    ASSUME CeleryInv, Typed', NEW p \in Processes, CoordinatorStep(p)
    PROVE  CeleryInv'
  <1>1. RepositoryTypeOK /\ \A s \in Runs : Row(s)
    BY DEF CeleryInv, Typed, TypeOK
  <1>2. (\A s \in Runs : Row(s)') /\ Gentle
    <2>1. CASE Claim(p)
      BY <1>1, <2>1, ClaimRows DEF Claim
    <2>2. ASSUME NEW r \in Runs, SendPrepare(p, r) \/ SendPrepareRaises(p, r)
          PROVE  (\A s \in Runs : Row(s)') /\ Gentle
      BY <1>1, <2>2, RowsKept DEF SendPrepare, SendPrepareRaises, repoVars
    <2>3. ASSUME NEW r \in Runs, SendFails(p, r)
          PROVE  (\A s \in Runs : Row(s)') /\ Gentle
      <3>1. CASE Transition(r, "INFRA_ERROR")
        BY <1>1, <3>1, FreeTransitionRows
      <3>2. CASE UNCHANGED repoVars
        BY <1>1, <3>2, RowsKept DEF repoVars
      <3> QED  BY <2>3, <3>1, <3>2 DEF SendFails, FailDispatch
    <2> QED  BY <2>1, <2>2, <2>3 DEF CoordinatorStep
  <1>3. UNCHANGED workerVars /\ \E l \in {"claim", "dispatch", "dispatch_failed", "refilled"} : Goto(p, l)
    BY DEF CoordinatorStep, Claim, ClaimAvailableRuns, SendPrepare, Dispatched, LoopAfter,
       SendPrepareRaises, DispatchRaised, SendFails, FailDispatch
  <1>4. pc'[p] \notin Holding /\ \A q \in Processes : q # p => pc'[q] = pc[q]
    BY <1>3 DEF Goto, CeleryInv, Typed, TypeOK, ManagerTypeOK, Holding
  <1>5. p \in Workers => Holder(p)'
    BY <1>4 DEF Holder
  <1>6. \A v \in Workers : job'[v] = job[v] /\ number'[v] = number[v] /\ result'[v] = result[v]
    BY <1>3 DEF workerVars
  <1> QED  BY <1>2, <1>4, <1>5, <1>6, Combine

\* Steps that are not a process's: the tasks, the cancel, the reaper and time.
LEMMA OutsideInv ==
    ASSUME CeleryInv, Typed', UNCHANGED <<coordinatorVars, workerVars>>,
           (\A s \in Runs : Row(s)') /\ Gentle
    PROVE  CeleryInv'
  <1>1. Api \in Processes /\ Api \notin Workers
    BY CeleryAssumption
  <1> QED  BY <1>1, Combine DEF coordinatorVars, workerVars

\* prepare_run, from its own task or from retry_run.
LEMMA PrepareRows ==
    ASSUME RepositoryTypeOK, \A s \in Runs : Row(s), NEW r \in Runs, PrepareRun(r)
    PROVE  (\A s \in Runs : Row(s)') /\ Gentle
  <1>1. CASE Transition(r, "DISPATCHING")
    BY <1>1, FreeTransitionRows
  <1>2. CASE UNCHANGED repoVars
    BY <1>2, RowsKept DEF repoVars
  <1> QED  BY <1>1, <1>2 DEF PrepareRun

\* The Celery tasks.
LEMMA TaskInv ==
    ASSUME CeleryInv, Typed',
           \/ \E r \in Runs : PrepareRunTask(r)
           \/ \E t \in TaskWorkers : TaskStep(t) \/ TaskWorkerCrash(t)
    PROVE  CeleryInv'
  <1>1. RepositoryTypeOK /\ (\A s \in Runs : Row(s)) /\ TypeOK
    BY DEF CeleryInv, Typed, TypeOK
  <1>2. UNCHANGED <<coordinatorVars, workerVars>>
    BY <1>1, TaskStepType
  <1>3. ASSUME NEW r \in Runs, PrepareRunTask(r) PROVE (\A s \in Runs : Row(s)') /\ Gentle
    BY <1>1, <1>3, PrepareRows DEF PrepareRunTask
  <1>4. ASSUME NEW t \in TaskWorkers, RetryRunPrepares(t) PROVE (\A s \in Runs : Row(s)') /\ Gentle
    <2>1. retrying[t] \in Messages
      BY <1>1, <1>4 DEF RetryRunPrepares, TypeOK
    <2>2. retrying[t][2] \in Runs
      BY <2>1 DEF Messages
    <2> QED  BY <1>1, <1>4, <2>2, PrepareRows DEF RetryRunPrepares
  <1>5. ASSUME NEW t \in TaskWorkers, NEW r \in Runs, NEW n, RetryRunTask(t, r, n)
        PROVE  (\A s \in Runs : Row(s)') /\ Gentle
    <2>1. CASE Transition(r, "QUEUED")
      BY <1>1, <2>1, FreeTransitionRows
    <2>2. CASE UNCHANGED repoVars
      BY <1>1, <2>2, RowsKept DEF repoVars
    <2> QED  BY <1>5, <2>1, <2>2 DEF RetryRunTask
  <1>6. ASSUME NEW t \in TaskWorkers, TaskWorkerCrash(t) PROVE (\A s \in Runs : Row(s)') /\ Gentle
    BY <1>1, <1>6, RowsKept DEF TaskWorkerCrash, repoVars
  <1>7. (\A s \in Runs : Row(s)') /\ Gentle
    BY <1>3, <1>4, <1>5, <1>6 DEF TaskStep
  <1> QED  BY <1>2, <1>7, OutsideInv

\* The cancel, the reaper and the passing of time.
LEMMA EnvironmentInv ==
    ASSUME CeleryInv, Typed', (\E r \in Runs : CancelRequest(r)) \/ Reap \/ TimePasses
    PROVE  CeleryInv'
  <1>1. RepositoryTypeOK /\ \A s \in Runs : Row(s)
    BY DEF CeleryInv, Typed, TypeOK
  <1>2. UNCHANGED <<coordinatorVars, workerVars>>
    BY DEF CancelRequest, Reap, TimePasses
  <1>3. ASSUME NEW r \in Runs, CancelRequest(r) PROVE (\A s \in Runs : Row(s)') /\ Gentle
    BY <1>1, <1>3, FreeTransitionRows DEF CancelRequest, Cancel
  <1>4. CASE Reap
    <2>1. PICK S : ExpireAttemptLeases(S)
      BY <1>4 DEF Reap
    <2> QED  BY <1>1, <1>2, <2>1, ExpireRows, OutsideInv
  <1>5. CASE TimePasses
    <2>1. UNCHANGED <<run, made, attempt>>
      BY <1>5 DEF TimePasses, Tick
    <2> QED  BY <1>1, <1>2, <2>1, RowsKept, OutsideInv
  <1> QED  BY <1>2, <1>3, <1>4, <1>5, OutsideInv

\* A manager's step that moves it to label l and leaves its job and number
\* alone: the invariant follows from the rows and its own part.
LEMMA ManagerMoves ==
    ASSUME CeleryInv, Typed', NEW w \in Workers, NEW l, Goto(w, l), UNCHANGED <<job, number>>,
           \A v \in Workers : v # w => result'[v] = result[v],
           (\A r \in Runs : Row(r)') /\ Gentle, l \in Holding => pc[w] \in Holding /\ Holder(w)'
    PROVE  CeleryInv'
  <1>1. pc'[w] = l /\ \A q \in Processes : q # w => pc'[q] = pc[q]
    BY WorkersAreProcesses DEF Goto, CeleryInv, Typed, TypeOK, ManagerTypeOK
  <1>2. Holder(w)'
    BY <1>1 DEF Holder
  <1>3. w \in Processes
    BY WorkersAreProcesses
  <1> QED  BY <1>1, <1>2, <1>3, Combine

\* The part of a holder that is not yet decided survives a gentle step.
LEMMA HolderMoves ==
    ASSUME CeleryInv, NEW w \in Workers, NEW l \in Holding \ Decided, pc[w] \in Holding, Goto(w, l),
           UNCHANGED <<job, number>>, Gentle
    PROVE  Holder(w)'
  <1>1. pc'[w] = l
    BY WorkersAreProcesses DEF Goto, CeleryInv, Typed, TypeOK, ManagerTypeOK
  <1>2. Holder(w) /\ job[w] \in Runs
    BY MineIsAttempt DEF CeleryInv
  <1>3. number'[w] = made'[job'[w]] /\ number'[w] > 0 /\ run'[job'[w]] \notin AwaitsAttempt
    BY <1>2 DEF Holder, Gentle
  <1>4. l \notin Decided /\ l # "retry_wait"
    BY DEF Decided
  <1> QED  BY <1>1, <1>3, <1>4 DEF Holder

\* The reads of execute: load, the heartbeat, the executor's result and the
\* two checks that follow it.
LEMMA ReadInv ==
    ASSUME CeleryInv, Typed', NEW w \in Workers,
           Load(w) \/ ExecutorReturns(w) \/ CheckCancel(w) \/ CheckLost(w)
    PROVE  CeleryInv'
  <1>1. RepositoryTypeOK /\ (\A s \in Runs : Row(s)) /\ result \in [Workers -> Result]
    BY DEF CeleryInv, Typed, TypeOK, ManagerTypeOK
  <1>2. UNCHANGED <<run, made, attempt, job, number>>
    BY DEF Load, ExecutorReturns, CheckCancel, CheckLost, repoVars, workerVars
  <1>3. (\A s \in Runs : Row(s)') /\ Gentle
    BY <1>1, <1>2, RowsKept
  <1>4. \A v \in Workers : v # w => result'[v] = result[v]
    BY <1>1 DEF Load, ExecutorReturns, CheckCancel, CheckLost, workerVars
  <1>5. \/ \E l \in {"begin", "failed", "refilled"} : Goto(w, l)
        \/ pc[w] \in Holding /\ \E l \in Holding \ Decided : Goto(w, l)
    BY DEF Load, ExecutorReturns, CheckCancel, CheckLost, At, Holding, Decided
  <1>6. ASSUME NEW l \in {"begin", "failed", "refilled"}, Goto(w, l) PROVE CeleryInv'
    <2>1. l \notin Holding
      BY DEF Holding
    <2> QED  BY <1>2, <1>3, <1>4, <1>6, <2>1, ManagerMoves
  <1>7. ASSUME pc[w] \in Holding, NEW l \in Holding \ Decided, Goto(w, l) PROVE CeleryInv'
    <2>1. Holder(w)'
      BY <1>2, <1>3, <1>7, HolderMoves
    <2> QED  BY <1>2, <1>3, <1>4, <1>7, <2>1, ManagerMoves
  <1> QED  BY <1>5, <1>6, <1>7

\* A heartbeat moves nobody.
LEMMA HeartbeatInv ==
    ASSUME CeleryInv, Typed', NEW w \in Workers, Heartbeat(w)
    PROVE  CeleryInv'
  <1>1. RepositoryTypeOK /\ (\A s \in Runs : Row(s)) /\ result \in [Workers -> Result]
    BY DEF CeleryInv, Typed, TypeOK, ManagerTypeOK
  <1>2. UNCHANGED <<run, made, attempt, pc, job, number>> /\ pc[w] = "execute"
    BY DEF Heartbeat, RenewAttemptLease, At, repoVars
  <1>3. (\A s \in Runs : Row(s)') /\ Gentle
    BY <1>1, <1>2, RowsKept
  <1>4. \A v \in Workers : v # w => result'[v] = result[v]
    BY <1>1 DEF Heartbeat
  <1>5. Holder(w)'
    BY <1>2 DEF CeleryInv, Holder, Decided
  <1> QED  BY <1>2, <1>3, <1>4, <1>5, WorkersAreProcesses, Combine

\* The transitions of the worker's own attempt.
LEMMA AttemptInv ==
    ASSUME CeleryInv, Typed', NEW w \in Workers,
           Prepare(w) \/ Launch(w) \/ Collect(w) \/ Complete(w)
    PROVE  CeleryInv'
  <1>1. RepositoryTypeOK /\ (\A s \in Runs : Row(s)) /\ Holder(w) /\ Typed
    BY DEF CeleryInv, Typed, TypeOK
  <1>2. UNCHANGED <<job, number, result>> /\ pc[w] \in Holding
    BY DEF Prepare, Launch, Advance, Collect, Complete, Finish, At, workerVars, Holding
  <1>3. job[w] \in Runs /\ number[w] \in 1..AttemptBound /\ Mine(w) = <<job[w], number[w]>>
    BY <1>1, <1>2, MineIsAttempt DEF Mine
  <1>4. \A v \in Workers : v # w => result'[v] = result[v]
    BY <1>2
  <1>5. CASE UNCHANGED repoVars /\ \E l \in {"failed", "refilled"} : Goto(w, l)
    <2>1. (\A s \in Runs : Row(s)') /\ Gentle
      BY <1>1, <1>5, RowsKept DEF repoVars
    <2>2. PICK l \in {"failed", "refilled"} : Goto(w, l)
      BY <1>5
    <2>3. l \notin Holding
      BY DEF Holding
    <2> QED  BY <1>2, <1>4, <2>1, <2>2, <2>3, ManagerMoves
  <1>6. ASSUME NEW t \in {"PREPARING", "RUNNING", "COLLECTING"}, TransitionAttempt(Mine(w), t),
               NEW l \in Holding \ Decided, Goto(w, l)
        PROVE  CeleryInv'
    <2>1. (\A s \in Runs : Row(s)') /\ Gentle
      BY <1>1, <1>3, <1>6, TransitionAttemptRows
    <2>2. Holder(w)'
      BY <1>2, <1>6, <2>1, HolderMoves
    <2> QED  BY <1>2, <1>4, <1>6, <2>1, <2>2, ManagerMoves
  <1>7. ASSUME TransitionAttempt(Mine(w), Verdict(w)), Goto(w, "decide") PROVE CeleryInv'
    <2>1. Verdict(w) \in RUN_TERMINAL
      <3>1. Verdict(w) \in RUN_TERMINAL \cup {"NONE"}
        BY DEF CeleryInv, Typed, TypeOK, ManagerTypeOK, Verdict, Result, ResultOutcome, RUN_TERMINAL
      <3>2. Verdict(w) # "NONE"
        BY <1>7 DEF TransitionAttempt, CanTransitionAttempt, ATTEMPT_TRANSITIONS, ATTEMPT_TERMINAL,
           RUN_TERMINAL
      <3> QED  BY <3>1, <3>2
    <2>2. /\ (\A s \in Runs : Row(s)') /\ Gentle
          /\ attempt'[Mine(w)] = Verdict(w) /\ UNCHANGED <<run, made>>
      BY <1>1, <1>3, <1>7, <2>1, TransitionAttemptRows
    <2>3. pc'[w] = "decide"
      BY <1>7, WorkersAreProcesses DEF Goto, CeleryInv, Typed, TypeOK, ManagerTypeOK
    <2>4. Mine(w)' = Mine(w) /\ Verdict(w)' = Verdict(w)
      BY <1>2 DEF Mine, Verdict
    <2>5. Holder(w)'
      BY <1>1, <1>2, <2>1, <2>2, <2>3, <2>4 DEF Holder
    <2> QED  BY <1>2, <1>4, <1>7, <2>2, <2>5, ManagerMoves
  <1>8. {"launch", "execute", "complete"} \subseteq Holding \ Decided
    BY DEF Holding, Decided
  <1>9. CASE Prepare(w) \/ Launch(w)
    BY <1>5, <1>6, <1>8, <1>9 DEF Prepare, Launch, Advance
  <1>10. CASE Collect(w)
    BY <1>5, <1>6, <1>8, <1>10 DEF Collect, Finish
  <1>11. CASE Complete(w)
    BY <1>5, <1>7, <1>11 DEF Complete, Finish, CompleteAttempt
  <1> QED  BY <1>9, <1>10, <1>11

\* The decision, and a step to CANCELLING, keep the verdict the manager holds.
LEMMA DecideInv ==
    ASSUME CeleryInv, Typed', NEW w \in Workers, Decide(w)
    PROVE  CeleryInv'
  <1>1. RepositoryTypeOK /\ (\A s \in Runs : Row(s)) /\ Holder(w)
    BY DEF CeleryInv, Typed, TypeOK
  <1>2. UNCHANGED <<run, made, attempt, job, number, result>> /\ pc[w] = "decide"
    BY DEF Decide, At, repoVars, workerVars
  <1>3. (\A s \in Runs : Row(s)') /\ Gentle
    BY <1>1, <1>2, RowsKept
  <1>4. PICK l \in {"retry_wait", "give_up", "mark_cancelling", "settle"} :
           Goto(w, l) /\ (l = "retry_wait" => made[job[w]] < MaxAttempts)
    BY DEF Decide, ShouldRetry
  <1>5. pc'[w] = l
    BY <1>4, WorkersAreProcesses DEF Goto, CeleryInv, Typed, TypeOK, ManagerTypeOK
  <1>6. Mine(w)' = Mine(w) /\ Verdict(w)' = Verdict(w)
    BY <1>2 DEF Mine, Verdict
  <1>7. pc[w] \in Holding /\ pc[w] \in Decided
    BY <1>2 DEF Holding, Decided
  <1>8. Holder(w)'
    BY <1>1, <1>2, <1>4, <1>5, <1>6, <1>7 DEF Holder
  <1> QED  BY <1>2, <1>3, <1>4, <1>7, <1>8, ManagerMoves

\* mark_cancelling, settle and give_up write the run's state.
LEMMA SettleInv ==
    ASSUME CeleryInv, Typed', NEW w \in Workers, MarkCancelling(w) \/ Settle(w) \/ GiveUp(w)
    PROVE  CeleryInv'
  <1>1. RepositoryTypeOK /\ (\A s \in Runs : Row(s)) /\ Holder(w) /\ result \in [Workers -> Result]
    BY DEF CeleryInv, Typed, TypeOK, ManagerTypeOK
  <1>2. UNCHANGED <<job, number>> /\ \A v \in Workers : v # w => result'[v] = result[v]
    BY <1>1 DEF MarkCancelling, Settle, MoveRun, GiveUp, workerVars
  <1>3. job[w] \in Runs
    BY DEF CeleryInv, Typed, Busy, MarkCancelling, Settle, MoveRun, GiveUp, At
  <1>4. ASSUME NEW l \in {"failed", "claim"}, Goto(w, l), (\A s \in Runs : Row(s)') /\ Gentle
        PROVE  CeleryInv'
    <2>1. l \notin Holding
      BY DEF Holding
    <2> QED  BY <1>2, <1>4, <2>1, ManagerMoves
  <1>5. ASSUME UNCHANGED repoVars PROVE (\A s \in Runs : Row(s)') /\ Gentle
    BY <1>1, <1>5, RowsKept DEF repoVars
  <1>6. CASE GiveUp(w)
    <2>1. CASE Transition(job[w], "INFRA_ERROR") /\ Goto(w, "claim")
      BY <1>1, <1>3, <1>4, <2>1, FreeTransitionRows
    <2> QED  BY <1>4, <1>5, <1>6, <2>1 DEF GiveUp
  <1>7. CASE Settle(w)
    <2>1. CASE Transition(job[w], Verdict(w)) /\ Goto(w, "claim")
      <3>1. pc[w] \in Holding /\ pc[w] \in Decided
        BY <1>7 DEF Settle, MoveRun, At, Holding, Decided
      <3>2. /\ made[job[w]] > 0 /\ Verdict(w) \in RUN_TERMINAL
            /\ attempt[<<job[w], made[job[w]]>>] = Verdict(w)
        BY <1>1, <3>1 DEF Holder, Mine
      <3>3. Verdict(w) # "RETRY_WAIT"
        BY <3>2 DEF RUN_TERMINAL
      <3>4. (\A s \in Runs : Row(s)') /\ Gentle
        BY <1>1, <1>3, <2>1, <3>2, <3>3, TransitionRows
      <3> QED  BY <1>4, <2>1, <3>4
    <2> QED  BY <1>4, <1>5, <1>7, <2>1 DEF Settle, MoveRun
  <1>8. CASE MarkCancelling(w)
    <2>1. pc[w] \in Holding /\ pc[w] \in Decided
      BY <1>8 DEF MarkCancelling, At, Holding, Decided
    <2>2. ASSUME Goto(w, "settle"), (\A s \in Runs : Row(s)') /\ Gentle PROVE CeleryInv'
      <3>1. pc'[w] = "settle"
        BY <2>2, WorkersAreProcesses DEF Goto, CeleryInv, Typed, TypeOK, ManagerTypeOK
      <3>2. UNCHANGED <<job, number, result, attempt, made>>
        BY <1>8 DEF MarkCancelling, Transition, workerVars, repoVars
      <3>3. Mine(w)' = Mine(w) /\ Verdict(w)' = Verdict(w)
        BY <3>2 DEF Mine, Verdict
      <3>4. Holder(w)'
        BY <1>1, <1>3, <2>1, <2>2, <3>1, <3>2, <3>3 DEF Holder, Gentle
      <3> QED  BY <1>2, <2>1, <2>2, <3>4, ManagerMoves
    <2>3. CASE Transition(job[w], "CANCELLING") /\ Goto(w, "settle")
      BY <1>1, <1>3, <2>2, <2>3, FreeTransitionRows
    <2> QED  BY <1>4, <1>5, <1>8, <2>2, <2>3 DEF MarkCancelling
  <1> QED  BY <1>6, <1>7, <1>8

\* begin_attempt: nobody else holds a DISPATCHING run.
LEMMA BeginInv ==
    ASSUME CeleryInv, Typed', NEW w \in Workers, Begin(w)
    PROVE  CeleryInv'
  <1>1. RepositoryTypeOK /\ (\A s \in Runs : Row(s)) /\ Typed
    BY DEF CeleryInv, Typed, TypeOK
  <1>2. UNCHANGED <<job, result>> /\ pc[w] = "begin" /\ job[w] \in Runs
    BY DEF Begin, At, CeleryInv, Typed, Busy
  <1>3. CASE Goto(w, "failed") /\ UNCHANGED <<repoVars, number>>
    <2>1. (\A s \in Runs : Row(s)') /\ Gentle
      BY <1>1, <1>3, RowsKept DEF repoVars
    <2> QED  BY <1>2, <1>3, <2>1, ManagerMoves DEF Holding
  <1>4. CASE /\ BeginAttempt(job[w]) /\ Goto(w, "prepare")
             /\ number' = [number EXCEPT ![w] = made[job[w]] + 1]
    <2>1. /\ \A s \in Runs : Row(s)'
          /\ run[job[w]] = "DISPATCHING" /\ run'[job[w]] = "RUNNING"
          /\ made'[job[w]] = made[job[w]] + 1
          /\ \A s \in Runs : s # job[w] => run'[s] = run[s] /\ made'[s] = made[s]
          /\ \A s \in Runs, n \in 1..AttemptBound :
                s # job[w] => attempt'[<<s, n>>] = attempt[<<s, n>>]
      BY <1>1, <1>2, <1>4, BeginRows
    <2>2. /\ pc'[w] = "prepare" /\ number'[w] = made[job[w]] + 1
          /\ \A v \in Workers : v # w => pc'[v] = pc[v] /\ number'[v] = number[v]
      BY <1>4, WorkersAreProcesses DEF Goto, CeleryInv, Typed, TypeOK, ManagerTypeOK
    <2>3. made[job[w]] + 1 > 0
      BY <1>1, <1>2 DEF RepositoryTypeOK
    <2>4. Holder(w)'
      BY <1>2, <2>1, <2>2, <2>3 DEF Holder, AwaitsAttempt, Decided
    <2>5. ASSUME NEW v \in Workers, v # w, pc[v] \in Holding PROVE job[v] # job[w] /\ job[v] \in Runs
                                                           /\ number[v] \in 1..AttemptBound
      <3>1. Holder(v)
        BY DEF CeleryInv
      <3>2. run[job[v]] # "DISPATCHING"
        BY <2>5, <3>1 DEF Holder, AwaitsAttempt
      <3> QED  BY <1>1, <2>1, <2>5, <3>1, <3>2, MineIsAttempt
    <2>6. ASSUME NEW v \in Workers, v # w PROVE Holder(v)'
      <3>1. pc[v] \in Holding =>
              /\ made'[job[v]] = made[job[v]] /\ run'[job[v]] = run[job[v]]
              /\ attempt'[Mine(v)] = attempt[Mine(v)]
        BY <2>1, <2>5, <2>6 DEF Mine
      <3>2. pc[v] \in Holding => run[job[v]] \notin AwaitsAttempt
        BY DEF CeleryInv, Holder
      <3> QED  BY <1>2, <2>2, <2>6, <3>1, <3>2, HolderKept
    <2>7. OneHolder'
      BY <1>2, <2>2, <2>5 DEF CeleryInv, OneHolder
    <2> QED  BY <2>1, <2>4, <2>6, <2>7 DEF CeleryInv
  <1> QED  BY <1>3, <1>4 DEF Begin

\* A retry gives the run up; nobody else holds it.
LEMMA RetryInv ==
    ASSUME CeleryInv, Typed', NEW w \in Workers, RetryWait(w)
    PROVE  CeleryInv'
  <1>1. RepositoryTypeOK /\ (\A s \in Runs : Row(s)) /\ Typed /\ Holder(w)
    BY DEF CeleryInv, Typed, TypeOK
  <1>2. UNCHANGED <<job, number, result>> /\ pc[w] = "retry_wait" /\ job[w] \in Runs
    BY DEF RetryWait, MoveRun, At, CeleryInv, Typed, Busy, workerVars
  <1>3. CASE Goto(w, "failed") /\ UNCHANGED repoVars
    <2>1. (\A s \in Runs : Row(s)') /\ Gentle
      BY <1>1, <1>3, RowsKept DEF repoVars
    <2> QED  BY <1>2, <1>3, <2>1, ManagerMoves DEF Holding
  <1>4. CASE Transition(job[w], "RETRY_WAIT") /\ Goto(w, "schedule")
    <2>1. pc[w] \in Holding /\ pc[w] \in Decided
      BY <1>2 DEF Holding, Decided
    <2>2. /\ made[job[w]] > 0 /\ made[job[w]] < MaxAttempts
          /\ attempt[<<job[w], made[job[w]]>>] \in RUN_TERMINAL
      BY <1>1, <1>2, <2>1 DEF Holder, Mine
    <2>3. /\ \A s \in Runs : Row(s)'
          /\ \A s \in Runs : s # job[w] => run'[s] = run[s]
          /\ UNCHANGED <<made, attempt>>
      BY <1>1, <1>2, <1>4, <2>2, TransitionRows
    <2>4. pc'[w] = "schedule" /\ \A v \in Workers : v # w => pc'[v] = pc[v]
      BY <1>4, WorkersAreProcesses DEF Goto, CeleryInv, Typed, TypeOK, ManagerTypeOK
    <2>5. pc'[w] \notin Holding
      BY <2>4 DEF Holding
    <2>6. ASSUME NEW v \in Workers PROVE Holder(v)'
      <3>1. CASE v = w
        BY <2>5, <3>1 DEF Holder
      <3>2. CASE v # w
        <4>1. pc[v] \in Holding => job[v] # job[w] /\ job[v] \in Runs /\ run[job[v]] \notin AwaitsAttempt
          BY <1>1, <2>1, <3>2, MineIsAttempt DEF CeleryInv, OneHolder, Holder
        <4>2. pc[v] \in Holding => run'[job[v]] \notin AwaitsAttempt
          BY <2>3, <4>1
        <4> QED  BY <1>2, <2>3, <2>4, <3>2, <4>2, HolderKept
      <3> QED  BY <3>1, <3>2
    <2>7. OneHolder'
      BY <1>2, <2>4, <2>5 DEF CeleryInv, OneHolder
    <2> QED  BY <2>3, <2>6, <2>7 DEF CeleryInv
  <1> QED  BY <1>3, <1>4 DEF RetryWait, MoveRun

\* A manager that picks a run up, schedules, returns or dies holds nothing after.
LEMMA LifeInv ==
    ASSUME CeleryInv, Typed', NEW w \in Workers,
           \/ \E r \in Runs : PickUp(w, r)
           \/ Schedule(w) \/ Return(w) \/ ManagerCrash(w)
    PROVE  CeleryInv'
  <1>1. RepositoryTypeOK /\ (\A s \in Runs : Row(s)) /\ ManagerTypeOK
    BY DEF CeleryInv, Typed, TypeOK
  <1>2. UNCHANGED <<run, made, attempt>>
    BY DEF PickUp, Schedule, Return, ManagerCrash, repoVars
  <1>3. (\A s \in Runs : Row(s)') /\ Gentle
    BY <1>1, <1>2, RowsKept
  <1>4. PICK l \in {"load", "refilled", "give_up", "idle"} : Goto(w, l)
    BY DEF PickUp, Schedule, Return, ManagerCrash
  <1>5. pc'[w] = l /\ \A q \in Processes : q # w => pc'[q] = pc[q]
    BY <1>1, <1>4, WorkersAreProcesses DEF Goto, ManagerTypeOK
  <1>6. pc'[w] \notin Holding
    BY <1>5 DEF Holding
  <1>7. \A v \in Workers : v # w =>
           job'[v] = job[v] /\ number'[v] = number[v] /\ result'[v] = result[v]
    BY <1>1 DEF PickUp, Schedule, Return, ManagerCrash, Leave, ManagerTypeOK
  <1>8. Holder(w)'
    BY <1>6 DEF Holder
  <1> QED  BY <1>3, <1>5, <1>6, <1>7, <1>8, WorkersAreProcesses, Combine

\* The invariant holds initially: nothing has been attempted.
LEMMA CeleryInvInit == Init => CeleryInv
  <1> SUFFICES ASSUME Init PROVE CeleryInv
    OBVIOUS
  <1>1. Typed
    BY TypedInit
  <1>2. ASSUME NEW r \in Runs PROVE Row(r)
    <2>1. run[r] = "CREATED" /\ made[r] = 0
      BY DEF Init, RepositoryInit
    <2>2. \A n \in 1..AttemptBound : attempt[<<r, n>>] = "ABSENT"
      BY DEF Init, RepositoryInit, Attempts
    <2>3. made[r] < MaxAttempts /\ made[r] <= MaxAttempts
      BY <2>1, ManagerAssumption
    <2> QED  BY <2>1, <2>2, <2>3 DEF Row, Leased, Terminal, ATTEMPT_LEASED, RUN_TERMINAL
  <1>3. \A w \in Workers : pc[w] \notin Holding
    BY WorkersAreProcesses DEF Init, Holding
  <1> QED  BY <1>1, <1>2, <1>3 DEF CeleryInv, Holder, OneHolder

\* Every step of the deployment keeps the invariant.
LEMMA CeleryInvStep == CeleryInv /\ [Next]_vars => CeleryInv'
  <1> SUFFICES ASSUME CeleryInv, [Next]_vars PROVE CeleryInv'
    OBVIOUS
  <1>1. Typed'
    BY TypedStep DEF CeleryInv
  <1>2. ASSUME NEW w \in Workers, ManagerStep(w) PROVE CeleryInv'
    BY <1>1, <1>2, ReadInv, AttemptInv, DecideInv, SettleInv, BeginInv, RetryInv DEF ManagerStep
  <1>3. ASSUME NEW w \in Workers, WorkerStep(w) \/ ManagerCrash(w) \/ Heartbeat(w) PROVE CeleryInv'
    BY <1>1, <1>2, <1>3, LifeInv, HeartbeatInv DEF WorkerStep
  <1>4. CASE UNCHANGED vars
    <2>1. UNCHANGED <<coordinatorVars, workerVars>> /\ UNCHANGED <<run, made, attempt>>
      BY <1>4 DEF vars, repoVars
    <2>2. (\A s \in Runs : Row(s)') /\ Gentle
      BY <2>1, RowsKept DEF CeleryInv, Typed, TypeOK
    <2> QED  BY <1>1, <2>1, <2>2, OutsideInv
  <1> QED
    BY <1>1, <1>3, <1>4, CoordinatorInv, TaskInv, EnvironmentInv DEF Next

\* Whatever is redelivered, sent twice, reaped or crashed, and however many
\* managers pick up the same run, no run has two live attempts, more attempts
\* than its policy allows or a verdict none of its attempts came to.
THEOREM AttemptsStaySound == Spec => []AttemptsAreSound
  <1>1. CeleryInv => AttemptsAreSound
    <2> SUFFICES ASSUME CeleryInv PROVE AttemptsAreSound
      OBVIOUS
    <2>1. TypeOK /\ \A r \in Runs : Row(r)
      BY DEF CeleryInv, Typed
    <2>2. OneLiveAttempt
      <3>1. \A r \in Runs, n \in 1..AttemptBound : Leased(<<r, n>>) => n = made[r]
        BY <2>1 DEF Row
      <3> QED  BY <3>1 DEF OneLiveAttempt
    <2>3. AttemptsBounded /\ VerdictIsBacked
      BY <2>1 DEF AttemptsBounded, VerdictIsBacked, Row
    <2> QED  BY <2>1, <2>2, <2>3 DEF AttemptsAreSound
  <1> QED  BY <1>1, CeleryInvInit, CeleryInvStep, PTL DEF Spec

-----------------------------------------------------------------------------
(* Terminal states.                                                        *)

\* What a step may not do to a terminal run or attempt.
Final ==
    /\ \A r \in Runs : Terminal(r) => run'[r] = run[r]
    /\ \A a \in Attempts : attempt[a] \in ATTEMPT_TERMINAL => attempt'[a] = attempt[a]

\* No transaction of the repository writes over a terminal state.
LEMMA TransactionsAreFinal ==
    ASSUME RepositoryTypeOK, \A s \in Runs : Row(s),
           \/ UNCHANGED <<run, made, attempt>>
           \/ \E r \in Runs : \E t : Transition(r, t)
           \/ \E a, t : TransitionAttempt(a, t)
           \/ \E r \in Runs : BeginAttempt(r)
           \/ \E S : ExpireAttemptLeases(S)
           \/ \E p : ClaimAvailableRuns(p)
    PROVE  Final
  <1>1. CASE UNCHANGED <<run, made, attempt>>
    BY <1>1 DEF Final
  <1>2. ASSUME NEW r \in Runs, NEW t, Transition(r, t) PROVE Final
    <2>1. ~Terminal(r)
      BY <1>2 DEF Transition, CanTransition, RUN_TRANSITIONS, Terminal, RUN_TERMINAL
    <2> QED  BY <1>2, <2>1 DEF Transition, RepositoryTypeOK, Final
  <1>3. ASSUME NEW a, NEW t, TransitionAttempt(a, t) PROVE Final
    <2>1. attempt[a] \notin ATTEMPT_TERMINAL
      BY <1>3 DEF TransitionAttempt, CanTransitionAttempt, ATTEMPT_TRANSITIONS, ATTEMPT_TERMINAL,
         RUN_TERMINAL
    <2> QED  BY <1>3, <2>1 DEF TransitionAttempt, RepositoryTypeOK, Final
  <1>4. ASSUME NEW r \in Runs, BeginAttempt(r) PROVE Final
    <2>1. ~Terminal(r)
      BY <1>4 DEF BeginAttempt, CanTransition, RUN_TRANSITIONS, Terminal, RUN_TERMINAL
    <2>2. made[r] + 1 \in 1..AttemptBound /\ made[r] + 1 > made[r]
      BY <1>4, BeginAttemptType, RepositoryAssumption DEF RepositoryTypeOK
    <2>3. attempt[<<r, made[r] + 1>>] = "ABSENT"
      BY <2>2 DEF Row
    <2>4. attempt[<<r, made[r] + 1>>] \notin ATTEMPT_TERMINAL
      BY <2>3 DEF ATTEMPT_TERMINAL, RUN_TERMINAL
    <2> QED  BY <1>4, <2>1, <2>4 DEF BeginAttempt, RepositoryTypeOK, Final
  <1>5. ASSUME NEW S, ExpireAttemptLeases(S) PROVE Final
    <2>1. Gentle
      BY <1>5, ExpireRows
    <2> QED  BY <1>5, <2>1 DEF ExpireAttemptLeases, Final, Gentle
  <1>6. ASSUME NEW p, ClaimAvailableRuns(p) PROVE Final
    BY <1>6 DEF ClaimAvailableRuns, Waiting, Terminal, RUN_TERMINAL, Final
  <1> QED  BY <1>1, <1>2, <1>3, <1>4, <1>5, <1>6

\* Every step of the deployment makes one transaction or none.
LEMMA StepsAreFinal == CeleryInv /\ [Next]_vars => Final
  <1> SUFFICES ASSUME CeleryInv, [Next]_vars PROVE Final
    OBVIOUS
  <1>0. RepositoryTypeOK /\ (\A s \in Runs : Row(s)) /\ TypeOK /\ Busy
    BY DEF CeleryInv, Typed, TypeOK
  <1>1. ASSUME NEW p \in Processes, CoordinatorStep(p) PROVE Final
    <2>1. \/ ClaimAvailableRuns(p) \/ UNCHANGED <<run, made, attempt>>
          \/ \E r \in Runs : Transition(r, "INFRA_ERROR")
      BY <1>1 DEF CoordinatorStep, Claim, SendPrepare, SendPrepareRaises, SendFails, FailDispatch, repoVars
    <2> QED  BY <1>0, <2>1, TransactionsAreFinal
  <1>2. ASSUME NEW w \in Workers, ManagerStep(w) PROVE Final
    <2>1. job[w] \in Runs
      <3>1. pc[w] # "idle"
        BY <1>2 DEF ManagerStep, Load, Begin, Prepare, Launch, Advance,
           ExecutorReturns, CheckCancel, CheckLost, Collect, Complete, Finish, Decide,
           RetryWait, MoveRun, GiveUp, MarkCancelling, Settle, At
      <3> QED  BY <1>0, <3>1 DEF Busy
    <2>2. CASE Begin(w)
      <3>1. BeginAttempt(job[w]) \/ UNCHANGED <<run, made, attempt>>
        BY <2>2 DEF Begin, repoVars
      <3> QED  BY <1>0, <2>1, <3>1, TransactionsAreFinal
    <2>3. CASE Prepare(w) \/ Launch(w) \/ Collect(w) \/ Complete(w)
      <3>1. (\E t : TransitionAttempt(Mine(w), t)) \/ UNCHANGED <<run, made, attempt>>
        BY <2>3 DEF Prepare, Launch, Advance, Collect, Complete, CompleteAttempt, Finish, repoVars
      <3> QED  BY <1>0, <3>1, TransactionsAreFinal
    <2>4. CASE RetryWait(w) \/ GiveUp(w) \/ MarkCancelling(w) \/ Settle(w)
      <3>1. (\E t : Transition(job[w], t)) \/ UNCHANGED <<run, made, attempt>>
        BY <2>4 DEF RetryWait, MoveRun, GiveUp, MarkCancelling, Settle, repoVars
      <3> QED  BY <1>0, <2>1, <3>1, TransactionsAreFinal
    <2>5. CASE Load(w) \/ ExecutorReturns(w) \/ CheckCancel(w) \/ CheckLost(w) \/ Decide(w)
      <3>1. UNCHANGED <<run, made, attempt>>
        BY <2>5 DEF Load, ExecutorReturns, CheckCancel, CheckLost, Decide, repoVars
      <3> QED  BY <1>0, <3>1, TransactionsAreFinal
    <2> QED  BY <1>2, <2>2, <2>3, <2>4, <2>5 DEF ManagerStep
  <1>3. ASSUME NEW w \in Workers,
               \/ \E r \in Runs : PickUp(w, r)
               \/ Schedule(w) \/ Return(w) \/ ManagerCrash(w) \/ Heartbeat(w)
        PROVE  Final
    <2>1. UNCHANGED <<run, made, attempt>>
      BY <1>3 DEF PickUp, Schedule, Return, ManagerCrash, Heartbeat, RenewAttemptLease, repoVars
    <2> QED  BY <1>0, <2>1, TransactionsAreFinal
  <1>4. ASSUME NEW r \in Runs, PrepareRunTask(r) \/ CancelRequest(r) PROVE Final
    <2>1. (\E t : Transition(r, t)) \/ UNCHANGED <<run, made, attempt>>
      BY <1>4 DEF PrepareRunTask, PrepareRun, CancelRequest, Cancel, repoVars
    <2> QED  BY <1>0, <2>1, TransactionsAreFinal
  <1>5. ASSUME NEW t \in TaskWorkers, TaskStep(t) \/ TaskWorkerCrash(t) PROVE Final
    <2>1. CASE RetryRunPrepares(t)
      <3>1. retrying[t] \in Messages
        BY <1>0, <2>1 DEF RetryRunPrepares, TypeOK
      <3>2. retrying[t][2] \in Runs
        BY <3>1 DEF Messages
      <3>3. Transition(retrying[t][2], "DISPATCHING") \/ UNCHANGED <<run, made, attempt>>
        BY <2>1 DEF RetryRunPrepares, PrepareRun, repoVars
      <3> QED  BY <1>0, <3>2, <3>3, TransactionsAreFinal
    <2>2. ASSUME NEW r \in Runs, NEW n, RetryRunTask(t, r, n) PROVE Final
      <3>1. Transition(r, "QUEUED") \/ UNCHANGED <<run, made, attempt>>
        BY <2>2 DEF RetryRunTask, repoVars
      <3> QED  BY <1>0, <3>1, TransactionsAreFinal
    <2>3. CASE TaskWorkerCrash(t)
      <3>1. UNCHANGED <<run, made, attempt>>
        BY <2>3 DEF TaskWorkerCrash, repoVars
      <3> QED  BY <1>0, <3>1, TransactionsAreFinal
    <2> QED  BY <1>5, <2>1, <2>2, <2>3 DEF TaskStep
  <1>6. CASE Reap
    <2>1. \E S : ExpireAttemptLeases(S)
      BY <1>6 DEF Reap
    <2> QED  BY <1>0, <2>1, TransactionsAreFinal
  <1>7. CASE TimePasses \/ UNCHANGED vars
    <2>1. UNCHANGED <<run, made, attempt>>
      BY <1>7 DEF TimePasses, Tick, vars, repoVars
    <2> QED  BY <1>0, <2>1, TransactionsAreFinal
  <1> QED
    BY <1>1, <1>2, <1>3, <1>4, <1>5, <1>6, <1>7 DEF Next, WorkerStep

\* No redelivered task, late manager, cancel or reaper ever writes over the
\* terminal state of a run or of an attempt.
THEOREM TerminalStatesStay == Spec => TerminalIsFinal
  <1>1. CeleryInv /\ [Next]_vars =>
          [/\ \A r \in Runs : Terminal(r) => run'[r] = run[r]
           /\ \A a \in Attempts : attempt[a] \in ATTEMPT_TERMINAL => attempt'[a] = attempt[a]]_repoVars
    BY StepsAreFinal DEF Final
  <1> QED  BY <1>1, CeleryInvInit, CeleryInvStep, PTL DEF Spec, TerminalIsFinal

=============================================================================
