-------------------------- MODULE LocalRunnerProofs --------------------------
(***************************************************************************)
(* Safety of the node-local deployment for every batch, every number of    *)
(* workers, every max_parallel and every bound of LocalRunner.             *)
(***************************************************************************)
EXTENDS LocalRunner, FiniteSetTheorems, TLAPS

-----------------------------------------------------------------------------
(* Typing of the repository's transactions.                                *)

\* Every target of a run transition is a run state.
LEMMA RunTargets ==
    ASSUME NEW s PROVE RUN_TRANSITIONS(s) \subseteq RunState
  BY DEF RUN_TRANSITIONS, RunState, RUN_TERMINAL

\* Every target of an attempt transition is an attempt state.
LEMMA AttemptTargets ==
    ASSUME NEW s PROVE ATTEMPT_TRANSITIONS(s) \subseteq AttemptState
  BY DEF ATTEMPT_TRANSITIONS, AttemptState, ATTEMPT_LEASED, ATTEMPT_TERMINAL, RUN_TERMINAL

\* RunRepository.transition writes a run state.
LEMMA TransitionType ==
    ASSUME RepositoryTypeOK, NEW r \in Runs, NEW t, Transition(r, t)
    PROVE  RepositoryTypeOK'
  BY RunTargets DEF RepositoryTypeOK, Transition, CanTransition

\* transition_attempt and complete_attempt write an attempt state.
LEMMA TransitionAttemptType ==
    ASSUME RepositoryTypeOK, NEW a, NEW t, TransitionAttempt(a, t)
    PROVE  RepositoryTypeOK'
  BY AttemptTargets DEF RepositoryTypeOK, TransitionAttempt, CanTransitionAttempt

\* begin_attempt keeps the types, and the row it inserts is within the bound.
LEMMA BeginAttemptType ==
    ASSUME RepositoryTypeOK, NEW r \in Runs, BeginAttempt(r)
    PROVE  RepositoryTypeOK' /\ made[r] + 1 \in 1..AttemptBound
  <1>1. made[r] + 1 \in 1..AttemptBound /\ LeaseSeconds \in 0..LeaseSeconds
    BY RepositoryAssumption DEF RepositoryTypeOK, BeginAttempt
  <1>2. "RUNNING" \in RunState /\ "CLAIMED" \in AttemptState
    BY DEF RunState, AttemptState, ATTEMPT_LEASED
  <1>3. made' \in [Runs -> 0..AttemptBound]
    BY <1>1, RepositoryAssumption DEF RepositoryTypeOK, BeginAttempt
  <1>4. lease' \in [Attempts -> 0..LeaseSeconds]
    BY <1>1 DEF RepositoryTypeOK, BeginAttempt
  <1>5. /\ run' \in [Runs -> RunState]
        /\ attempt' \in [Attempts -> AttemptState \cup {"ABSENT"}]
    BY <1>2 DEF RepositoryTypeOK, BeginAttempt
  <1> QED
    BY <1>1, <1>3, <1>4, <1>5 DEF RepositoryTypeOK

\* renew_attempt_lease keeps the types.
LEMMA RenewType ==
    ASSUME RepositoryTypeOK, NEW a, RenewAttemptLease(a)
    PROVE  RepositoryTypeOK'
  <1>1. LeaseSeconds \in 0..LeaseSeconds
    BY RepositoryAssumption
  <1> QED  BY <1>1 DEF RepositoryTypeOK, RenewAttemptLease

\* expire_attempt_leases keeps the types.
LEMMA ExpireType ==
    ASSUME RepositoryTypeOK, NEW S, ExpireAttemptLeases(S)
    PROVE  RepositoryTypeOK'
  <1>1. "INFRA_ERROR" \in RunState /\ "LOST" \in AttemptState
    BY DEF RunState, RUN_TERMINAL, AttemptState, ATTEMPT_TERMINAL
  <1> QED  BY <1>1 DEF RepositoryTypeOK, ExpireAttemptLeases

\* The passing of time never makes a lease negative.
LEMMA TickType ==
    ASSUME RepositoryTypeOK, Tick
    PROVE  RepositoryTypeOK'
  BY RepositoryAssumption DEF RepositoryTypeOK, Tick

-----------------------------------------------------------------------------
(* Typing of the steps.                                                    *)

\* Moving a process to a known label keeps pc well typed.
LEMMA GotoType ==
    ASSUME ManagerTypeOK, NEW p \in Processes, NEW l \in Labels, Goto(p, l)
    PROVE  pc' \in [Processes -> Labels]
  BY DEF ManagerTypeOK, Goto

\* The end of one iteration of dispatch_available keeps the types.
LEMMA LoopAfterType ==
    ASSUME TypeOK, NEW p \in Processes, NEW r \in Runs, NEW f \in BOOLEAN, LoopAfter(p, r, f)
    PROVE  CoordinatorTypeOK' /\ pc' \in [Processes -> Labels]
  <1>1. CoordinatorTypeOK'
    BY DEF LoopAfter, CoordinatorTypeOK, TypeOK
  <1>2. \E l \in {"dispatch", "claim", "refilled"} : Goto(p, l)
    BY DEF LoopAfter
  <1>3. pc' \in [Processes -> Labels]
    BY <1>2, GotoType DEF TypeOK, Labels
  <1> QED  BY <1>1, <1>3

\* A pool thread may also be inside dispatch_available.
LEMMA WorkersAreProcesses == Workers \subseteq Processes
  BY ManagerAssumption

\* The type invariant, as one fact per group of variables.
LEMMA TypeParts ==
    ASSUME RepositoryTypeOK', CoordinatorTypeOK', pc' \in [Processes -> Labels],
           UNCHANGED <<workerVars, serviceVars>>, TypeOK
    PROVE  TypeOK'
  BY DEF TypeOK, ManagerTypeOK, workerVars, serviceVars

\* Every step of dispatch_available keeps the types.
LEMMA CoordinatorStepType ==
    ASSUME TypeOK, NEW p \in Processes, CoordinatorStep(p)
    PROVE  TypeOK'
  <1>1. CASE Claim(p)
    <2>1. PICK S \in SUBSET Waiting :
            /\ run' = [r \in Runs |-> IF r \in S THEN "QUEUED" ELSE run[r]]
            /\ todo' = [todo EXCEPT ![p] = S]
            /\ Goto(p, IF S = {} THEN "refilled" ELSE "dispatch")
      BY <1>1 DEF Claim, ClaimAvailableRuns
    <2>2. "QUEUED" \in RunState /\ {"refilled", "dispatch"} \subseteq Labels
      BY DEF RunState, Labels
    <2>3. RepositoryTypeOK'
      BY <1>1, <2>1, <2>2 DEF Claim, ClaimAvailableRuns, RepositoryTypeOK, TypeOK
    <2>4. CoordinatorTypeOK'
      BY <1>1, <2>1 DEF Claim, ClaimAvailableRuns, CoordinatorTypeOK, TypeOK, Waiting
    <2>5. pc' \in [Processes -> Labels]
      BY <2>1, <2>2, GotoType DEF TypeOK
    <2> QED  BY <1>1, <2>3, <2>4, <2>5, TypeParts DEF Claim
  <1>2. ASSUME NEW r \in Runs, Dispatch(p, r) PROVE TypeOK'
    <2>1. RepositoryTypeOK'
      BY <1>2, TransitionType DEF Dispatch, TypeOK, RepositoryTypeOK, repoVars
    <2>2. CoordinatorTypeOK' /\ pc' \in [Processes -> Labels]
      BY <1>2, LoopAfterType DEF Dispatch, Dispatched
    <2> QED  BY <1>2, <2>1, <2>2, TypeParts DEF Dispatch
  <1>3. ASSUME NEW r \in Runs, DispatchRaises(p, r) PROVE TypeOK'
    <2>1. RepositoryTypeOK' /\ CoordinatorTypeOK'
      BY <1>3 DEF DispatchRaises, DispatchRaised, TypeOK, RepositoryTypeOK, CoordinatorTypeOK, repoVars
    <2>2. pc' \in [Processes -> Labels]
      BY <1>3, GotoType DEF DispatchRaises, DispatchRaised, TypeOK, Labels
    <2> QED  BY <1>3, <2>1, <2>2, TypeParts DEF DispatchRaises
  <1>4. ASSUME NEW r \in Runs, DispatchFails(p, r) PROVE TypeOK'
    <2>1. RepositoryTypeOK'
      BY <1>4, TransitionType DEF DispatchFails, FailDispatch, TypeOK, RepositoryTypeOK, repoVars
    <2>2. CASE LoopAfter(p, r, TRUE)
      BY <1>4, <2>1, <2>2, LoopAfterType, TypeParts DEF DispatchFails
    <2>3. CASE /\ todo' = [todo EXCEPT ![p] = {}]
               /\ Goto(p, "refilled")
               /\ UNCHANGED refill
      <3>1. CoordinatorTypeOK'
        BY <2>3 DEF TypeOK, CoordinatorTypeOK
      <3>2. pc' \in [Processes -> Labels]
        BY <2>3, GotoType DEF TypeOK, Labels
      <3> QED  BY <1>4, <2>1, <3>1, <3>2, TypeParts DEF DispatchFails
    <2> QED  BY <1>4, <2>2, <2>3 DEF DispatchFails, FailDispatch
  <1> QED  BY <1>1, <1>2, <1>3, <1>4 DEF CoordinatorStep

\* A worker step that leaves the batch loop's and the service's state alone.
LEMMA WorkerParts ==
    ASSUME TypeOK, RepositoryTypeOK', UNCHANGED <<todo, refill, serviceVars, job>>,
           pc' \in [Processes -> Labels],
           number' \in [Workers -> 0..AttemptBound], result' \in [Workers -> Result]
    PROVE  TypeOK'
  BY DEF TypeOK, CoordinatorTypeOK, ManagerTypeOK, serviceVars

\* _RESULT_STATES maps a result to a result.
LEMMA VerdictType ==
    ASSUME TypeOK, NEW w \in Workers
    PROVE  Verdict(w) \in Result
  BY DEF TypeOK, ManagerTypeOK, Verdict, Result, ResultOutcome, RUN_TERMINAL

\* Steps of execute that only move the worker and write one transaction.
LEMMA SimpleStepType ==
    ASSUME TypeOK, NEW w \in Workers, job[w] \in Runs, UNCHANGED <<serviceVars, workerVars>>,
           \/ Load(w) \/ Prepare(w) \/ Launch(w) \/ CheckLost(w) \/ Collect(w)
           \/ Complete(w) \/ Decide(w) \/ RetryWait(w) \/ MarkCancelling(w) \/ Settle(w)
    PROVE  TypeOK'
  <1>1. UNCHANGED repoVars => RepositoryTypeOK'
    BY DEF TypeOK, RepositoryTypeOK, repoVars
  <1>2. RepositoryTypeOK'
    BY <1>1, TransitionType, TransitionAttemptType
    DEF TypeOK, Load, Prepare, Launch, Advance, CheckLost, Collect, Complete, CompleteAttempt, Finish,
        Decide, RetryWait, MoveRun, MarkCancelling, Settle
  <1>3. UNCHANGED <<todo, refill>>
    BY DEF Load, Prepare, Launch, Advance, CheckLost, Collect, Complete, Finish,
        Decide, RetryWait, MoveRun, MarkCancelling, Settle, At
  <1>4. \E l \in Labels : Goto(w, l)
    BY DEF Load, Prepare, Launch, Advance, CheckLost, Collect, Complete, Finish,
        Decide, RetryWait, MoveRun, MarkCancelling, Settle, Labels, ManagerLabels
  <1>5. pc' \in [Processes -> Labels]
    BY <1>4, GotoType, WorkersAreProcesses DEF TypeOK
  <1> QED
    BY <1>2, <1>3, <1>5, WorkerParts DEF workerVars, TypeOK, ManagerTypeOK

\* Every step of RunnerManager.execute, and every heartbeat, keeps the types.
LEMMA ManagerStepType ==
    ASSUME TypeOK, NEW w \in Workers, job[w] \in Runs, UNCHANGED serviceVars,
           ManagerStep(w) \/ Heartbeat(w)
    PROVE  TypeOK'
  <1>1. UNCHANGED repoVars => RepositoryTypeOK'
    BY DEF TypeOK, RepositoryTypeOK, repoVars
  <1>2. CASE Begin(w)
    <2>1. RepositoryTypeOK' /\ number' \in [Workers -> 0..AttemptBound]
      <3>1. CASE BeginAttempt(job[w]) /\ number' = [number EXCEPT ![w] = made[job[w]] + 1]
        <4>1. RepositoryTypeOK' /\ made[job[w]] + 1 \in 1..AttemptBound
          BY <3>1, BeginAttemptType DEF TypeOK
        <4>2. made[job[w]] + 1 \in 0..AttemptBound
          BY <4>1, RepositoryAssumption
        <4> QED  BY <3>1, <4>1, <4>2 DEF TypeOK, ManagerTypeOK
      <3> QED  BY <1>1, <1>2, <3>1 DEF Begin, TypeOK, ManagerTypeOK
    <2>2. pc' \in [Processes -> Labels]
      <3>1. \E l \in Labels : Goto(w, l)
        BY <1>2 DEF Begin, Labels, ManagerLabels
      <3> QED  BY <3>1, GotoType, WorkersAreProcesses DEF TypeOK
    <2>3. UNCHANGED <<todo, refill, job, result>>
      BY <1>2 DEF Begin, At
    <2> QED  BY <2>1, <2>2, <2>3, WorkerParts DEF TypeOK, ManagerTypeOK
  <1>3. CASE Heartbeat(w)
    <2>1. RepositoryTypeOK'
      BY <1>1, <1>3, RenewType DEF Heartbeat, TypeOK
    <2>2. result' \in [Workers -> Result]
      BY <1>3 DEF Heartbeat, TypeOK, ManagerTypeOK, Result, ResultOutcome, RUN_TERMINAL
    <2> QED  BY <1>3, <2>1, <2>2, WorkerParts DEF Heartbeat, At, TypeOK, ManagerTypeOK
  <1>4. CASE ExecutorReturns(w) \/ CheckCancel(w)
    <2>1. \E o \in Result : result' = [result EXCEPT ![w] = o]
      BY <1>4, ManagerAssumption DEF ExecutorReturns, CheckCancel, TypeOK, ManagerTypeOK,
         Result, ResultOutcome, RUN_TERMINAL
    <2>2. result' \in [Workers -> Result]
      BY <2>1 DEF TypeOK, ManagerTypeOK
    <2>3. \E l \in Labels : Goto(w, l)
      BY <1>4 DEF ExecutorReturns, CheckCancel, Labels, ManagerLabels
    <2>4. pc' \in [Processes -> Labels]
      BY <2>3, GotoType, WorkersAreProcesses DEF TypeOK
    <2> QED
      BY <1>1, <1>4, <2>2, <2>4, WorkerParts
      DEF ExecutorReturns, CheckCancel, At, TypeOK, ManagerTypeOK
  <1>5. CASE GiveUp(w)
    <2>1. RepositoryTypeOK'
      BY <1>1, <1>5, TransitionType DEF GiveUp, TypeOK
    <2>2. result' \in [Workers -> Result]
      BY <1>5, VerdictType DEF GiveUp, TypeOK, ManagerTypeOK
    <2>3. \E l \in Labels : Goto(w, l)
      BY <1>5 DEF GiveUp, Labels, ManagerLabels
    <2>4. pc' \in [Processes -> Labels]
      BY <2>3, GotoType, WorkersAreProcesses DEF TypeOK
    <2> QED
      BY <1>5, <2>1, <2>2, <2>4, WorkerParts DEF GiveUp, At, TypeOK, ManagerTypeOK
  <1>6. CASE \/ Load(w) \/ Prepare(w) \/ Launch(w) \/ CheckLost(w) \/ Collect(w)
             \/ Complete(w) \/ Decide(w) \/ RetryWait(w) \/ MarkCancelling(w) \/ Settle(w)
    <2>1. UNCHANGED workerVars
      BY <1>6 DEF Load, Prepare, Launch, Advance, CheckLost, Collect, Complete, Finish,
        Decide, RetryWait, MoveRun, MarkCancelling, Settle
    <2> QED  BY <1>6, <2>1, SimpleStepType
  <1> QED  BY <1>2, <1>3, <1>4, <1>5, <1>6 DEF ManagerStep

-----------------------------------------------------------------------------
(* The type invariant.  It needs one fact beyond typing: a worker that is  *)
(* not idle has a run, so what the manager indexes by job[w] is a run.     *)

Busy == \A w \in Workers : pc[w] # "idle" => job[w] \in Runs

Typed == TypeOK /\ Busy

\* The initial state is well typed.
LEMMA TypedInit == Init => Typed
  <1> SUFFICES ASSUME Init PROVE Typed
    OBVIOUS
  <1>1. RepositoryTypeOK
    BY RepositoryAssumption
    DEF Init, RepositoryInit, RepositoryTypeOK, RunState
  <1>2. CoordinatorTypeOK /\ ManagerTypeOK
    BY RepositoryAssumption
    DEF Init, CoordinatorTypeOK, ManagerTypeOK, Labels, ManagerLabels, Result
  <1>3. TypeOK
    BY <1>1, <1>2, LocalRunnerAssumption DEF Init, TypeOK
  <1>4. Busy
    BY LocalRunnerAssumption DEF Init, Busy
  <1> QED  BY <1>3, <1>4 DEF Typed

\* Every step of the deployment keeps the types.
LEMMA TypedStep == Typed /\ [Next]_vars => Typed'
  <1> SUFFICES ASSUME Typed, [Next]_vars PROVE Typed'
    OBVIOUS
  <1> USE DEF Typed
  <1>0. UNCHANGED repoVars => RepositoryTypeOK'
    BY DEF TypeOK, RepositoryTypeOK, repoVars
  <1>1. ASSUME NEW p \in Processes, CoordinatorStep(p) PROVE Typed'
    <2>1. UNCHANGED job /\ pc[p] # "idle" /\ \E l : Goto(p, l)
      BY <1>1 DEF CoordinatorStep, Claim, ClaimAvailableRuns, Dispatch, Dispatched, LoopAfter,
         DispatchRaises, DispatchRaised, DispatchFails, FailDispatch, workerVars
    <2>2. Busy'
      BY <2>1 DEF Busy, Goto, TypeOK, ManagerTypeOK
    <2> QED  BY <1>1, <2>2, CoordinatorStepType
  <1>2. ASSUME NEW w \in Workers, ManagerStep(w) \/ Heartbeat(w), UNCHANGED serviceVars
        PROVE Typed'
    <2>1. pc[w] # "idle" /\ UNCHANGED job
      BY <1>2 DEF ManagerStep, Heartbeat, Load, Begin, Prepare, Launch, Advance,
         ExecutorReturns, CheckCancel, CheckLost, Collect, Complete, Finish, Decide,
         RetryWait, MoveRun, GiveUp, MarkCancelling, Settle, At, workerVars
    <2>2. UNCHANGED pc \/ \E l : Goto(w, l)
      BY <1>2 DEF ManagerStep, Heartbeat, Load, Begin, Prepare, Launch, Advance,
         ExecutorReturns, CheckCancel, CheckLost, Collect, Complete, Finish, Decide,
         RetryWait, MoveRun, GiveUp, MarkCancelling, Settle
    <2>3. job[w] \in Runs
      BY <2>1 DEF Busy
    <2>4. Busy'
      BY <2>1, <2>2, <2>3, WorkersAreProcesses DEF Busy, Goto, TypeOK, ManagerTypeOK
    <2> QED  BY <1>2, <2>3, <2>4, ManagerStepType
  <1>3. ASSUME NEW w \in Workers, NEW r \in Runs, Take(w, r) PROVE Typed'
    BY <1>0, <1>3, WorkersAreProcesses
    DEF Take, At, Goto, TypeOK, CoordinatorTypeOK, ManagerTypeOK, Busy, Labels
  <1>4. ASSUME NEW w \in Workers, Materialize(w) \/ AcquireHostLock(w) PROVE Typed'
    <2>1. TypeOK'
      BY <1>0, <1>4, WorkersAreProcesses
      DEF Materialize, AcquireHostLock, At, Goto, TypeOK, CoordinatorTypeOK, ManagerTypeOK,
        workerVars, serviceVars, Labels, ManagerLabels
    <2>2. Busy'
      BY <1>4, WorkersAreProcesses
      DEF Materialize, AcquireHostLock, At, Goto, TypeOK, ManagerTypeOK, workerVars, Busy
    <2> QED  BY <2>1, <2>2
  <1>5. ASSUME NEW w \in Workers, Converge(w) PROVE Typed'
    <2>1. job[w] \in Runs
      BY <1>5 DEF Busy, Converge, At
    <2>2. RepositoryTypeOK'
      BY <1>0, <1>5, <2>1, TransitionType DEF Converge, TypeOK
    <2>3. TypeOK'
      BY <1>5, <2>2, WorkersAreProcesses
      DEF Converge, At, Goto, ReleaseHostLock, TypeOK, CoordinatorTypeOK, ManagerTypeOK,
        Labels, Result, ResultOutcome, RUN_TERMINAL
    <2>4. Busy'
      BY <1>5, <2>1 DEF Converge, Goto, TypeOK, ManagerTypeOK, Busy
    <2> QED  BY <2>3, <2>4
  <1>6. ASSUME NEW w \in Workers, Return(w) PROVE Typed'
    <2>1. CoordinatorTypeOK' /\ RepositoryTypeOK'
      BY <1>0, <1>6 DEF Return, At, TypeOK, CoordinatorTypeOK
    <2>2. ManagerTypeOK'
      BY <1>6, WorkersAreProcesses, RepositoryAssumption
      DEF Return, Goto, TypeOK, ManagerTypeOK, workerVars, Labels, Result
    <2>3. /\ service' \in {"up", "stopping", "down"}
          /\ snapshot' \subseteq Runs /\ submitted' \subseteq Runs /\ queue' \subseteq Runs
          /\ hostLock' \in Workers \cup {NoWorker}
          /\ stops' \in 0..MaxStops /\ crashes' \in 0..MaxCrashes
      BY <1>6 DEF Return, ReleaseHostLock, TypeOK
    <2>4. Busy'
      BY <1>6, WorkersAreProcesses DEF Return, At, Goto, TypeOK, ManagerTypeOK, workerVars, Busy
    <2> QED  BY <2>1, <2>2, <2>3, <2>4 DEF TypeOK
  <1>7. CASE PollList \/ (\E r \in Runs : PollSubmit(r)) \/ Stop \/ Stopped \/ Start
    BY <1>0, <1>7, LocalRunnerAssumption
    DEF PollList, PollSubmit, Stop, Stopped, Start, TypeOK, CoordinatorTypeOK, ManagerTypeOK,
      coordinatorVars, workerVars, Busy
  <1>8. CASE Crash
    BY <1>0, <1>8, LocalRunnerAssumption, RepositoryAssumption
    DEF Crash, TypeOK, CoordinatorTypeOK, ManagerTypeOK, Labels, Result, Busy
  <1>9. CASE (\E r \in Runs : CancelRequest(r)) \/ Reap \/ TimePasses
    <2>1. RepositoryTypeOK'
      BY <1>9, TransitionType, ExpireType, TickType
      DEF CancelRequest, Cancel, Reap, TimePasses, TypeOK
    <2>2. UNCHANGED <<coordinatorVars, workerVars, serviceVars>>
      BY <1>9 DEF CancelRequest, Reap, TimePasses
    <2> QED
      BY <2>1, <2>2 DEF TypeOK, CoordinatorTypeOK, ManagerTypeOK, Busy,
        coordinatorVars, workerVars, serviceVars
  <1>10. CASE UNCHANGED vars
    BY <1>0, <1>10 DEF vars, TypeOK, CoordinatorTypeOK, ManagerTypeOK, Busy,
      coordinatorVars, workerVars, serviceVars
  <1> QED
    BY <1>1, <1>2, <1>3, <1>4, <1>5, <1>6, <1>7, <1>8, <1>9, <1>10 DEF Next, WorkerStep

\* The variables of the deployment always have the types LocalRunner declares,
\* for every batch, pool size and policy.
THEOREM TypeCorrect == Spec => []TypeOK
  <1>1. Typed => TypeOK
    BY DEF Typed
  <1> QED  BY <1>1, TypedInit, TypedStep, PTL DEF Spec

-----------------------------------------------------------------------------
(* The inductive invariant.                                                *)

\* The attempts of run r are left alone, or lose a lease to the reaper.
Undisturbed(r) ==
    /\ made'[r] = made[r]
    /\ \A n \in 1..AttemptBound :
          \/ attempt'[<<r, n>>] = attempt[<<r, n>>]
          \/ attempt[<<r, n>>] \in ATTEMPT_LEASED /\ attempt'[<<r, n>>] = "LOST"

\* A run without a live attempt has none after such a step.
LEMMA NoLeaseKept ==
    ASSUME NEW r \in Runs, Undisturbed(r), NoLease(r)
    PROVE  NoLease(r)'
  BY DEF Undisturbed, NoLease, Leased, ATTEMPT_LEASED

\* A run and a number within the bound name an attempt.
LEMMA AttemptPair ==
    ASSUME NEW r \in Runs, NEW n \in 1..AttemptBound
    PROVE  <<r, n>> \in Attempts
  BY DEF Attempts

\* A worker keeps its invariant when it does not move and its run's attempts
\* are undisturbed.
LEMMA StandingWorker ==
    ASSUME Typed, NEW v \in Workers, WorkerOK(v),
           pc'[v] = pc[v], job'[v] = job[v], number'[v] = number[v], result'[v] = result[v],
           job[v] \in Runs => Undisturbed(job[v])
    PROVE  WorkerOK(v)'
  <1>1. CASE pc[v] = "idle"
    BY <1>1 DEF WorkerOK, Outside
  <1>2. CASE pc[v] # "idle"
    <2>1. job[v] \in Runs /\ Undisturbed(job[v])
      BY <1>2 DEF Typed, Busy
    <2>2. pc[v] \in Outside => NoLease(job[v])'
      BY <2>1, NoLeaseKept DEF WorkerOK
    <2>3. ASSUME pc[v] \notin Outside
          PROVE  /\ number[v]' = made[job[v]]' /\ number[v]' > 0
                 /\ attempt[Mine(v)]' \in OwnAttempt(v)'
                 /\ \A n \in 1..AttemptBound : n # number[v]' => ~Leased(<<job[v], n>>)'
      <3>1. /\ number[v] = made[job[v]] /\ number[v] > 0
            /\ attempt[Mine(v)] \in OwnAttempt(v)
            /\ \A n \in 1..AttemptBound : n # number[v] => ~Leased(<<job[v], n>>)
        BY <1>2, <2>3 DEF WorkerOK
      <3>2. number[v] \in 1..AttemptBound
        <4>1. number[v] \in 0..AttemptBound
          BY DEF Typed, TypeOK, ManagerTypeOK
        <4>2. number[v] > 0
          BY <3>1
        <4> QED  BY <4>1, <4>2, RepositoryAssumption
      <3>3. number[v]' = made[job[v]]' /\ number[v]' > 0
        BY <2>1, <3>1 DEF Undisturbed
      <3>4. \A n \in 1..AttemptBound : n # number[v]' => ~Leased(<<job[v], n>>)'
        BY <2>1, <3>1 DEF Undisturbed, Leased, ATTEMPT_LEASED
      <3>5. attempt'[<<job[v], number[v]>>] \in {attempt[Mine(v)], "LOST"}
        BY <2>1, <3>2 DEF Undisturbed, Mine
      <3>6. OwnAttempt(v)' = OwnAttempt(v)
        BY DEF OwnAttempt, Verdict
      <3>7. attempt[Mine(v)] \in ATTEMPT_LEASED => "LOST" \in OwnAttempt(v)
        <4>1. CASE OwnAttempt(v) = {Verdict(v)}
          <5>1. Verdict(v) \notin ATTEMPT_LEASED
            BY DEF Typed, TypeOK, ManagerTypeOK, Verdict, Result, ResultOutcome, RUN_TERMINAL, ATTEMPT_LEASED
          <5> QED  BY <3>1, <4>1, <5>1
        <4> QED  BY <4>1 DEF OwnAttempt
      <3>8. attempt'[<<job[v], number[v]>>] \in OwnAttempt(v)
        BY <2>1, <3>1, <3>2, <3>5, <3>7 DEF Undisturbed, Mine
      <3> QED  BY <3>3, <3>4, <3>6, <3>8 DEF Mine
    <2> QED  BY <1>2, <2>2, <2>3 DEF WorkerOK, Outside
  <1> QED  BY <1>1, <1>2

\* How a run may change while its attempts stay as they are.
RunKept(r) ==
    \/ run'[r] = run[r]
    \/ run[r] \notin RUN_TERMINAL /\ run'[r] \in {"RUNNING", "CANCELLING"}
    \/ run[r] \notin RUN_TERMINAL /\ run'[r] \notin RUN_TERMINAL /\ NoLease(r)
    \/ run[r] \notin RUN_TERMINAL /\ run'[r] = "INFRA_ERROR" /\ NoLease(r)

\* A step that leaves the attempts alone and changes every run as RunKept says
\* keeps what the invariant says of the rows.
LEMMA RowsKept ==
    ASSUME Typed, LeaseHasLiveRun, VerdictIsBacked, RepositoryTypeOK',
           UNCHANGED <<made, attempt>>, \A r \in Runs : RunKept(r)
    PROVE  LeaseHasLiveRun' /\ VerdictIsBacked'
  <1>1. ASSUME NEW a \in Attempts, Leased(a)' PROVE run'[a[1]] \in {"RUNNING", "CANCELLING"}
    <2>1. Leased(a) /\ run[a[1]] \in {"RUNNING", "CANCELLING"}
      BY <1>1 DEF Leased, LeaseHasLiveRun
    <2>2. PICK r \in Runs, n \in 1..AttemptBound : a = <<r, n>>
      BY DEF Attempts
    <2>3. ~NoLease(r)
      BY <2>1, <2>2 DEF NoLease
    <2> QED  BY <2>1, <2>2, <2>3 DEF RunKept, RUN_TERMINAL
  <1>2. LeaseHasLiveRun'
    BY <1>1 DEF LeaseHasLiveRun
  <1>3. ASSUME NEW r \in Runs, Terminal(r)', run'[r] # "INFRA_ERROR"
        PROVE  (made[r] > 0 /\ attempt[<<r, made[r]>>] = run[r])'
    BY <1>3 DEF RunKept, VerdictIsBacked, Terminal, RUN_TERMINAL
  <1>4. ASSUME NEW r \in Runs, NEW n \in 1..AttemptBound, attempt'[<<r, n>>] = "LOST"
        PROVE  run'[r] = "INFRA_ERROR"
    <2>1. run[r] = "INFRA_ERROR"
      BY <1>4 DEF VerdictIsBacked
    <2> QED  BY <2>1 DEF RunKept, RUN_TERMINAL
  <1> QED  BY <1>2, <1>3, <1>4 DEF VerdictIsBacked

\* Attempts that do not change are undisturbed.
LEMMA UnchangedUndisturbed ==
    ASSUME UNCHANGED <<made, attempt>>, NEW r \in Runs
    PROVE  Undisturbed(r)
  BY DEF Undisturbed

\* A step of worker w that writes at most the state of its own run.
LEMMA QuietWorkerStep ==
    ASSUME Typed, LocalInv, NEW w \in Workers, job[w] \in Runs,
           WorkerOK(w)', LeaseHasLiveRun', VerdictIsBacked',
           UNCHANGED <<made, attempt, job, todo, snapshot, submitted, queue>>,
           \A r \in Runs : r # job[w] => run'[r] = run[r],
           run'[job[w]] \in {"CREATED", "QUEUED"} => run'[job[w]] = run[job[w]],
           \A v \in Workers \ {w} :
               pc'[v] = pc[v] /\ number'[v] = number[v] /\ result'[v] = result[v]
    PROVE  LocalInv'
  <1>1. \A r \in Runs : NoLease(r) => NoLease(r)'
    BY UnchangedUndisturbed, NoLeaseKept
  <1>2. NoDoubleExecution'
    BY DEF LocalInv, NoDoubleExecution
  <1>3. WorkerInv'
    <2> SUFFICES ASSUME NEW v \in Workers, v # w PROVE WorkerOK(v)'
      BY DEF WorkerInv
    <2> QED  BY StandingWorker, UnchangedUndisturbed DEF LocalInv, WorkerInv
  <1>4. PoolInv'
    BY <1>1 DEF LocalInv, PoolInv, Typed, TypeOK
  <1>5. job[w] \in submitted
    BY ManagerAssumption DEF LocalInv, PoolInv
  <1>6. TodoInv'
    <2>1. ASSUME NEW p \in Processes, NEW r \in todo[p]
          PROVE  (run[r] \in {"QUEUED", "CANCELLING"} /\ NoLease(r) /\ r \notin snapshot \cup submitted)'
      <3>1. r \in Runs /\ r # job[w]
        BY <1>5, <2>1 DEF LocalInv, TodoInv, Typed, TypeOK, CoordinatorTypeOK
      <3> QED  BY <1>1, <2>1, <3>1 DEF LocalInv, TodoInv
    <2> QED  BY <2>1 DEF LocalInv, TodoInv
  <1>7. LeaseIsLast'
    BY DEF LocalInv, LeaseIsLast, Leased
  <1> QED  BY <1>2, <1>3, <1>4, <1>6, <1>7 DEF LocalInv

\* A step of worker w that moves its own live attempt along.
LEMMA OwnAttemptStep ==
    ASSUME Typed, LocalInv, NEW w \in Workers, job[w] \in Runs, Mine(w) \in Attempts,
           Leased(Mine(w)), WorkerOK(w)',
           NEW s \in AttemptState \ {"LOST"}, attempt' = [attempt EXCEPT ![Mine(w)] = s],
           UNCHANGED <<run, made, job, number, result, todo, snapshot, submitted, queue>>,
           \A v \in Workers \ {w} : pc'[v] = pc[v]
    PROVE  LocalInv'
  <1>1. job[w] \in submitted \ queue
    BY ManagerAssumption DEF LocalInv, PoolInv
  <1>2. \A a \in Attempts : a # Mine(w) => attempt'[a] = attempt[a]
    BY DEF Typed, TypeOK, RepositoryTypeOK
  <1>3. \A r \in Runs : r # job[w] => Undisturbed(r)
    BY <1>2, AttemptPair DEF Undisturbed, Mine
  <1>4. \A r \in Runs : r # job[w] /\ NoLease(r) => NoLease(r)'
    BY <1>3, NoLeaseKept
  <1>5. run[job[w]] \in {"RUNNING", "CANCELLING"}
    BY DEF LocalInv, LeaseHasLiveRun, Mine
  <1>6. LeaseHasLiveRun'
    <2> SUFFICES ASSUME NEW a \in Attempts, Leased(a)' PROVE run'[a[1]] \in {"RUNNING", "CANCELLING"}
      BY DEF LeaseHasLiveRun
    <2> QED  BY <1>2, <1>5 DEF LocalInv, LeaseHasLiveRun, Leased, Mine
  <1>7. VerdictIsBacked'
    <2>1. ASSUME NEW r \in Runs, Terminal(r)', run'[r] # "INFRA_ERROR"
          PROVE  (made[r] > 0 /\ attempt[<<r, made[r]>>] = run[r])'
      <3>1. r # job[w] /\ Terminal(r)
        BY <1>5, <2>1 DEF Terminal, RUN_TERMINAL
      <3>2. made[r] > 0 /\ attempt[<<r, made[r]>>] = run[r]
        BY <2>1, <3>1 DEF LocalInv, VerdictIsBacked
      <3>3. made[r] \in 1..AttemptBound
        BY <3>2, RepositoryAssumption DEF Typed, TypeOK, RepositoryTypeOK
      <3>4. attempt'[<<r, made[r]>>] = attempt[<<r, made[r]>>]
        BY <1>2, <3>1, <3>3, AttemptPair DEF Mine
      <3> QED  BY <3>2, <3>4
    <2>2. ASSUME NEW r \in Runs, NEW n \in 1..AttemptBound, attempt'[<<r, n>>] = "LOST"
          PROVE  run'[r] = "INFRA_ERROR"
      <3>1. <<r, n>> \in Attempts
        BY AttemptPair
      <3>2. attempt[<<r, n>>] = "LOST"
        BY <1>2, <2>2, <3>1 DEF Typed, TypeOK, RepositoryTypeOK
      <3> QED  BY <3>2 DEF LocalInv, VerdictIsBacked
    <2> QED  BY <2>1, <2>2 DEF VerdictIsBacked
  <1>8. NoDoubleExecution'
    BY DEF LocalInv, NoDoubleExecution
  <1>9. WorkerInv'
    <2> SUFFICES ASSUME NEW v \in Workers, v # w PROVE WorkerOK(v)'
      BY DEF WorkerInv
    <2>1. job[v] \in Runs => job[v] # job[w]
      BY ManagerAssumption DEF LocalInv, NoDoubleExecution
    <2> QED  BY <1>3, <2>1, StandingWorker DEF LocalInv, WorkerInv
  <1>10. PoolInv'
    <2>1. \A r \in queue \cup (snapshot \ submitted) : r \in Runs /\ r # job[w]
      BY <1>1 DEF Typed, TypeOK
    <2> QED  BY <1>4, <2>1 DEF LocalInv, PoolInv
  <1>11. TodoInv'
    <2>1. \A p \in Processes : \A r \in todo[p] : r \in Runs /\ r # job[w]
      BY <1>1 DEF LocalInv, TodoInv, Typed, TypeOK, CoordinatorTypeOK
    <2> QED  BY <1>4, <2>1 DEF LocalInv, TodoInv
  <1>12. LeaseIsLast'
    <2> SUFFICES ASSUME NEW a \in Attempts, Leased(a)' PROVE a[2] = made[a[1]]
      BY DEF LeaseIsLast
    <2>1. Leased(a)
      BY <1>2 DEF Leased
    <2> QED  BY <2>1 DEF LocalInv, LeaseIsLast
  <1> QED  BY <1>6, <1>7, <1>8, <1>9, <1>10, <1>11, <1>12 DEF LocalInv

-----------------------------------------------------------------------------
(* The steps of RunnerManager.execute.                                     *)

\* What a worker knows inside execute, once it has begun its attempt.
LEMMA InsideFacts ==
    ASSUME Typed, LocalInv, NEW w \in Workers, pc[w] \notin Outside \cup {"idle"}
    PROVE  /\ job[w] \in Runs /\ number[w] \in 1..AttemptBound /\ Mine(w) \in Attempts
           /\ number[w] = made[job[w]]
           /\ attempt[Mine(w)] \in OwnAttempt(w)
           /\ \A n \in 1..AttemptBound : n # number[w] => ~Leased(<<job[w], n>>)
           /\ ~Leased(Mine(w)) => NoLease(job[w])
           /\ Verdict(w) \notin ATTEMPT_LEASED \cup {"LOST"}
  <1>1. job[w] \in Runs
    BY DEF Typed, Busy
  <1>2. /\ number[w] = made[job[w]] /\ number[w] > 0
        /\ attempt[Mine(w)] \in OwnAttempt(w)
        /\ \A n \in 1..AttemptBound : n # number[w] => ~Leased(<<job[w], n>>)
    BY DEF LocalInv, WorkerInv, WorkerOK
  <1>3. number[w] \in 1..AttemptBound
    <2>1. number[w] \in 0..AttemptBound
      BY DEF Typed, TypeOK, ManagerTypeOK
    <2>2. number[w] > 0
      BY <1>2
    <2> QED  BY <2>1, <2>2, RepositoryAssumption
  <1>4. Mine(w) \in Attempts
    BY <1>1, <1>3 DEF Mine, Attempts
  <1>5. ~Leased(Mine(w)) => NoLease(job[w])
    BY <1>2 DEF NoLease, Mine
  <1>6. Verdict(w) \notin ATTEMPT_LEASED \cup {"LOST"}
    BY DEF Typed, TypeOK, ManagerTypeOK, Verdict, Result, ResultOutcome, RUN_TERMINAL, ATTEMPT_LEASED
  <1> QED  BY <1>1, <1>2, <1>3, <1>4, <1>5, <1>6

\* What every step of execute leaves alone.
LEMMA ManagerFrame ==
    ASSUME Typed, NEW w \in Workers, ManagerStep(w) \/ Heartbeat(w), UNCHANGED serviceVars
    PROVE  /\ UNCHANGED <<todo, refill, job, snapshot, submitted, queue>>
           /\ job[w] \in Runs
           /\ \A v \in Workers \ {w} :
                 pc'[v] = pc[v] /\ number'[v] = number[v] /\ result'[v] = result[v]
  <1>1. pc[w] # "idle" /\ UNCHANGED <<todo, refill, job>>
    BY DEF ManagerStep, Heartbeat, Load, Begin, Prepare, Launch, Advance,
       ExecutorReturns, CheckCancel, CheckLost, Collect, Complete, Finish, Decide,
       RetryWait, MoveRun, GiveUp, MarkCancelling, Settle, At, workerVars
  <1>2. UNCHANGED pc \/ \E l : pc' = [pc EXCEPT ![w] = l]
    BY DEF ManagerStep, Heartbeat, Load, Begin, Prepare, Launch, Advance,
       ExecutorReturns, CheckCancel, CheckLost, Collect, Complete, Finish, Decide,
       RetryWait, MoveRun, GiveUp, MarkCancelling, Settle, Goto
  <1>3. UNCHANGED number \/ \E l : number' = [number EXCEPT ![w] = l]
    BY DEF ManagerStep, Heartbeat, Load, Begin, Prepare, Launch, Advance,
       ExecutorReturns, CheckCancel, CheckLost, Collect, Complete, Finish, Decide,
       RetryWait, MoveRun, GiveUp, MarkCancelling, Settle, workerVars
  <1>4. UNCHANGED result \/ \E l : result' = [result EXCEPT ![w] = l]
    BY DEF ManagerStep, Heartbeat, Load, Begin, Prepare, Launch, Advance,
       ExecutorReturns, CheckCancel, CheckLost, Collect, Complete, Finish, Decide,
       RetryWait, MoveRun, GiveUp, MarkCancelling, Settle, workerVars
  <1> QED
    BY <1>1, <1>2, <1>3, <1>4, WorkersAreProcesses
    DEF serviceVars, Typed, TypeOK, ManagerTypeOK, Busy

\* A step of execute that writes no state column, for the worker itself.
LEMMA StillWorkerStep ==
    ASSUME Typed, Typed', LocalInv, NEW w \in Workers, ManagerStep(w) \/ Heartbeat(w),
           UNCHANGED serviceVars, UNCHANGED <<run, made, attempt>>, WorkerOK(w)'
    PROVE  LocalInv'
  <1>1. LeaseHasLiveRun' /\ VerdictIsBacked'
    BY RowsKept DEF LocalInv, RunKept, Typed, TypeOK
  <1> QED
    BY <1>1, ManagerFrame, QuietWorkerStep

\* Labels before begin_attempt and after an error.
LEMMA LoadInv ==
    ASSUME Typed, Typed', LocalInv, NEW w \in Workers, Load(w), UNCHANGED serviceVars
    PROVE  LocalInv'
  <1>1. WorkerOK(w)'
    <2>1. NoLease(job[w]) /\ UNCHANGED <<repoVars, workerVars>> /\ job[w] # NoRun
      BY DEF LocalInv, WorkerInv, WorkerOK, Load, At, Outside
    <2>2. pc'[w] \in {"begin", "failed"}
      BY WorkersAreProcesses DEF Load, Goto, Typed, TypeOK, ManagerTypeOK
    <2>3. NoLease(job[w])'
      BY <2>1 DEF NoLease, Leased, repoVars, workerVars
    <2> QED  BY <2>1, <2>2, <2>3 DEF WorkerOK, Outside, workerVars
  <1> QED  BY <1>1, StillWorkerStep DEF ManagerStep, Load, repoVars

\* begin_attempt inserts the only live attempt of the worker's run.
LEMMA BeginInv ==
    ASSUME Typed, Typed', LocalInv, NEW w \in Workers, Begin(w), UNCHANGED serviceVars
    PROVE  LocalInv'
  <1> DEFINE r == job[w]
             m == made[r] + 1
  <1>1. NoLease(r) /\ r \in Runs /\ r # NoRun
    BY DEF LocalInv, WorkerInv, WorkerOK, Begin, At, Outside, Typed, Busy
  <1>2. CASE ~CanTransition(r, "RUNNING") /\ Goto(w, "failed") /\ UNCHANGED <<repoVars, number>>
    <2>1. pc'[w] = "failed" /\ UNCHANGED <<job, result>>
      BY <1>2, WorkersAreProcesses DEF Begin, Goto, Typed, TypeOK, ManagerTypeOK
    <2>2. NoLease(r)'
      BY <1>1, <1>2, <2>1 DEF NoLease, Leased, repoVars
    <2>3. WorkerOK(w)'
      BY <1>1, <2>1, <2>2 DEF WorkerOK, Outside
    <2> QED  BY <1>2, <2>3, StillWorkerStep DEF ManagerStep, repoVars
  <1>3. CASE BeginAttempt(r) /\ number' = [number EXCEPT ![w] = m] /\ Goto(w, "prepare")
    <2>1. m \in 1..AttemptBound /\ <<r, m>> \in Attempts
      BY <1>1, <1>3, BeginAttemptType, AttemptPair DEF Typed, TypeOK
    <2>2. run[r] = "DISPATCHING"
      BY <1>1, <1>3 DEF BeginAttempt, CanTransition, RUN_TRANSITIONS
    <2>3. /\ run'[r] = "RUNNING" /\ made'[r] = m /\ attempt'[<<r, m>>] = "CLAIMED"
          /\ \A q \in Runs : q # r => run'[q] = run[q] /\ made'[q] = made[q]
          /\ \A a \in Attempts : a # <<r, m>> => attempt'[a] = attempt[a]
      BY <1>1, <1>3, <2>1 DEF BeginAttempt, Typed, TypeOK, RepositoryTypeOK
    <2>4. /\ pc'[w] = "prepare" /\ number'[w] = m
          /\ UNCHANGED <<job, todo, snapshot, submitted, queue, result>>
          /\ \A v \in Workers \ {w} : pc'[v] = pc[v] /\ number'[v] = number[v]
      BY <1>3, WorkersAreProcesses
      DEF Begin, At, Goto, serviceVars, Typed, TypeOK, ManagerTypeOK
    <2>5. \A q \in Runs : q # r => Undisturbed(q)
      BY <2>3, AttemptPair DEF Undisturbed
    <2>6. \A q \in Runs : q # r /\ NoLease(q) => NoLease(q)'
      BY <2>5, NoLeaseKept
    <2>7. ASSUME NEW n \in 1..AttemptBound, n # m PROVE ~Leased(<<r, n>>)'
      <3>1. <<r, n>> \in Attempts /\ <<r, n>> # <<r, m>>
        BY <1>1, <2>7, AttemptPair
      <3>2. attempt'[<<r, n>>] = attempt[<<r, n>>]
        BY <2>3, <3>1
      <3> QED  BY <1>1, <2>4, <3>2 DEF NoLease, Leased
    <2>8. r \in submitted \ queue
      BY <1>1 DEF LocalInv, PoolInv
    <2>9. LeaseHasLiveRun'
      <3> SUFFICES ASSUME NEW a \in Attempts, Leased(a)' PROVE run'[a[1]] \in {"RUNNING", "CANCELLING"}
        BY DEF LeaseHasLiveRun
      <3>1. CASE a[1] = r
        BY <2>3, <3>1
      <3>2. CASE a[1] # r
        <4>1. Leased(a) /\ a[1] \in Runs
          BY <2>3, <3>2 DEF Leased, Attempts
        <4> QED  BY <2>3, <3>2, <4>1 DEF LocalInv, LeaseHasLiveRun
      <3> QED  BY <3>1, <3>2
    <2>10. VerdictIsBacked'
      <3>1. ASSUME NEW q \in Runs, Terminal(q)', run'[q] # "INFRA_ERROR"
            PROVE  (made[q] > 0 /\ attempt[<<q, made[q]>>] = run[q])'
        <4>1. q # r /\ Terminal(q) /\ run[q] # "INFRA_ERROR"
          BY <2>3, <3>1 DEF Terminal, RUN_TERMINAL
        <4>2. made[q] > 0 /\ attempt[<<q, made[q]>>] = run[q]
          BY <4>1 DEF LocalInv, VerdictIsBacked
        <4>3. made[q] \in 1..AttemptBound
          BY <4>2, RepositoryAssumption DEF Typed, TypeOK, RepositoryTypeOK
        <4> QED  BY <2>3, <4>1, <4>2, <4>3, AttemptPair
      <3>2. ASSUME NEW q \in Runs, NEW n \in 1..AttemptBound, attempt'[<<q, n>>] = "LOST"
            PROVE  run'[q] = "INFRA_ERROR"
        <4>1. attempt[<<q, n>>] = "LOST"
          BY <2>3, <3>2, AttemptPair
        <4>2. run[q] = "INFRA_ERROR"
          BY <4>1 DEF LocalInv, VerdictIsBacked
        <4> QED  BY <2>2, <2>3, <4>2
      <3> QED  BY <3>1, <3>2 DEF VerdictIsBacked
    <2>11. NoDoubleExecution'
      BY <2>4 DEF LocalInv, NoDoubleExecution
    <2>12. WorkerInv'
      <3>1. WorkerOK(w)'
        <4>1. attempt[Mine(w)]' \in OwnAttempt(w)'
          BY <2>3, <2>4 DEF Mine, OwnAttempt
        <4>2. m > 0
          BY <2>1, RepositoryAssumption
        <4> QED  BY <1>1, <2>3, <2>4, <2>7, <4>1, <4>2 DEF WorkerOK, Outside
      <3>2. ASSUME NEW v \in Workers, v # w PROVE WorkerOK(v)'
        <4>1. job[v] \in Runs => job[v] # r
          BY <3>2, ManagerAssumption DEF LocalInv, NoDoubleExecution
        <4> QED  BY <2>4, <2>5, <3>2, <4>1, StandingWorker DEF LocalInv, WorkerInv
      <3> QED  BY <3>1, <3>2 DEF WorkerInv
    <2>13. PoolInv'
      <3>1. \A q \in queue \cup (snapshot \ submitted) : q \in Runs /\ q # r
        BY <2>8 DEF Typed, TypeOK
      <3>2. \A q \in snapshot \cup submitted : run'[q] \notin {"CREATED", "QUEUED"}
        BY <2>3 DEF LocalInv, PoolInv, Typed, TypeOK
      <3> QED  BY <2>4, <2>6, <3>1, <3>2 DEF LocalInv, PoolInv
    <2>14. TodoInv'
      <3>1. \A p \in Processes : \A q \in todo[p] : q \in Runs /\ q # r
        BY <2>8 DEF LocalInv, TodoInv, Typed, TypeOK, CoordinatorTypeOK
      <3> QED  BY <2>3, <2>4, <2>6, <3>1 DEF LocalInv, TodoInv
    <2>15. LeaseIsLast'
      <3> SUFFICES ASSUME NEW a \in Attempts, Leased(a)' PROVE a[2] = made'[a[1]]
        BY DEF LeaseIsLast
      <3>1. PICK q \in Runs, n \in 1..AttemptBound : a = <<q, n>>
        BY DEF Attempts
      <3>2. CASE q = r
        BY <2>3, <2>4, <2>7, <3>1, <3>2
      <3>3. CASE q # r
        <4>1. Leased(a) /\ made'[q] = made[q]
          BY <2>3, <3>1, <3>3 DEF Leased
        <4> QED  BY <3>1, <4>1 DEF LocalInv, LeaseIsLast
      <3> QED  BY <3>2, <3>3
    <2> QED  BY <2>9, <2>10, <2>11, <2>12, <2>13, <2>14, <2>15 DEF LocalInv
  <1> QED  BY <1>2, <1>3 DEF Begin

\* PREPARING and RUNNING: a refused transition means the attempt was reaped.
LEMMA AdvanceInv ==
    ASSUME Typed, Typed', LocalInv, NEW w \in Workers, Prepare(w) \/ Launch(w),
           UNCHANGED serviceVars
    PROVE  LocalInv'
  <1>1. /\ pc[w] \in {"prepare", "launch"}
        /\ UNCHANGED <<job, number, result, todo, refill, snapshot, submitted, queue>>
    BY DEF Prepare, Launch, Advance, At, workerVars, serviceVars
  <1>2. /\ job[w] \in Runs /\ number[w] \in 1..AttemptBound /\ Mine(w) \in Attempts
        /\ number[w] = made[job[w]]
        /\ attempt[Mine(w)] \in OwnAttempt(w)
        /\ \A n \in 1..AttemptBound : n # number[w] => ~Leased(<<job[w], n>>)
        /\ ~Leased(Mine(w)) => NoLease(job[w])
    BY <1>1, InsideFacts DEF Outside
  <1>3. job[w] # NoRun /\ number[w] > 0
    BY <1>2, ManagerAssumption, RepositoryAssumption
  <1>4. ASSUME Goto(w, "failed"), UNCHANGED repoVars, ~Leased(Mine(w)) PROVE LocalInv'
    <2>1. pc'[w] = "failed"
      BY <1>4, WorkersAreProcesses DEF Goto, Typed, TypeOK, ManagerTypeOK
    <2>2. NoLease(job[w])'
      BY <1>1, <1>2, <1>4 DEF NoLease, Leased, repoVars
    <2>3. WorkerOK(w)'
      BY <1>1, <1>3, <2>1, <2>2 DEF WorkerOK, Outside
    <2> QED  BY <1>4, <2>3, StillWorkerStep DEF ManagerStep, repoVars
  <1>5. ASSUME NEW s \in {"PREPARING", "RUNNING"}, NEW l \in {"launch", "execute"},
               TransitionAttempt(Mine(w), s), Goto(w, l), Leased(Mine(w)),
               l = "launch" => s = "PREPARING", l = "execute" => s = "RUNNING"
        PROVE  LocalInv'
    <2>1. pc'[w] = l /\ \A v \in Workers \ {w} : pc'[v] = pc[v]
      BY <1>5, WorkersAreProcesses DEF Goto, Typed, TypeOK, ManagerTypeOK
    <2>2. attempt' = [attempt EXCEPT ![Mine(w)] = s] /\ UNCHANGED <<run, made>>
      BY <1>5 DEF TransitionAttempt
    <2>3. attempt'[Mine(w)] = s /\ \A a \in Attempts : a # Mine(w) => attempt'[a] = attempt[a]
      BY <1>2, <2>2 DEF Typed, TypeOK, RepositoryTypeOK
    <2>4. attempt[Mine(w)]' \in OwnAttempt(w)'
      BY <1>1, <1>5, <2>1, <2>3 DEF OwnAttempt, Mine
    <2>5. ASSUME NEW n \in 1..AttemptBound, n # number[w] PROVE ~Leased(<<job[w], n>>)'
      <3>1. <<job[w], n>> \in Attempts /\ <<job[w], n>> # Mine(w)
        BY <1>2, <2>5, AttemptPair DEF Mine
      <3>2. attempt'[<<job[w], n>>] = attempt[<<job[w], n>>]
        BY <2>3, <3>1
      <3> QED  BY <1>1, <1>2, <2>5, <3>2 DEF Leased
    <2>6. WorkerOK(w)'
      BY <1>1, <1>2, <1>3, <1>5, <2>1, <2>2, <2>4, <2>5 DEF WorkerOK, Outside
    <2>7. s \in AttemptState \ {"LOST"}
      BY DEF AttemptState, ATTEMPT_LEASED
    <2> QED  BY <1>1, <1>2, <1>5, <2>1, <2>2, <2>6, <2>7, OwnAttemptStep
  <1>6. CASE Prepare(w)
    <2>1. attempt[Mine(w)] \in {"CLAIMED", "LOST"}
      BY <1>2, <1>6 DEF Prepare, Advance, At, OwnAttempt
    <2>2. CanTransitionAttempt(Mine(w), "PREPARING") <=> Leased(Mine(w))
      BY <2>1 DEF CanTransitionAttempt, ATTEMPT_TRANSITIONS, Leased, ATTEMPT_LEASED
    <2> QED
      BY <1>4, <1>5, <1>6, <2>2 DEF Prepare, Advance, TransitionAttempt
  <1>7. CASE Launch(w)
    <2>1. attempt[Mine(w)] \in {"PREPARING", "LOST"}
      BY <1>2, <1>7 DEF Launch, Advance, At, OwnAttempt
    <2>2. CanTransitionAttempt(Mine(w), "RUNNING") <=> Leased(Mine(w))
      BY <2>1 DEF CanTransitionAttempt, ATTEMPT_TRANSITIONS, Leased, ATTEMPT_LEASED
    <2> QED
      BY <1>4, <1>5, <1>7, <2>2 DEF Launch, Advance, TransitionAttempt
  <1> QED  BY <1>6, <1>7

\* A worker that leaves the attempt, or never had one, keeps its invariant.
LEMMA OutsideOK ==
    ASSUME NEW w \in Workers, job[w] \in Runs, NoLease(job[w]), UNCHANGED attempt,
           job'[w] = job[w], pc'[w] \in Outside
    PROVE  WorkerOK(w)'
  <1>1. NoLease(job[w])'
    BY DEF NoLease, Leased
  <1>2. job[w] # NoRun
    BY ManagerAssumption
  <1> QED  BY <1>1, <1>2 DEF WorkerOK, Outside

\* A worker that goes on with its attempt keeps its invariant when the rows of
\* its run are as its next label expects.
LEMMA InsideOK ==
    ASSUME Typed, LocalInv, NEW w \in Workers, pc[w] \notin Outside \cup {"idle"},
           UNCHANGED <<made, attempt, number, job>>,
           pc'[w] \in {"execute", "check_cancel", "check_lost", "collect", "complete", "decide",
                       "mark_cancelling", "settle", "give_up"},
           attempt[Mine(w)] \in OwnAttempt(w)',
           result'[w] = "NONE" => pc'[w] = "execute"
    PROVE  WorkerOK(w)'
  <1>1. /\ job[w] \in Runs /\ number[w] \in 1..AttemptBound
        /\ number[w] = made[job[w]]
        /\ \A n \in 1..AttemptBound : n # number[w] => ~Leased(<<job[w], n>>)
    BY InsideFacts
  <1>2. job[w] # NoRun /\ number[w] > 0
    BY <1>1, ManagerAssumption, RepositoryAssumption
  <1>3. attempt[Mine(w)]' \in OwnAttempt(w)'
    BY DEF Mine
  <1>4. \A n \in 1..AttemptBound : n # number[w] => ~Leased(<<job[w], n>>)'
    BY <1>1 DEF Leased
  <1> QED  BY <1>1, <1>2, <1>3, <1>4 DEF WorkerOK, Outside

\* From the heartbeats to the check for a lost attempt no row's state changes.
LEMMA ReturnedInv ==
    ASSUME Typed, Typed', LocalInv, NEW w \in Workers, UNCHANGED serviceVars,
           Heartbeat(w) \/ ExecutorReturns(w) \/ CheckCancel(w) \/ CheckLost(w)
    PROVE  LocalInv'
  <1>1. UNCHANGED <<run, made, attempt, number, job>>
    BY DEF Heartbeat, RenewAttemptLease, ExecutorReturns, CheckCancel, CheckLost, repoVars, workerVars
  <1>2. pc[w] \in {"execute", "check_cancel", "check_lost"}
    BY DEF Heartbeat, ExecutorReturns, CheckCancel, CheckLost, At
  <1>3. /\ job[w] \in Runs /\ attempt[Mine(w)] \in OwnAttempt(w)
        /\ ~Leased(Mine(w)) => NoLease(job[w])
    BY <1>2, InsideFacts DEF Outside
  <1>4. attempt[Mine(w)] \in {"RUNNING", "LOST"}
    BY <1>2, <1>3 DEF OwnAttempt
  <1>5. CASE CheckLost(w) /\ attempt[Mine(w)] = "LOST"
    <2>1. pc'[w] = "refilled"
      BY <1>5, WorkersAreProcesses DEF CheckLost, Goto, Typed, TypeOK, ManagerTypeOK
    <2>2. NoLease(job[w])
      BY <1>3, <1>5 DEF Leased, ATTEMPT_LEASED
    <2>3. WorkerOK(w)'
      BY <1>1, <1>3, <2>1, <2>2, OutsideOK DEF Outside
    <2> QED  BY <1>1, <2>3, StillWorkerStep, <1>5 DEF ManagerStep
  <1>6. CASE ~(CheckLost(w) /\ attempt[Mine(w)] = "LOST")
    <2>1. pc'[w] \in {"execute", "check_cancel", "check_lost", "collect"}
      BY <1>2, <1>6, WorkersAreProcesses
      DEF Heartbeat, ExecutorReturns, CheckCancel, CheckLost, At, Goto, Typed, TypeOK, ManagerTypeOK
    <2>2. result'[w] = "NONE" => pc'[w] = "execute"
      <3>1. pc[w] # "execute" => result[w] # "NONE"
        BY <1>2 DEF LocalInv, WorkerInv, WorkerOK
      <3>2. CASE Heartbeat(w)
        BY <3>2 DEF Heartbeat, At
      <3>3. CASE ExecutorReturns(w)
        BY <3>3, ManagerAssumption DEF ExecutorReturns, Typed, TypeOK, ManagerTypeOK
      <3>4. CASE CheckCancel(w)
        BY <3>1, <3>4 DEF CheckCancel, At, Typed, TypeOK, ManagerTypeOK
      <3>5. CASE CheckLost(w)
        BY <3>1, <3>5 DEF CheckLost, At, workerVars
      <3> QED  BY <3>2, <3>3, <3>4, <3>5
    <2>3. attempt[Mine(w)] \in OwnAttempt(w)'
      BY <1>4, <2>1 DEF OwnAttempt
    <2>4. WorkerOK(w)'
      BY <1>1, <1>2, <2>1, <2>2, <2>3, InsideOK DEF Outside
    <2> QED  BY <1>1, <2>4, StillWorkerStep DEF ManagerStep
  <1> QED  BY <1>5, <1>6

\* COLLECTING and the result: the attempt was not reaped and the table allows
\* the move, or it was and the worker returns.
LEMMA FinishInv ==
    ASSUME Typed, Typed', LocalInv, NEW w \in Workers, Collect(w) \/ Complete(w),
           UNCHANGED serviceVars
    PROVE  LocalInv'
  <1> DEFINE s == IF pc[w] = "collect" THEN "COLLECTING" ELSE Verdict(w)
             l == IF pc[w] = "collect" THEN "complete" ELSE "decide"
  <1>1. /\ pc[w] \in {"collect", "complete"}
        /\ UNCHANGED <<job, number, result, todo, refill, snapshot, submitted, queue>>
    BY DEF Collect, Complete, Finish, At, workerVars, serviceVars
  <1>2. /\ job[w] \in Runs /\ number[w] \in 1..AttemptBound /\ Mine(w) \in Attempts
        /\ number[w] = made[job[w]]
        /\ attempt[Mine(w)] \in OwnAttempt(w)
        /\ \A n \in 1..AttemptBound : n # number[w] => ~Leased(<<job[w], n>>)
        /\ ~Leased(Mine(w)) => NoLease(job[w])
        /\ Verdict(w) \notin ATTEMPT_LEASED \cup {"LOST"}
    BY <1>1, InsideFacts DEF Outside
  <1>3. job[w] # NoRun /\ number[w] > 0
    BY <1>2, ManagerAssumption, RepositoryAssumption
  <1>4. attempt[Mine(w)] \in {IF pc[w] = "collect" THEN "RUNNING" ELSE "COLLECTING", "LOST"}
    BY <1>1, <1>2 DEF OwnAttempt
  <1>5. Verdict(w) \in RUN_TERMINAL
    BY <1>1 DEF LocalInv, WorkerInv, WorkerOK, Typed, TypeOK, ManagerTypeOK, Verdict, Result,
      ResultOutcome, RUN_TERMINAL
  <1>6. \/ TransitionAttempt(Mine(w), s) /\ Goto(w, l)
        \/ /\ ~CanTransitionAttempt(Mine(w), s)
           /\ Goto(w, IF attempt[Mine(w)] = "LOST" THEN "refilled" ELSE "failed")
           /\ UNCHANGED repoVars
    BY <1>1 DEF Collect, Complete, CompleteAttempt, Finish, At
  <1>7. CASE attempt[Mine(w)] = "LOST"
    <2>1. ~CanTransitionAttempt(Mine(w), s)
      BY <1>7 DEF CanTransitionAttempt, ATTEMPT_TRANSITIONS
    <2>2. pc'[w] = "refilled" /\ UNCHANGED repoVars
      BY <1>6, <1>7, <2>1, WorkersAreProcesses
      DEF TransitionAttempt, Goto, Typed, TypeOK, ManagerTypeOK
    <2>3. NoLease(job[w])
      BY <1>2, <1>7 DEF Leased, ATTEMPT_LEASED
    <2>4. WorkerOK(w)'
      BY <1>1, <1>2, <2>2, <2>3, OutsideOK DEF Outside, repoVars
    <2> QED  BY <2>2, <2>4, StillWorkerStep DEF ManagerStep, repoVars
  <1>8. CASE attempt[Mine(w)] # "LOST"
    <2>1. Leased(Mine(w)) /\ CanTransitionAttempt(Mine(w), s)
      BY <1>1, <1>4, <1>5, <1>8
      DEF CanTransitionAttempt, ATTEMPT_TRANSITIONS, Leased, ATTEMPT_LEASED, ATTEMPT_TERMINAL
    <2>2. attempt' = [attempt EXCEPT ![Mine(w)] = s] /\ UNCHANGED <<run, made>> /\ Goto(w, l)
      BY <1>6, <2>1 DEF TransitionAttempt
    <2>3. attempt'[Mine(w)] = s /\ \A a \in Attempts : a # Mine(w) => attempt'[a] = attempt[a]
      BY <1>2, <2>2 DEF Typed, TypeOK, RepositoryTypeOK
    <2>4. pc'[w] = l /\ \A v \in Workers \ {w} : pc'[v] = pc[v]
      BY <2>2, WorkersAreProcesses DEF Goto, Typed, TypeOK, ManagerTypeOK
    <2>5. attempt[Mine(w)]' \in OwnAttempt(w)'
      BY <1>1, <2>3, <2>4 DEF OwnAttempt, Mine, Verdict
    <2>6. ASSUME NEW n \in 1..AttemptBound, n # number[w] PROVE ~Leased(<<job[w], n>>)'
      <3>1. <<job[w], n>> \in Attempts /\ <<job[w], n>> # Mine(w)
        BY <1>2, <2>6, AttemptPair DEF Mine
      <3>2. attempt'[<<job[w], n>>] = attempt[<<job[w], n>>]
        BY <2>3, <3>1
      <3> QED  BY <1>1, <1>2, <2>6, <3>2 DEF Leased
    <2>7. result'[w] # "NONE"
      BY <1>1 DEF LocalInv, WorkerInv, WorkerOK
    <2>8. WorkerOK(w)'
      BY <1>1, <1>2, <1>3, <2>2, <2>4, <2>5, <2>6, <2>7 DEF WorkerOK, Outside
    <2>9. s \in AttemptState \ {"LOST"}
      BY <1>5 DEF AttemptState, ATTEMPT_LEASED, ATTEMPT_TERMINAL, RUN_TERMINAL
    <2> QED  BY <1>1, <1>2, <2>1, <2>2, <2>4, <2>8, <2>9, OwnAttemptStep
  <1> QED  BY <1>7, <1>8

\* After complete_attempt: the decision, and the one transition of the run that
\* carries the attempt's verdict over.
LEMMA SettleInv ==
    ASSUME Typed, Typed', LocalInv, NEW w \in Workers, UNCHANGED serviceVars,
           Decide(w) \/ GiveUp(w) \/ MarkCancelling(w) \/ Settle(w)
    PROVE  LocalInv'
  <1>1. pc[w] \in {"decide", "give_up", "mark_cancelling", "settle"} /\ UNCHANGED <<job, number>>
    BY DEF Decide, GiveUp, MarkCancelling, Settle, MoveRun, At, workerVars
  <1>2. /\ job[w] \in Runs /\ number[w] \in 1..AttemptBound
        /\ number[w] = made[job[w]]
        /\ attempt[Mine(w)] \in OwnAttempt(w)
        /\ ~Leased(Mine(w)) => NoLease(job[w])
        /\ Verdict(w) \notin ATTEMPT_LEASED \cup {"LOST"}
    BY <1>1, InsideFacts DEF Outside
  <1>3. attempt[Mine(w)] = Verdict(w)
    BY <1>1, <1>2 DEF OwnAttempt
  <1>4. NoLease(job[w])
    BY <1>2, <1>3 DEF Leased
  <1>5. result[w] # "NONE"
    BY <1>1 DEF LocalInv, WorkerInv, WorkerOK
  <1>6. ASSUME NEW t, Transition(job[w], t)
        PROVE  /\ run[job[w]] \notin RUN_TERMINAL /\ run'[job[w]] = t
               /\ \A r \in Runs : r # job[w] => run'[r] = run[r]
               /\ UNCHANGED <<made, attempt>>
               /\ t \notin {"CREATED", "QUEUED"} => (run'[job[w]] \in {"CREATED", "QUEUED"}
                        => run'[job[w]] = run[job[w]])
    BY <1>2, <1>6 DEF Transition, CanTransition, RUN_TRANSITIONS, RUN_TERMINAL, Typed, TypeOK,
      RepositoryTypeOK
  <1>7. ASSUME UNCHANGED repoVars, UNCHANGED result, pc'[w] \in {"failed", "settle", "mark_cancelling", "give_up"}
        PROVE  LocalInv'
    <2>1. CASE pc'[w] = "failed"
      <3>1. WorkerOK(w)'
        BY <1>1, <1>2, <1>4, <1>7, <2>1, OutsideOK DEF Outside, repoVars
      <3> QED  BY <1>7, <3>1, StillWorkerStep DEF ManagerStep, repoVars
    <2>2. CASE pc'[w] # "failed"
      <3>1. attempt[Mine(w)] \in OwnAttempt(w)'
        BY <1>3, <1>7, <2>2 DEF OwnAttempt, Verdict
      <3>2. WorkerOK(w)'
        BY <1>1, <1>5, <1>7, <2>2, <3>1, InsideOK DEF Outside, repoVars
      <3> QED  BY <1>7, <3>2, StillWorkerStep DEF ManagerStep, repoVars
    <2> QED  BY <2>1, <2>2
  <1>8. CASE Decide(w)
    <2>1. UNCHANGED repoVars /\ UNCHANGED result
      BY <1>8 DEF Decide, workerVars
    <2>2. pc'[w] \in {"settle", "mark_cancelling", "give_up"}
      BY <1>8, WorkersAreProcesses, LocalRunnerAssumption
      DEF Decide, Goto, Typed, TypeOK, ManagerTypeOK
    <2> QED  BY <1>7, <2>1, <2>2
  <1>9. CASE GiveUp(w)
    <2>1. pc'[w] \in {"claim", "failed"}
      BY <1>9, WorkersAreProcesses DEF GiveUp, Goto, Typed, TypeOK, ManagerTypeOK
    <2>2. /\ \A r \in Runs : RunKept(r)
          /\ UNCHANGED <<made, attempt>>
          /\ \A r \in Runs : r # job[w] => run'[r] = run[r]
          /\ run'[job[w]] \in {"CREATED", "QUEUED"} => run'[job[w]] = run[job[w]]
      <3>1. CASE Transition(job[w], "INFRA_ERROR")
        BY <1>4, <1>6, <3>1 DEF RunKept
      <3>2. CASE UNCHANGED repoVars
        BY <3>2 DEF RunKept, repoVars
      <3> QED  BY <1>9, <3>1, <3>2 DEF GiveUp
    <2>3. LeaseHasLiveRun' /\ VerdictIsBacked'
      BY <2>2, RowsKept DEF LocalInv, Typed, TypeOK
    <2>4. WorkerOK(w)'
      BY <1>1, <1>2, <1>4, <2>1, <2>2, OutsideOK DEF Outside
    <2> QED  BY <1>2, <1>9, <2>2, <2>3, <2>4, ManagerFrame, QuietWorkerStep DEF ManagerStep
  <1>10. CASE MarkCancelling(w)
    <2>1. CASE Transition(job[w], "CANCELLING") /\ Goto(w, "settle")
      <3>1. pc'[w] = "settle" /\ UNCHANGED result
        BY <1>10, <2>1, WorkersAreProcesses
        DEF MarkCancelling, workerVars, Goto, Typed, TypeOK, ManagerTypeOK
      <3>2. /\ UNCHANGED <<made, attempt>>
            /\ \A r \in Runs : r # job[w] => run'[r] = run[r]
            /\ run'[job[w]] = "CANCELLING" /\ run[job[w]] \notin RUN_TERMINAL
        BY <1>6, <2>1
      <3>3. LeaseHasLiveRun' /\ VerdictIsBacked'
        BY <3>2, RowsKept DEF RunKept, LocalInv, Typed, TypeOK
      <3>4. attempt[Mine(w)] \in OwnAttempt(w)'
        BY <1>3, <3>1 DEF OwnAttempt, Verdict
      <3>5. WorkerOK(w)'
        BY <1>1, <1>5, <3>1, <3>2, <3>4, InsideOK DEF Outside
      <3> QED  BY <1>2, <1>10, <3>2, <3>3, <3>5, ManagerFrame, QuietWorkerStep DEF ManagerStep
    <2>2. CASE UNCHANGED repoVars /\ Goto(w, IF run[job[w]] = "CANCELLING" THEN "settle" ELSE "failed")
      <3>1. pc'[w] \in {"settle", "failed"} /\ UNCHANGED result
        BY <1>10, <2>2, WorkersAreProcesses
        DEF MarkCancelling, workerVars, Goto, Typed, TypeOK, ManagerTypeOK
      <3> QED  BY <1>7, <2>2, <3>1
    <2> QED  BY <1>10, <2>1, <2>2 DEF MarkCancelling
  <1>11. CASE Settle(w)
    <2>1. CASE Transition(job[w], Verdict(w)) /\ Goto(w, "claim")
      <3>1. pc'[w] = "claim"
        BY <2>1, WorkersAreProcesses DEF Goto, Typed, TypeOK, ManagerTypeOK
      <3>2. /\ UNCHANGED <<made, attempt>>
            /\ \A r \in Runs : r # job[w] => run'[r] = run[r]
            /\ run'[job[w]] = Verdict(w) /\ run[job[w]] \notin RUN_TERMINAL
        BY <1>6, <2>1
      <3>3. Verdict(w) \in RUN_TERMINAL
        BY <1>5 DEF Typed, TypeOK, ManagerTypeOK, Verdict, Result, ResultOutcome, RUN_TERMINAL
      <3>4. LeaseHasLiveRun'
        <4> SUFFICES ASSUME NEW a \in Attempts, Leased(a)' PROVE run'[a[1]] \in {"RUNNING", "CANCELLING"}
          BY DEF LeaseHasLiveRun
        <4>1. PICK r \in Runs, n \in 1..AttemptBound : a = <<r, n>>
          BY DEF Attempts
        <4>2. Leased(a) /\ r # job[w]
          BY <1>4, <3>2, <4>1 DEF Leased, NoLease
        <4> QED  BY <3>2, <4>1, <4>2 DEF LocalInv, LeaseHasLiveRun
      <3>5. VerdictIsBacked'
        <4>1. ASSUME NEW r \in Runs, Terminal(r)', run'[r] # "INFRA_ERROR"
              PROVE  (made[r] > 0 /\ attempt[<<r, made[r]>>] = run[r])'
          <5>1. CASE r = job[w]
            <6>1. made[r] > 0
              BY <1>2, <5>1, RepositoryAssumption
            <6> QED  BY <1>2, <1>3, <3>2, <5>1, <6>1 DEF Mine
          <5>2. CASE r # job[w]
            BY <3>2, <4>1, <5>2 DEF LocalInv, VerdictIsBacked, Terminal
          <5> QED  BY <5>1, <5>2
        <4>2. ASSUME NEW r \in Runs, NEW n \in 1..AttemptBound, attempt'[<<r, n>>] = "LOST"
              PROVE  run'[r] = "INFRA_ERROR"
          <5>1. run[r] = "INFRA_ERROR"
            BY <3>2, <4>2 DEF LocalInv, VerdictIsBacked
          <5>2. r # job[w]
            BY <3>2, <5>1 DEF RUN_TERMINAL
          <5> QED  BY <3>2, <5>1, <5>2
        <4> QED  BY <4>1, <4>2 DEF VerdictIsBacked
      <3>6. WorkerOK(w)'
        BY <1>1, <1>2, <1>4, <3>1, <3>2, OutsideOK DEF Outside
      <3>7. run'[job[w]] \notin {"CREATED", "QUEUED"}
        BY <3>2, <3>3 DEF RUN_TERMINAL
      <3> QED  BY <1>2, <1>11, <3>2, <3>4, <3>5, <3>6, <3>7, ManagerFrame, QuietWorkerStep DEF ManagerStep
    <2>2. CASE UNCHANGED repoVars /\ Goto(w, "failed")
      <3>1. pc'[w] = "failed" /\ UNCHANGED result
        BY <1>11, <2>2, WorkersAreProcesses
        DEF Settle, MoveRun, workerVars, Goto, Typed, TypeOK, ManagerTypeOK
      <3> QED  BY <1>7, <2>2, <3>1
    <2> QED  BY <1>11, <2>1, <2>2 DEF Settle, MoveRun
  <1> QED  BY <1>8, <1>9, <1>10, <1>11

\* Every step of RunnerManager.execute and every heartbeat; without a retry
\* scheduler no worker is ever about to wait for a retry.
LEMMA ManagerInv ==
    ASSUME Typed, Typed', LocalInv, NEW w \in Workers, ManagerStep(w) \/ Heartbeat(w),
           UNCHANGED serviceVars
    PROVE  LocalInv'
  <1>1. ~RetryWait(w)
    BY DEF RetryWait, MoveRun, At, LocalInv, WorkerInv, WorkerOK
  <1> QED
    BY <1>1, LoadInv, BeginInv, AdvanceInv, ReturnedInv, FinishInv, SettleInv DEF ManagerStep

-----------------------------------------------------------------------------
(* The steps around execute.                                               *)

\* Materialising the task, the host lock, the error path and the end of an
\* execution that raised: only the run's own state may change.
LEMMA AroundInv ==
    ASSUME Typed, Typed', LocalInv, NEW w \in Workers,
           Materialize(w) \/ AcquireHostLock(w) \/ Converge(w)
    PROVE  LocalInv'
  <1>1. pc[w] \in {"materialize", "lock", "failed"}
    BY DEF Materialize, AcquireHostLock, Converge, At
  <1>2. job[w] \in Runs /\ NoLease(job[w])
    BY <1>1 DEF LocalInv, WorkerInv, WorkerOK, Outside, Typed, Busy
  <1>3. /\ UNCHANGED <<job, number, todo, snapshot, submitted, queue, made, attempt>>
        /\ \A r \in Runs : RunKept(r)
        /\ \A r \in Runs : r # job[w] => run'[r] = run[r]
        /\ run'[job[w]] \in {"CREATED", "QUEUED"} => run'[job[w]] = run[job[w]]
    <2>1. CASE Materialize(w) \/ AcquireHostLock(w)
      BY <2>1 DEF Materialize, AcquireHostLock, At, workerVars, serviceVars, repoVars, RunKept
    <2>2. CASE Converge(w)
      BY <1>2, <2>2 DEF Converge, At, Transition, Terminal, repoVars, RunKept, Typed, TypeOK,
        RepositoryTypeOK
    <2> QED  BY <2>1, <2>2
  <1>4. pc'[w] \in Outside /\ \A v \in Workers \ {w} : pc'[v] = pc[v]
    BY WorkersAreProcesses
    DEF Materialize, AcquireHostLock, Converge, Goto, Outside, Typed, TypeOK, ManagerTypeOK
  <1>5. \A v \in Workers \ {w} : result'[v] = result[v]
    BY DEF Materialize, AcquireHostLock, Converge, workerVars, Typed, TypeOK, ManagerTypeOK
  <1>6. LeaseHasLiveRun' /\ VerdictIsBacked'
    BY <1>3, RowsKept DEF LocalInv, Typed, TypeOK
  <1>7. WorkerOK(w)'
    BY <1>2, <1>3, <1>4, OutsideOK
  <1> QED  BY <1>2, <1>3, <1>4, <1>5, <1>6, <1>7, QuietWorkerStep

\* A step that leaves the rows alone keeps what LocalInv says of rows.
LEMMA SameRows ==
    ASSUME Typed, Typed', LocalInv, UNCHANGED <<run, made, attempt>>
    PROVE  LeaseHasLiveRun' /\ VerdictIsBacked' /\ LeaseIsLast'
  <1>1. LeaseHasLiveRun' /\ VerdictIsBacked'
    BY RowsKept DEF LocalInv, RunKept, Typed, TypeOK
  <1>2. LeaseIsLast'
    BY DEF LocalInv, LeaseIsLast, Leased
  <1> QED  BY <1>1, <1>2

\* A pool thread takes a queued run, which nobody else has.
LEMMA TakeInv ==
    ASSUME Typed, Typed', LocalInv, NEW w \in Workers, NEW r \in Runs, Take(w, r)
    PROVE  LocalInv'
  <1>1. /\ UNCHANGED <<run, made, attempt, number, result, todo, snapshot, submitted>>
        /\ queue' = queue \ {r} /\ r \in queue /\ pc[w] = "idle"
    BY DEF Take, At, repoVars
  <1>2. /\ job'[w] = r /\ pc'[w] = "materialize"
        /\ \A v \in Workers \ {w} : job'[v] = job[v] /\ pc'[v] = pc[v]
    BY WorkersAreProcesses DEF Take, Goto, Typed, TypeOK, ManagerTypeOK
  <1>3. NoLease(r) /\ r \in submitted /\ r # NoRun
    BY <1>1, ManagerAssumption DEF LocalInv, PoolInv
  <1>4. \A v \in Workers : job[v] # r
    BY <1>1, <1>3 DEF LocalInv, PoolInv
  <1>5. \A q \in Runs : NoLease(q) => NoLease(q)'
    BY <1>1, UnchangedUndisturbed, NoLeaseKept
  <1>6. NoDoubleExecution'
    BY <1>2, <1>4 DEF LocalInv, NoDoubleExecution
  <1>7. WorkerOK(w)'
    BY <1>2, <1>3, <1>5 DEF WorkerOK, Outside
  <1>8. WorkerInv'
    <2> SUFFICES ASSUME NEW v \in Workers, v # w PROVE WorkerOK(v)'
      BY <1>7 DEF WorkerInv
    <2> QED  BY <1>1, <1>2, StandingWorker, UnchangedUndisturbed DEF LocalInv, WorkerInv
  <1>9. PoolInv'
    BY <1>1, <1>2, <1>3, <1>5 DEF LocalInv, PoolInv, Typed, TypeOK
  <1>10. TodoInv'
    BY <1>1, <1>5 DEF LocalInv, TodoInv, Typed, TypeOK, CoordinatorTypeOK
  <1> QED  BY <1>1, <1>6, <1>8, <1>9, <1>10, SameRows DEF LocalInv

\* A finished execution forgets its run, whose attempts are over by then.
LEMMA ReturnInv ==
    ASSUME Typed, Typed', LocalInv, NEW w \in Workers, Return(w)
    PROVE  LocalInv'
  <1>1. /\ pc[w] = "refilled" /\ UNCHANGED <<run, made, attempt, todo, snapshot, queue>>
    BY DEF Return, At, repoVars
  <1>2. job[w] \in Runs /\ NoLease(job[w])
    BY <1>1 DEF LocalInv, WorkerInv, WorkerOK, Outside, Typed, Busy
  <1>3. \A q \in Runs : NoLease(q) => NoLease(q)'
    BY <1>1, UnchangedUndisturbed, NoLeaseKept
  <1>4. CASE Goto(w, "failed") /\ UNCHANGED <<workerVars, submitted>>
    <2>1. pc'[w] = "failed" /\ \A v \in Workers \ {w} : pc'[v] = pc[v]
      BY <1>4, WorkersAreProcesses DEF Goto, Typed, TypeOK, ManagerTypeOK
    <2>2. WorkerOK(w)'
      BY <1>1, <1>2, <1>4, <2>1, OutsideOK DEF Outside, workerVars
    <2> QED  BY <1>1, <1>2, <1>4, <2>1, <2>2, SameRows, QuietWorkerStep DEF workerVars
  <1>5. CASE /\ Goto(w, "idle") /\ submitted' = submitted \ {job[w]}
             /\ job' = [job EXCEPT ![w] = NoRun]
             /\ number' = [number EXCEPT ![w] = 0]
             /\ result' = [result EXCEPT ![w] = "NONE"]
    <2>1. /\ job'[w] = NoRun /\ pc'[w] = "idle"
          /\ \A v \in Workers \ {w} :
                pc'[v] = pc[v] /\ job'[v] = job[v] /\ number'[v] = number[v] /\ result'[v] = result[v]
      BY <1>5, WorkersAreProcesses DEF Goto, Typed, TypeOK, ManagerTypeOK
    <2>2. NoDoubleExecution'
      BY <2>1 DEF LocalInv, NoDoubleExecution
    <2>3. WorkerInv'
      <3>1. WorkerOK(w)'
        BY <2>1 DEF WorkerOK, Outside
      <3>2. ASSUME NEW v \in Workers, v # w PROVE WorkerOK(v)'
        BY <1>1, <2>1, <3>2, StandingWorker, UnchangedUndisturbed DEF LocalInv, WorkerInv
      <3> QED  BY <3>1, <3>2 DEF WorkerInv
    <2>4. PoolInv'
      <3>1. job[w] \in submitted \ queue
        BY <1>2, ManagerAssumption DEF LocalInv, PoolInv
      <3>2. queue' \subseteq submitted'
        BY <1>1, <1>5, <3>1 DEF LocalInv, PoolInv
      <3>3. \A v \in Workers : job'[v] # NoRun => job'[v] \in submitted' \ queue'
        BY <1>1, <1>2, <1>5, <2>1, ManagerAssumption DEF LocalInv, PoolInv, NoDoubleExecution
      <3>4. \A r \in queue' \cup (snapshot' \ submitted') : NoLease(r)'
        <4> SUFFICES ASSUME NEW r \in queue \cup (snapshot \ submitted') PROVE NoLease(r)'
          BY <1>1
        <4>1. r \in Runs /\ NoLease(r)
          BY <1>2, <1>5 DEF LocalInv, PoolInv, Typed, TypeOK
        <4> QED  BY <1>3, <4>1
      <3> QED  BY <1>1, <1>5, <3>2, <3>3, <3>4 DEF LocalInv, PoolInv
    <2>5. TodoInv'
      BY <1>1, <1>3, <1>5 DEF LocalInv, TodoInv, Typed, TypeOK, CoordinatorTypeOK
    <2> QED  BY <1>1, <2>2, <2>3, <2>4, <2>5, SameRows DEF LocalInv
  <1> QED  BY <1>4, <1>5 DEF Return

-----------------------------------------------------------------------------
(* The steps of dispatch_available.                                        *)

\* What a step of the batch loop must leave alone to keep the invariant.
LEMMA CoordinatorFrame ==
    ASSUME Typed, Typed', LocalInv, NEW p \in Processes,
           pc[p] \in Outside, pc'[p] \in Outside,
           \A q \in Processes \ {p} : pc'[q] = pc[q],
           UNCHANGED <<made, attempt, job, number, result, snapshot, submitted, queue>>,
           \A r \in Runs : RunKept(r),
           \A r \in snapshot \cup submitted : run'[r] = run[r],
           TodoInv'
    PROVE  LocalInv'
  <1>1. LeaseHasLiveRun' /\ VerdictIsBacked'
    BY RowsKept DEF LocalInv, Typed, TypeOK
  <1>2. LeaseIsLast'
    BY DEF LocalInv, LeaseIsLast, Leased
  <1>3. NoDoubleExecution'
    BY DEF LocalInv, NoDoubleExecution
  <1>4. WorkerInv'
    <2> SUFFICES ASSUME NEW v \in Workers PROVE WorkerOK(v)'
      BY DEF WorkerInv
    <2>1. CASE v = p
      <3>1. job[v] \in Runs /\ NoLease(job[v])
        BY <2>1 DEF LocalInv, WorkerInv, WorkerOK, Outside, Typed, Busy
      <3> QED  BY <2>1, <3>1, OutsideOK
    <2>2. CASE v # p
      BY <2>2, StandingWorker, UnchangedUndisturbed, WorkersAreProcesses DEF LocalInv, WorkerInv
    <2> QED  BY <2>1, <2>2
  <1>5. \A q \in Runs : NoLease(q) => NoLease(q)'
    BY UnchangedUndisturbed, NoLeaseKept
  <1>6. PoolInv'
    BY <1>5 DEF LocalInv, PoolInv, Typed, TypeOK
  <1> QED  BY <1>1, <1>2, <1>3, <1>4, <1>6 DEF LocalInv

\* claim_available_runs takes CREATED runs, which no one else knows of.
LEMMA ClaimInv ==
    ASSUME Typed, Typed', LocalInv, NEW p \in Processes, Claim(p)
    PROVE  LocalInv'
  <1>1. PICK S \in SUBSET Waiting :
            /\ run' = [r \in Runs |-> IF r \in S THEN "QUEUED" ELSE run[r]]
            /\ todo' = [todo EXCEPT ![p] = S]
            /\ Goto(p, IF S = {} THEN "refilled" ELSE "dispatch")
    BY DEF Claim, ClaimAvailableRuns
  <1>2. /\ UNCHANGED <<made, attempt, job, number, result, snapshot, submitted, queue>>
        /\ pc[p] = "claim"
    BY DEF Claim, ClaimAvailableRuns, workerVars, serviceVars
  <1>3. pc'[p] \in {"refilled", "dispatch"} /\ \A q \in Processes \ {p} : pc'[q] = pc[q]
    BY <1>1 DEF Goto, Typed, TypeOK, ManagerTypeOK
  <1>4. \A r \in S : r \in Runs /\ run[r] = "CREATED" /\ run'[r] = "QUEUED"
    BY <1>1 DEF Waiting
  <1>5. \A r \in Runs \ S : run'[r] = run[r]
    BY <1>1
  <1>6. \A r \in S : NoLease(r)
    BY <1>4, AttemptPair DEF LocalInv, LeaseHasLiveRun, NoLease
  <1>7. \A r \in Runs : RunKept(r)
    BY <1>4, <1>5, <1>6 DEF RunKept, RUN_TERMINAL
  <1>8. \A r \in snapshot \cup submitted : r \in Runs \ S
    BY <1>4 DEF LocalInv, PoolInv, Typed, TypeOK
  <1>9. \A q \in Runs : NoLease(q) => NoLease(q)'
    BY <1>2, UnchangedUndisturbed, NoLeaseKept
  <1>10. todo'[p] = S /\ \A q \in Processes \ {p} : todo'[q] = todo[q]
    BY <1>1 DEF Typed, TypeOK, CoordinatorTypeOK
  <1>11. \A q \in Processes : \A r \in todo[q] : r \in Runs \ S
    BY <1>4 DEF LocalInv, TodoInv, Typed, TypeOK, CoordinatorTypeOK
  <1>12. TodoInv'
    <2>1. ASSUME NEW q \in Processes, NEW r \in todo'[q]
          PROVE  (run[r] \in {"QUEUED", "CANCELLING"} /\ NoLease(r) /\ r \notin snapshot \cup submitted)'
      <3>1. CASE q = p
        BY <1>2, <1>4, <1>6, <1>8, <1>9, <1>10, <2>1, <3>1
      <3>2. CASE q # p
        <4>1. r \in todo[q] /\ r \in Runs \ S
          BY <1>10, <1>11, <2>1, <3>2
        <4> QED  BY <1>2, <1>5, <1>9, <4>1 DEF LocalInv, TodoInv
      <3> QED  BY <3>1, <3>2
    <2>2. \A q, u \in Processes : q # u => todo'[q] \cap todo'[u] = {}
      BY <1>10, <1>11 DEF LocalInv, TodoInv
    <2> QED  BY <2>1, <2>2 DEF TodoInv
  <1> QED
    BY <1>2, <1>3, <1>5, <1>7, <1>8, <1>12, CoordinatorFrame DEF Outside

\* Dispatching one claimed run, whether it succeeds, is skipped or fails.
LEMMA DispatchInv ==
    ASSUME Typed, Typed', LocalInv, NEW p \in Processes, NEW r \in Runs,
           Dispatch(p, r) \/ DispatchRaises(p, r) \/ DispatchFails(p, r)
    PROVE  LocalInv'
  <1>1. /\ UNCHANGED <<made, attempt, job, number, result, snapshot, submitted, queue>>
        /\ pc[p] \in {"dispatch", "dispatch_failed"} /\ r \in todo[p]
    BY DEF Dispatch, Dispatched, DispatchRaises, DispatchRaised, DispatchFails, FailDispatch,
      IsNext, Transition, repoVars, workerVars, serviceVars
  <1>2. \E l \in {"claim", "dispatch", "dispatch_failed", "refilled"} : Goto(p, l)
    BY DEF Dispatch, Dispatched, DispatchRaises, DispatchRaised, DispatchFails, FailDispatch, LoopAfter
  <1>3. /\ pc'[p] \in {"claim", "dispatch", "dispatch_failed", "refilled"}
        /\ \A q \in Processes \ {p} : pc'[q] = pc[q]
    BY <1>2 DEF Goto, Typed, TypeOK, ManagerTypeOK
  <1>4. run[r] \in {"QUEUED", "CANCELLING"} /\ NoLease(r) /\ r \notin snapshot \cup submitted
    BY <1>1 DEF LocalInv, TodoInv
  <1>5. \/ UNCHANGED run
        \/ /\ run' = [run EXCEPT ![r] = "DISPATCHING"] \/ run' = [run EXCEPT ![r] = "INFRA_ERROR"]
           /\ todo' = [todo EXCEPT ![p] = @ \ {r}]
    BY DEF Dispatch, Dispatched, DispatchRaises, DispatchFails, FailDispatch, LoopAfter,
      Transition, repoVars
  <1>6. \A q \in Processes : todo'[q] \subseteq todo[q]
    BY DEF Dispatch, Dispatched, DispatchRaises, DispatchRaised, DispatchFails, FailDispatch,
      LoopAfter, Typed, TypeOK, CoordinatorTypeOK
  <1>7. \A q \in Runs : q # r => run'[q] = run[q]
    BY <1>5 DEF Typed, TypeOK, RepositoryTypeOK
  <1>8. RunKept(r) /\ (run'[r] = run[r] \/ r \notin todo'[p])
    BY <1>1, <1>4, <1>5 DEF RunKept, RUN_TERMINAL, Typed, TypeOK, RepositoryTypeOK, CoordinatorTypeOK
  <1>9. \A q \in Runs : RunKept(q)
    BY <1>7, <1>8 DEF RunKept
  <1>10. \A q \in Runs : NoLease(q) => NoLease(q)'
    BY <1>1, UnchangedUndisturbed, NoLeaseKept
  <1>11. TodoInv'
    <2>1. ASSUME NEW q \in Processes, NEW u \in todo'[q]
          PROVE  (run[u] \in {"QUEUED", "CANCELLING"} /\ NoLease(u) /\ u \notin snapshot \cup submitted)'
      <3>1. u \in todo[q] /\ u \in Runs
        BY <1>6, <2>1 DEF Typed, TypeOK, CoordinatorTypeOK
      <3>2. q # p => u # r
        BY <1>1, <3>1 DEF LocalInv, TodoInv
      <3>3. run'[u] = run[u]
        BY <1>7, <1>8, <2>1, <3>1, <3>2
      <3> QED  BY <1>1, <1>10, <3>1, <3>3 DEF LocalInv, TodoInv
    <2>2. \A q, u \in Processes : q # u => todo'[q] \cap todo'[u] = {}
      BY <1>6 DEF LocalInv, TodoInv
    <2> QED  BY <2>1, <2>2 DEF TodoInv
  <1>12. \A q \in snapshot \cup submitted : run'[q] = run[q]
    BY <1>4, <1>7 DEF Typed, TypeOK
  <1> QED
    BY <1>1, <1>3, <1>9, <1>11, <1>12, CoordinatorFrame DEF Outside

-----------------------------------------------------------------------------
(* The poller, the life of the service, cancels, the reaper and the clock. *)

\* A step in which no worker and no row moves.
LEMMA ServiceFrame ==
    ASSUME Typed, Typed', LocalInv, UNCHANGED <<run, made, attempt, pc, job, number, result>>,
           PoolInv', TodoInv'
    PROVE  LocalInv'
  <1>1. WorkerInv'
    BY StandingWorker, UnchangedUndisturbed DEF LocalInv, WorkerInv
  <1>2. NoDoubleExecution'
    BY DEF LocalInv, NoDoubleExecution
  <1> QED  BY <1>1, <1>2, SameRows DEF LocalInv

\* The poller lists and submits only runs no attempt of which is live.
LEMMA ServiceInv ==
    ASSUME Typed, Typed', LocalInv,
           PollList \/ (\E r \in Runs : PollSubmit(r)) \/ Stop \/ Stopped \/ Start
    PROVE  LocalInv'
  <1>1. UNCHANGED <<run, made, attempt, pc, job, number, result, todo>>
    BY DEF PollList, PollSubmit, Stop, Stopped, Start, repoVars, coordinatorVars, workerVars
  <1>2. \A q \in Runs : NoLease(q) => NoLease(q)'
    BY <1>1, UnchangedUndisturbed, NoLeaseKept
  <1>3. ASSUME NEW u, u \in snapshot' \/ u \in submitted'
        PROVE  u \in Runs /\ (u \in snapshot \cup submitted \/ run[u] = "DISPATCHING")
    BY <1>3 DEF PollList, PollSubmit, Stop, Stopped, Start, Typed, TypeOK
  <1>4. TodoInv'
    <2>1. ASSUME NEW q \in Processes, NEW u \in todo[q]
          PROVE  (run[u] \in {"QUEUED", "CANCELLING"} /\ NoLease(u) /\ u \notin snapshot \cup submitted)'
      <3>1. u \in Runs /\ run[u] \in {"QUEUED", "CANCELLING"} /\ NoLease(u)
            /\ u \notin snapshot \cup submitted
        BY <2>1 DEF LocalInv, TodoInv, Typed, TypeOK, CoordinatorTypeOK
      <3>2. u \notin snapshot' /\ u \notin submitted'
        BY <1>3, <3>1
      <3> QED  BY <1>1, <1>2, <3>1, <3>2
    <2> QED  BY <1>1, <2>1 DEF LocalInv, TodoInv
  <1>5. \A u \in snapshot' \cup submitted' : run'[u] \notin {"CREATED", "QUEUED"}
    BY <1>1, <1>3 DEF LocalInv, PoolInv
  <1>6. queue' \subseteq submitted'
    BY DEF PollList, PollSubmit, Stop, Stopped, Start, LocalInv, PoolInv
  <1>7. ASSUME NEW w \in Workers, job'[w] # NoRun PROVE job'[w] \in submitted' \ queue'
    <2>1. job[w] \in submitted \ queue /\ job'[w] = job[w] /\ pc[w] # "idle"
      BY <1>1, <1>7 DEF LocalInv, PoolInv, WorkerInv, WorkerOK
    <2> QED  BY <2>1 DEF PollList, PollSubmit, Stop, Stopped, Start
  <1>8. ASSUME NEW u \in queue' \cup (snapshot' \ submitted') PROVE NoLease(u)'
    <2>1. u \in Runs
      BY <1>3, <1>6, <1>8
    <2>2. CASE run[u] = "DISPATCHING"
      BY <1>2, <2>1, <2>2, AttemptPair DEF LocalInv, LeaseHasLiveRun, NoLease
    <2>3. CASE run[u] # "DISPATCHING"
      <3>1. u \in queue \cup (snapshot \ submitted)
        BY <1>8, <2>3 DEF PollList, PollSubmit, Stop, Stopped, Start
      <3> QED  BY <1>2, <2>1, <3>1 DEF LocalInv, PoolInv
    <2> QED  BY <2>2, <2>3
  <1>9. PoolInv'
    BY <1>5, <1>6, <1>7, <1>8 DEF PoolInv
  <1> QED  BY <1>1, <1>4, <1>9, ServiceFrame

\* A crash empties the memory of the process; nothing in the rows refers to it.
LEMMA CrashInv ==
    ASSUME Typed, Typed', LocalInv, Crash
    PROVE  LocalInv'
  <1>1. /\ UNCHANGED <<run, made, attempt>>
        /\ snapshot' = {} /\ submitted' = {} /\ queue' = {}
        /\ \A p \in Processes : todo'[p] = {}
        /\ \A w \in Workers : pc'[w] = "idle" /\ job'[w] = NoRun
    BY WorkersAreProcesses, LocalRunnerAssumption DEF Crash, repoVars
  <1>2. WorkerInv' /\ NoDoubleExecution'
    BY <1>1 DEF WorkerInv, WorkerOK, Outside, NoDoubleExecution
  <1>3. PoolInv' /\ TodoInv'
    BY <1>1 DEF PoolInv, TodoInv
  <1> QED  BY <1>1, <1>2, <1>3, SameRows DEF LocalInv

\* A cancel moves one run to CANCELLING, wherever it is.
LEMMA CancelInv ==
    ASSUME Typed, Typed', LocalInv, NEW r \in Runs, CancelRequest(r)
    PROVE  LocalInv'
  <1>1. /\ UNCHANGED <<made, attempt, pc, job, number, result, todo, snapshot, submitted, queue>>
        /\ run' = [run EXCEPT ![r] = "CANCELLING"] /\ run[r] \notin RUN_TERMINAL
    BY DEF CancelRequest, Cancel, Transition, Terminal, coordinatorVars, workerVars, serviceVars
  <1>2. run'[r] = "CANCELLING" /\ \A q \in Runs : q # r => run'[q] = run[q]
    BY <1>1 DEF Typed, TypeOK, RepositoryTypeOK
  <1>3. LeaseHasLiveRun' /\ VerdictIsBacked'
    BY <1>1, <1>2, RowsKept DEF RunKept, LocalInv, Typed, TypeOK
  <1>4. LeaseIsLast' /\ NoDoubleExecution'
    BY <1>1 DEF LocalInv, LeaseIsLast, Leased, NoDoubleExecution
  <1>5. WorkerInv'
    BY <1>1, StandingWorker, UnchangedUndisturbed DEF LocalInv, WorkerInv
  <1>6. \A q \in Runs : NoLease(q) => NoLease(q)'
    BY <1>1, UnchangedUndisturbed, NoLeaseKept
  <1>7. PoolInv'
    BY <1>1, <1>2, <1>6 DEF LocalInv, PoolInv, Typed, TypeOK
  <1>8. TodoInv'
    BY <1>1, <1>2, <1>6 DEF LocalInv, TodoInv, Typed, TypeOK, CoordinatorTypeOK
  <1> QED  BY <1>3, <1>4, <1>5, <1>7, <1>8 DEF LocalInv

\* The reaper fails the run of every attempt it loses, and a run it fails has
\* no other live attempt.
LEMMA ReapInv ==
    ASSUME Typed, Typed', LocalInv, Reap
    PROVE  LocalInv'
  <1> DEFINE hit(S) == {r \in Runs : ~Terminal(r) /\ \E a \in S : a[1] = r}
  <1>1. PICK S \in SUBSET Expired :
          /\ attempt' = [a \in Attempts |-> IF a \in S THEN "LOST" ELSE attempt[a]]
          /\ run' = [r \in Runs |-> IF r \in hit(S) THEN "INFRA_ERROR" ELSE run[r]]
    BY DEF Reap, ExpireAttemptLeases
  <1>2. UNCHANGED <<made, pc, job, number, result, todo, snapshot, submitted, queue>>
    BY DEF Reap, ExpireAttemptLeases, coordinatorVars, workerVars, serviceVars
  <1>3. \A a \in S : /\ a \in Attempts /\ Leased(a) /\ a[1] \in Runs
                     /\ run[a[1]] \in {"RUNNING", "CANCELLING"}
    BY DEF Expired, Attempts, LocalInv, LeaseHasLiveRun
  <1>4. \A a \in S : a[1] \in hit(S) /\ run'[a[1]] = "INFRA_ERROR"
    BY <1>1, <1>3 DEF Terminal, RUN_TERMINAL
  <1>5. \A r \in Runs : run'[r] = run[r] \/ \E a \in S : a[1] = r
    BY <1>1
  <1>6. \A a \in Attempts : IF a \in S THEN attempt'[a] = "LOST" ELSE attempt'[a] = attempt[a]
    BY <1>1
  <1>7. \A r \in Runs : Undisturbed(r)
    BY <1>2, <1>3, <1>6, AttemptPair DEF Undisturbed, Leased
  <1>8. \A r \in Runs : NoLease(r) => NoLease(r)' /\ run'[r] = run[r]
    <2> SUFFICES ASSUME NEW r \in Runs, NoLease(r) PROVE NoLease(r)' /\ run'[r] = run[r]
      OBVIOUS
    <2>1. NoLease(r)'
      BY <1>7, NoLeaseKept
    <2>2. ASSUME NEW a \in S PROVE a[1] # r
      <3>1. PICK q \in Runs, n \in 1..AttemptBound : a = <<q, n>>
        BY <1>3 DEF Attempts
      <3> QED  BY <1>3, <3>1 DEF NoLease
    <2> QED  BY <1>5, <2>1, <2>2
  <1>9. LeaseHasLiveRun' /\ LeaseIsLast'
    <2>1. ASSUME NEW a \in Attempts, Leased(a)'
          PROVE  a \notin S /\ Leased(a) /\ a[2] = made[a[1]] /\ a[1] \in Runs
                 /\ run[a[1]] \in {"RUNNING", "CANCELLING"}
      BY <1>6, <2>1 DEF Leased, ATTEMPT_LEASED, LocalInv, LeaseIsLast, LeaseHasLiveRun, Attempts
    <2>2. ASSUME NEW a \in Attempts, Leased(a)' PROVE run'[a[1]] = run[a[1]]
      <3>1. ASSUME NEW b \in S PROVE b[1] # a[1]
        <4>1. b[2] = made[b[1]] /\ b \in Attempts
          BY <1>3 DEF LocalInv, LeaseIsLast
        <4>2. b[1] = a[1] => b = a
          BY <2>1, <2>2, <4>1 DEF Attempts
        <4> QED  BY <2>1, <2>2, <4>2
      <3> QED  BY <1>5, <2>1, <2>2, <3>1
    <2> QED  BY <1>2, <2>1, <2>2 DEF LeaseHasLiveRun, LeaseIsLast
  <1>10. VerdictIsBacked'
    <2>1. ASSUME NEW r \in Runs, Terminal(r)', run'[r] # "INFRA_ERROR"
          PROVE  (made[r] > 0 /\ attempt[<<r, made[r]>>] = run[r])'
      <3>1. run'[r] = run[r] /\ Terminal(r)
        BY <1>4, <1>5, <2>1 DEF Terminal
      <3>2. made[r] > 0 /\ attempt[<<r, made[r]>>] = run[r]
        BY <2>1, <3>1 DEF LocalInv, VerdictIsBacked
      <3>3. made[r] \in 1..AttemptBound
        BY <3>2, RepositoryAssumption DEF Typed, TypeOK, RepositoryTypeOK
      <3>4. <<r, made[r]>> \in Attempts \ S
        BY <1>4, <2>1, <3>3, AttemptPair
      <3> QED  BY <1>2, <1>6, <3>1, <3>2, <3>4
    <2>2. ASSUME NEW r \in Runs, NEW n \in 1..AttemptBound, attempt'[<<r, n>>] = "LOST"
          PROVE  run'[r] = "INFRA_ERROR"
      <3>1. CASE <<r, n>> \in S
        BY <1>4, <3>1
      <3>2. CASE <<r, n>> \notin S
        <4>1. run[r] = "INFRA_ERROR"
          BY <1>6, <2>2, <3>2, AttemptPair DEF LocalInv, VerdictIsBacked
        <4> QED  BY <1>4, <1>5, <4>1
      <3> QED  BY <3>1, <3>2
    <2> QED  BY <2>1, <2>2 DEF VerdictIsBacked
  <1>11. WorkerInv' /\ NoDoubleExecution'
    <2>1. \A v \in Workers : WorkerOK(v)'
      BY <1>2, <1>7, StandingWorker DEF LocalInv, WorkerInv
    <2> QED  BY <1>2, <2>1 DEF LocalInv, WorkerInv, NoDoubleExecution
  <1>12. PoolInv'
    BY <1>1, <1>2, <1>8 DEF LocalInv, PoolInv, Typed, TypeOK
  <1>13. TodoInv'
    BY <1>2, <1>8 DEF LocalInv, TodoInv, Typed, TypeOK, CoordinatorTypeOK
  <1> QED  BY <1>9, <1>10, <1>11, <1>12, <1>13 DEF LocalInv

\* Initially no run is with anyone.
LEMMA LocalInvInit == Init => LocalInv
  <1> SUFFICES ASSUME Init PROVE LocalInv
    OBVIOUS
  <1>1. \A w \in Workers : pc[w] = "idle" /\ job[w] = NoRun
    BY WorkersAreProcesses, LocalRunnerAssumption DEF Init
  <1>2. /\ \A r \in Runs : run[r] = "CREATED"
        /\ \A a \in Attempts : attempt[a] = "ABSENT"
    BY DEF Init, RepositoryInit
  <1>3. LeaseHasLiveRun /\ LeaseIsLast
    BY <1>2 DEF LeaseHasLiveRun, LeaseIsLast, Leased, ATTEMPT_LEASED
  <1>4. VerdictIsBacked
    BY <1>2, AttemptPair DEF VerdictIsBacked, Terminal, RUN_TERMINAL
  <1>5. WorkerInv /\ NoDoubleExecution
    BY <1>1 DEF WorkerInv, WorkerOK, Outside, NoDoubleExecution
  <1>6. PoolInv /\ TodoInv
    BY <1>1 DEF Init, PoolInv, TodoInv
  <1> QED  BY <1>3, <1>4, <1>5, <1>6 DEF LocalInv

\* Every step of the deployment keeps the inductive invariant.
LEMMA LocalInvStep == Typed /\ LocalInv /\ [Next]_vars => LocalInv'
  <1> SUFFICES ASSUME Typed, LocalInv, [Next]_vars PROVE LocalInv'
    OBVIOUS
  <1>0. Typed'
    BY TypedStep
  <1>1. ASSUME NEW p \in Processes, CoordinatorStep(p) PROVE LocalInv'
    BY <1>0, <1>1, ClaimInv, DispatchInv DEF CoordinatorStep
  <1>2. ASSUME NEW w \in Workers, WorkerStep(w) \/ (Heartbeat(w) /\ UNCHANGED serviceVars)
        PROVE  LocalInv'
    BY <1>0, <1>2, TakeInv, AroundInv, ReturnInv, ManagerInv DEF WorkerStep
  <1>3. CASE PollList \/ (\E r \in Runs : PollSubmit(r)) \/ Stop \/ Stopped \/ Start
    BY <1>0, <1>3, ServiceInv
  <1>4. CASE Crash
    BY <1>0, <1>4, CrashInv
  <1>5. CASE \E r \in Runs : CancelRequest(r)
    BY <1>0, <1>5, CancelInv
  <1>6. CASE Reap
    BY <1>0, <1>6, ReapInv
  <1>7. CASE TimePasses \/ UNCHANGED vars
    <2>1. /\ UNCHANGED <<run, made, attempt, pc, job, number, result, todo>>
          /\ UNCHANGED <<snapshot, submitted, queue>>
      BY <1>7 DEF TimePasses, Tick, vars, repoVars, coordinatorVars, workerVars, serviceVars
    <2>2. \A r \in Runs : NoLease(r) => NoLease(r)'
      BY <2>1, UnchangedUndisturbed, NoLeaseKept
    <2>3. PoolInv'
      BY <2>1, <2>2 DEF LocalInv, PoolInv, Typed, TypeOK
    <2>4. TodoInv'
      BY <2>1, <2>2 DEF LocalInv, TodoInv, Typed, TypeOK, CoordinatorTypeOK
    <2> QED  BY <1>0, <2>1, <2>3, <2>4, ServiceFrame
  <1> QED  BY <1>1, <1>2, <1>3, <1>4, <1>5, <1>6, <1>7 DEF Next

\* The invariant holds in every reachable state of the deployment.
THEOREM InvariantHolds == Spec => []LocalInv
  BY TypedInit, TypedStep, LocalInvInit, LocalInvStep, PTL DEF Spec

\* No path of the manager, of the error convergence or of the reaper settles a
\* run under a live attempt.
THEOREM LeasesAreLive == Spec => []LeaseHasLiveRun
  <1>1. LocalInv => LeaseHasLiveRun
    BY DEF LocalInv
  <1> QED  BY <1>1, InvariantHolds, PTL

\* The final state of a run is what its last attempt reported, or INFRA_ERROR;
\* a lost attempt always means INFRA_ERROR.
THEOREM VerdictsAreBacked == Spec => []VerdictIsBacked
  <1>1. LocalInv => VerdictIsBacked
    BY DEF LocalInv
  <1> QED  BY <1>1, InvariantHolds, PTL

\* No two pool threads ever execute the same run, however old the listing is
\* that poll_once acts on.
THEOREM ExecutedOnce == Spec => []NoDoubleExecution
  <1>1. LocalInv => NoDoubleExecution
    BY DEF LocalInv
  <1> QED  BY <1>1, InvariantHolds, PTL

-----------------------------------------------------------------------------
(* What a step does to the state columns, and what follows from it.        *)

\* Rows are appended: a number beyond the count has no row yet.
Appended == \A r \in Runs : \A n \in 1..AttemptBound : n > made[r] => attempt[<<r, n>>] = "ABSENT"

\* A run stays as it is, or leaves a state that is not terminal; it becomes
\* active only by leaving an active state.
RunMoves(r) ==
    \/ run'[r] = run[r]
    \/ /\ run[r] \notin RUN_TERMINAL
       /\ \/ run'[r] \in RUN_TERMINAL \cup {"CANCELLING"}
          \/ run[r] \in OCCUPIED_STATES \ {"CANCELLING"}

\* An attempt stays as it is, or was live and exists still, or its row is new
\* and its run was DISPATCHING.
AttemptMoves(a) ==
    \/ attempt'[a] = attempt[a]
    \/ Leased(a) /\ attempt'[a] # "ABSENT" /\ made'[a[1]] = made[a[1]]
    \/ attempt[a] = "ABSENT" /\ run[a[1]] = "DISPATCHING" /\ a[2] = made'[a[1]]

Moves ==
    /\ \A r \in Runs : RunMoves(r) /\ made'[r] >= made[r]
    /\ \A a \in Attempts : AttemptMoves(a)

\* A transition to any state but QUEUED moves one run and no attempt.
LEMMA TransitionMoves ==
    ASSUME Typed, NEW r \in Runs, NEW t, t # "QUEUED", Transition(r, t)
    PROVE  Moves
  <1>1. run'[r] = t /\ (\A q \in Runs : q # r => run'[q] = run[q]) /\ UNCHANGED <<made, attempt>>
    BY DEF Transition, Typed, TypeOK, RepositoryTypeOK
  <1>2. RunMoves(r)
    BY <1>1 DEF RunMoves, Transition, CanTransition, RUN_TRANSITIONS, RUN_TERMINAL, OCCUPIED_STATES
  <1>3. \A q \in Runs : RunMoves(q)
    BY <1>1, <1>2 DEF RunMoves
  <1>4. \A q \in Runs : made[q] \in Nat
    BY RepositoryAssumption DEF Typed, TypeOK, RepositoryTypeOK
  <1> QED  BY <1>1, <1>3, <1>4 DEF Moves, AttemptMoves

\* A step that writes no state column moves nothing.
LEMMA StillMoves ==
    ASSUME Typed, UNCHANGED <<run, made, attempt>>
    PROVE  Moves
  <1>1. \A q \in Runs : made[q] \in Nat
    BY RepositoryAssumption DEF Typed, TypeOK, RepositoryTypeOK
  <1> QED  BY <1>1 DEF Moves, RunMoves, AttemptMoves

\* A worker's own transition: the row it moves is live or the table refuses.
LEMMA AttemptTransitionMoves ==
    ASSUME Typed, NEW w \in Workers, Mine(w) \in Attempts, attempt[Mine(w)] # "PENDING",
           NEW s, TransitionAttempt(Mine(w), s)
    PROVE  Moves
  <1>1. \A q \in Runs : made[q] \in Nat
    BY RepositoryAssumption DEF Typed, TypeOK, RepositoryTypeOK
  <1>2. /\ UNCHANGED <<run, made>> /\ attempt'[Mine(w)] = s
        /\ \A a \in Attempts : a # Mine(w) => attempt'[a] = attempt[a]
    BY DEF TransitionAttempt, Typed, TypeOK, RepositoryTypeOK
  <1>3. s \in ATTEMPT_TRANSITIONS(attempt[Mine(w)])
    BY DEF TransitionAttempt, CanTransitionAttempt
  <1>4. s # "ABSENT" /\ attempt[Mine(w)] \in ATTEMPT_LEASED
    BY <1>3 DEF ATTEMPT_TRANSITIONS, ATTEMPT_LEASED, ATTEMPT_TERMINAL, RUN_TERMINAL
  <1> QED  BY <1>1, <1>2, <1>3, <1>4 DEF Moves, RunMoves, AttemptMoves, Leased

\* begin_attempt appends a row to a run that was DISPATCHING.
LEMMA BeginMoves ==
    ASSUME Typed, Appended, NEW r \in Runs, BeginAttempt(r)
    PROVE  Moves
  <1>1. made[r] + 1 \in 1..AttemptBound /\ <<r, made[r] + 1>> \in Attempts
    BY BeginAttemptType, AttemptPair DEF Typed, TypeOK
  <1>2. \A q \in Runs : made[q] \in Nat
    BY RepositoryAssumption DEF Typed, TypeOK, RepositoryTypeOK
  <1>3. run[r] = "DISPATCHING" /\ attempt[<<r, made[r] + 1>>] = "ABSENT"
    BY <1>1, <1>2 DEF BeginAttempt, CanTransition, RUN_TRANSITIONS, Appended
  <1>4. /\ \A q \in Runs : q # r => run'[q] = run[q] /\ made'[q] = made[q]
        /\ made'[r] = made[r] + 1
        /\ \A a \in Attempts : a # <<r, made[r] + 1>> => attempt'[a] = attempt[a]
    BY DEF BeginAttempt, Typed, TypeOK, RepositoryTypeOK
  <1>5. \A q \in Runs : RunMoves(q) /\ made'[q] >= made[q]
    BY <1>2, <1>3, <1>4 DEF RunMoves, RUN_TERMINAL, OCCUPIED_STATES
  <1>6. \A a \in Attempts : AttemptMoves(a)
    BY <1>1, <1>3, <1>4 DEF AttemptMoves
  <1> QED  BY <1>5, <1>6 DEF Moves

\* Of all the steps, only a batch claim lets a run become active.
LEMMA StepMoves ==
    ASSUME Typed, LocalInv, Appended, [Next]_vars, \A p \in Processes : ~Claim(p)
    PROVE  Moves
  <1>1. ASSUME NEW p \in Processes, CoordinatorStep(p) PROVE Moves
    <2>1. PICK r \in Runs : Dispatch(p, r) \/ DispatchRaises(p, r) \/ DispatchFails(p, r)
      BY <1>1 DEF CoordinatorStep
    <2>2. \/ Transition(r, "DISPATCHING") \/ Transition(r, "INFRA_ERROR")
          \/ UNCHANGED <<run, made, attempt>>
      BY <2>1 DEF Dispatch, DispatchRaises, DispatchFails, FailDispatch, repoVars
    <2> QED  BY <2>2, TransitionMoves, StillMoves
  <1>2. ASSUME NEW w \in Workers, ManagerStep(w) \/ Heartbeat(w) PROVE Moves
    <2>1. job[w] \in Runs
      <3>1. pc[w] # "idle"
        BY <1>2 DEF ManagerStep, Heartbeat, Load, Begin, Prepare, Launch, Advance,
           ExecutorReturns, CheckCancel, CheckLost, Collect, Complete, Finish, Decide,
           RetryWait, MoveRun, GiveUp, MarkCancelling, Settle, At
      <3> QED  BY <3>1 DEF Typed, Busy
    <2>2. CASE Begin(w)
      BY <2>1, <2>2, BeginMoves, StillMoves DEF Begin, repoVars
    <2>3. CASE Prepare(w) \/ Launch(w) \/ Collect(w) \/ Complete(w)
      <3>1. pc[w] \in {"prepare", "launch", "collect", "complete"}
        BY <2>3 DEF Prepare, Launch, Advance, Collect, Complete, Finish, At
      <3>2. Mine(w) \in Attempts /\ attempt[Mine(w)] \in OwnAttempt(w)
        BY <3>1, InsideFacts DEF Outside
      <3>3. attempt[Mine(w)] # "PENDING"
        BY <3>1, <3>2 DEF OwnAttempt
      <3>4. (\E s : TransitionAttempt(Mine(w), s)) \/ UNCHANGED repoVars
        BY <2>3 DEF Prepare, Launch, Advance, Collect, Complete, CompleteAttempt, Finish
      <3> QED  BY <3>2, <3>3, <3>4, AttemptTransitionMoves, StillMoves DEF repoVars
    <2>4. CASE RetryWait(w) \/ GiveUp(w) \/ MarkCancelling(w) \/ Settle(w)
      <3>1. Verdict(w) # "QUEUED"
        BY DEF Typed, TypeOK, ManagerTypeOK, Verdict, Result, ResultOutcome, RUN_TERMINAL
      <3>2. (\E t : t # "QUEUED" /\ Transition(job[w], t)) \/ UNCHANGED repoVars
        BY <2>4, <3>1 DEF RetryWait, MoveRun, GiveUp, MarkCancelling, Settle
      <3> QED  BY <2>1, <3>2, TransitionMoves, StillMoves DEF repoVars
    <2>5. CASE \/ Load(w) \/ Heartbeat(w) \/ ExecutorReturns(w) \/ CheckCancel(w)
               \/ CheckLost(w) \/ Decide(w)
      <3>1. UNCHANGED <<run, made, attempt>>
        BY <2>5 DEF Load, Heartbeat, RenewAttemptLease, ExecutorReturns, CheckCancel, CheckLost,
          Decide, repoVars
      <3> QED  BY <3>1, StillMoves
    <2> QED  BY <1>2, <2>2, <2>3, <2>4, <2>5 DEF ManagerStep
  <1>3. ASSUME NEW w \in Workers, Converge(w) PROVE Moves
    <2>1. job[w] \in Runs
      BY <1>3 DEF Converge, At, Typed, Busy
    <2> QED  BY <1>3, <2>1, TransitionMoves, StillMoves DEF Converge, repoVars
  <1>4. CASE Reap
    <2>1. PICK S \in SUBSET Expired : ExpireAttemptLeases(S)
      BY <1>4 DEF Reap
    <2>2. \A r \in Runs : RunMoves(r)
      BY <2>1 DEF ExpireAttemptLeases, RunMoves, Terminal, RUN_TERMINAL
    <2>3. \A r \in Runs : made'[r] = made[r] /\ made[r] \in Nat
      BY <2>1, RepositoryAssumption DEF ExpireAttemptLeases, Typed, TypeOK, RepositoryTypeOK
    <2>4. \A a \in Attempts : a[1] \in Runs
      BY DEF Attempts
    <2>5. \A a \in Attempts : AttemptMoves(a)
      BY <2>1, <2>3, <2>4 DEF ExpireAttemptLeases, Expired, AttemptMoves
    <2> QED  BY <2>2, <2>3, <2>5 DEF Moves
  <1>5. CASE \E r \in Runs : CancelRequest(r)
    BY <1>5, TransitionMoves DEF CancelRequest, Cancel
  <1>6. CASE \/ PollList \/ (\E r \in Runs : PollSubmit(r)) \/ Stop \/ Stopped \/ Start \/ Crash
             \/ TimePasses \/ UNCHANGED vars
             \/ \E w \in Workers : \/ \E r \in Runs : Take(w, r)
                                   \/ Materialize(w) \/ AcquireHostLock(w) \/ Return(w)
    <2>1. UNCHANGED <<run, made, attempt>>
      BY <1>6 DEF PollList, PollSubmit, Stop, Stopped, Start, Crash, TimePasses, Tick, vars,
        Take, Materialize, AcquireHostLock, Return, repoVars
    <2> QED  BY <2>1, StillMoves
  <1> QED
    BY <1>1, <1>2, <1>3, <1>4, <1>5, <1>6 DEF Next, WorkerStep

\* A batch claim moves CREATED runs to QUEUED and touches no attempt.
LEMMA ClaimMoves ==
    ASSUME Typed, NEW p \in Processes, Claim(p)
    PROVE  /\ UNCHANGED <<made, attempt>>
           /\ \E S \in SUBSET Waiting : IsClaim(S)
                 /\ run' = [r \in Runs |-> IF r \in S THEN "QUEUED" ELSE run[r]]
  BY DEF Claim, ClaimAvailableRuns

\* Attempt rows are only ever appended.
LEMMA AppendedStep == Typed /\ LocalInv /\ Appended /\ [Next]_vars => Appended'
  <1> SUFFICES ASSUME Typed, LocalInv, Appended, [Next]_vars,
                      NEW r \in Runs, NEW n \in 1..AttemptBound, n > made'[r]
               PROVE  attempt'[<<r, n>>] = "ABSENT"
    BY DEF Appended
  <1>1. CASE \E p \in Processes : Claim(p)
    BY <1>1, ClaimMoves DEF Appended
  <1>2. CASE \A p \in Processes : ~Claim(p)
    <2>1. made'[r] >= made[r] /\ AttemptMoves(<<r, n>>)
      BY <1>2, StepMoves, AttemptPair DEF Moves
    <2>2. made[r] \in Nat /\ made'[r] \in Nat
      BY TypedStep, RepositoryAssumption DEF Typed, TypeOK, RepositoryTypeOK
    <2>3. n > made[r] /\ n # made'[r]
      BY <2>1, <2>2
    <2>4. attempt[<<r, n>>] = "ABSENT"
      BY <2>3 DEF Appended
    <2> QED  BY <2>1, <2>3, <2>4 DEF AttemptMoves, Leased, ATTEMPT_LEASED
  <1> QED  BY <1>1, <1>2

\* Initially there are no rows.
LEMMA AppendedInit == Init => Appended
  BY AttemptPair DEF Init, RepositoryInit, Appended

\* Terminal states of runs and attempts are irreversible, whoever writes late.
THEOREM TerminalStatesAreFinal == Spec => TerminalIsFinal
  <1>1. Typed /\ LocalInv /\ Appended /\ [Next]_vars =>
            [/\ \A r \in Runs : Terminal(r) => run'[r] = run[r]
             /\ \A a \in Attempts : attempt[a] \in ATTEMPT_TERMINAL => attempt'[a] = attempt[a]]_repoVars
    <2> SUFFICES ASSUME Typed, LocalInv, Appended, [Next]_vars
                 PROVE  /\ \A r \in Runs : Terminal(r) => run'[r] = run[r]
                        /\ \A a \in Attempts : attempt[a] \in ATTEMPT_TERMINAL => attempt'[a] = attempt[a]
      OBVIOUS
    <2>1. CASE \E p \in Processes : Claim(p)
      BY <2>1, ClaimMoves DEF Waiting, Terminal, RUN_TERMINAL
    <2>2. CASE \A p \in Processes : ~Claim(p)
      BY <2>2, StepMoves DEF Moves, RunMoves, AttemptMoves, Leased, ATTEMPT_LEASED,
        ATTEMPT_TERMINAL, RUN_TERMINAL, Terminal
    <2> QED  BY <2>1, <2>2
  <1> QED
    BY <1>1, TypedInit, TypedStep, LocalInvInit, LocalInvStep, AppendedInit, AppendedStep, PTL
    DEF Spec, TerminalIsFinal

-----------------------------------------------------------------------------
(* max_parallel.                                                           *)

\* No step but a claim makes a run active.
LEMMA ActiveShrinks ==
    ASSUME Typed, LocalInv, Moves
    PROVE  Active' \subseteq Active
  <1> SUFFICES ASSUME NEW r \in Runs, r \in Active' PROVE r \in Active
    BY DEF Active
  <1>1. RunMoves(r)
    BY DEF Moves
  <1>2. CASE run[r] \in OCCUPIED_STATES \ {"CANCELLING"}
    BY <1>2 DEF Active
  <1>3. CASE run[r] \notin OCCUPIED_STATES \ {"CANCELLING"}
    <2>1. run'[r] = "CANCELLING" /\ \E n \in 1..AttemptBound : Leased(<<r, n>>)'
      BY <1>1, <1>3 DEF RunMoves, Active, RUN_TERMINAL, OCCUPIED_STATES
    <2>2. PICK n \in 1..AttemptBound : Leased(<<r, n>>)'
      BY <2>1
    <2>3. AttemptMoves(<<r, n>>) /\ <<r, n>> \in Attempts
      BY AttemptPair DEF Moves
    <2>4. Leased(<<r, n>>)
      BY <1>3, <2>2, <2>3 DEF AttemptMoves, Leased, OCCUPIED_STATES
    <2>5. run[r] \in {"RUNNING", "CANCELLING"}
      BY <2>3, <2>4 DEF LocalInv, LeaseHasLiveRun
    <2> QED  BY <1>3, <2>4, <2>5 DEF Active, OCCUPIED_STATES
  <1> QED  BY <1>2, <1>3

\* A claim fills at most the slots that no occupied run uses.
LEMMA ClaimBounded ==
    ASSUME Typed, LocalInv, BoundedParallelism, NEW p \in Processes, Claim(p)
    PROVE  BoundedParallelism'
  <1>1. PICK S \in SUBSET Waiting : IsClaim(S)
                 /\ run' = [r \in Runs |-> IF r \in S THEN "QUEUED" ELSE run[r]]
    BY ClaimMoves
  <1>2. UNCHANGED <<made, attempt>>
    BY ClaimMoves
  <1>3. /\ IsFiniteSet(S) /\ IsFiniteSet(Occupied) /\ IsFiniteSet(Active)
        /\ IsFiniteSet(S \cup Occupied)
    <2>1. S \cup Occupied \subseteq Runs /\ Active \subseteq Runs
      BY <1>1 DEF Waiting, Occupied, Active
    <2> QED  BY <2>1, RepositoryAssumption, FS_Subset
  <1>4. /\ Cardinality(S) \in Nat /\ Cardinality(Occupied) \in Nat
        /\ Cardinality(S \cup Occupied) <= Cardinality(S) + Cardinality(Occupied)
    <2>1. S \cap Occupied = {}
      BY <1>1 DEF Waiting, Occupied, OCCUPIED_STATES
    <2>2. Cardinality(S) \in Nat /\ Cardinality(Occupied) \in Nat
      BY <1>3, FS_CardinalityType
    <2>3. Cardinality(S \cup Occupied)
             = Cardinality(S) + Cardinality(Occupied) - Cardinality(S \cap Occupied)
      BY <1>3, FS_Union
    <2>4. Cardinality(S \cap Occupied) = 0
      BY <2>1, FS_EmptySet
    <2>5. Cardinality(S \cup Occupied) = Cardinality(S) + Cardinality(Occupied) - 0
      BY <2>3, <2>4
    <2> QED  BY <2>2, <2>5
  <1>5. CASE S = {}
    <2>1. Active' = Active
      <3>1. \A r \in Runs : run'[r] = run[r]
        BY <1>1, <1>5
      <3> QED  BY <1>2, <3>1 DEF Active, Leased
    <2> QED  BY <2>1 DEF BoundedParallelism
  <1>6. CASE S # {}
    <2>1. Active' \subseteq S \cup Occupied
      <3> SUFFICES ASSUME NEW r \in Runs, r \in Active', r \notin S PROVE r \in Occupied
        BY DEF Active
      <3>1. run'[r] = run[r]
        BY <1>1
      <3>2. run'[r] \in OCCUPIED_STATES
        BY DEF Active, OCCUPIED_STATES
      <3> QED  BY <3>1, <3>2 DEF Occupied
    <2>2. Cardinality(Active') <= Cardinality(S \cup Occupied) /\ Cardinality(Active') \in Nat
      BY <1>3, <2>1, FS_Subset, FS_CardinalityType
    <2>3. Cardinality(S) # 0
      BY <1>3, <1>6, FS_EmptySet
    <2>4. Cardinality(S) <= Available
      BY <1>1 DEF IsClaim
    <2>5. Cardinality(S) + Cardinality(Occupied) <= MaxParallel
      BY <1>4, <2>3, <2>4, CoordinatorAssumption DEF Available
    <2>6. Cardinality(S \cup Occupied) \in Nat
      BY <1>3, FS_CardinalityType
    <2>7. Cardinality(Active') <= MaxParallel
      BY <1>4, <2>2, <2>5, <2>6, CoordinatorAssumption
    <2> QED  BY <2>7 DEF BoundedParallelism
  <1> QED  BY <1>5, <1>6

\* However many callers refill the batch at once, it never has more than
\* max_parallel runs in flight.
THEOREM ParallelismIsBounded == Spec => []BoundedParallelism
  <1>1. Init => BoundedParallelism
    <2> SUFFICES ASSUME Init PROVE BoundedParallelism
      OBVIOUS
    <2>1. Active = {}
      BY DEF Init, RepositoryInit, Active, OCCUPIED_STATES
    <2> QED  BY <2>1, FS_EmptySet, CoordinatorAssumption DEF BoundedParallelism
  <1>2. Typed /\ LocalInv /\ Appended /\ BoundedParallelism /\ [Next]_vars => BoundedParallelism'
    <2> SUFFICES ASSUME Typed, LocalInv, Appended, BoundedParallelism, [Next]_vars
                 PROVE  BoundedParallelism'
      OBVIOUS
    <2>1. CASE \E p \in Processes : Claim(p)
      BY <2>1, ClaimBounded
    <2>2. CASE \A p \in Processes : ~Claim(p)
      <3>1. Active' \subseteq Active
        BY <2>2, StepMoves, ActiveShrinks
      <3>2. IsFiniteSet(Active)
        <4>1. Active \subseteq Runs
          BY DEF Active
        <4> QED  BY <4>1, RepositoryAssumption, FS_Subset
      <3>3. /\ Cardinality(Active') <= Cardinality(Active)
            /\ Cardinality(Active') \in Nat /\ Cardinality(Active) \in Nat
        BY <3>1, <3>2, FS_Subset, FS_CardinalityType
      <3> QED  BY <3>3, CoordinatorAssumption DEF BoundedParallelism
    <2> QED  BY <2>1, <2>2
  <1> QED
    BY <1>1, <1>2, TypedInit, TypedStep, LocalInvInit, LocalInvStep, AppendedInit, AppendedStep, PTL
    DEF Spec
=============================================================================
