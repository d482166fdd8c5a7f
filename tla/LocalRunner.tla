----------------------------- MODULE LocalRunner -----------------------------
(***************************************************************************)
(* The node-local deployment: services/local_runner_service.py inside the  *)
(* API process, with DatabaseRunDispatcher, executing one batch.  A poller *)
(* thread submits DISPATCHING runs to a thread pool whose workers run      *)
(* RunnerManager.execute and, when a run has finished, refill the batch.   *)
(* Beside them act the API (the request that executed the plan, and        *)
(* cancels), the clock, and the reaper, which is another process.  The API *)
(* process may stop or crash; what the database holds survives.            *)
(***************************************************************************)
EXTENDS RunnerManager

CONSTANTS
    Api,              \* the request that executed the plan
    NoWorker,         \* nobody holds the host project lock
    HostRuns,         \* runs of one host project, which share its lock
    CancellableRuns,  \* runs a user may ask to cancel
    ReaperDeployed,   \* whether Celery Beat runs beside the local runner
    MaxStops,         \* bound: stops of the service
    MaxCrashes        \* bound: crashes of the API process

ASSUME LocalRunnerAssumption ==
    /\ Api \notin Workers /\ Processes = Workers \cup {Api}
    /\ NoWorker \notin Workers
    /\ HostRuns \subseteq Runs /\ CancellableRuns \subseteq Runs
    /\ ReaperDeployed \in BOOLEAN
    /\ MaxStops \in Nat /\ MaxCrashes \in Nat
    /\ HasRetryScheduler = FALSE

VARIABLES
    service,    \* "up", "stopping" (stop() is joining its threads) or "down"
    snapshot,   \* DISPATCHING runs poll_once listed and has yet to look at
    submitted,  \* _submitted: runs handed to the pool and not completed
    queue,      \* the part of `submitted` no worker has taken yet
    hostLock,   \* holder of the lock of the host project
    stops, crashes

serviceVars == <<service, snapshot, submitted, queue, hostLock, stops, crashes>>
vars == <<repoVars, coordinatorVars, workerVars, serviceVars>>

TypeOK ==
    /\ RepositoryTypeOK /\ CoordinatorTypeOK /\ ManagerTypeOK
    /\ service \in {"up", "stopping", "down"}
    /\ snapshot \subseteq Runs /\ submitted \subseteq Runs /\ queue \subseteq Runs
    /\ hostLock \in Workers \cup {NoWorker}
    /\ stops \in 0..MaxStops /\ crashes \in 0..MaxCrashes

\* The batch has been expanded into CREATED runs and its request dispatches.
Init ==
    /\ RepositoryInit
    /\ pc = [p \in Processes |-> IF p = Api THEN "claim" ELSE "idle"]
    /\ todo = [p \in Processes |-> {}]
    /\ refill = [p \in Processes |-> FALSE]
    /\ job = [w \in Workers |-> NoRun]
    /\ number = [w \in Workers |-> 0]
    /\ result = [w \in Workers |-> "NONE"]
    /\ service = "up"
    /\ snapshot = {} /\ submitted = {} /\ queue = {}
    /\ hostLock = NoWorker
    /\ stops = 0 /\ crashes = 0

-----------------------------------------------------------------------------
(* The coordinator, with DatabaseRunDispatcher as its dispatcher.          *)

Claim(p) == ClaimAvailableRuns(p) /\ UNCHANGED <<workerVars, serviceVars>>

\* A run that is no longer QUEUED (it was cancelled) is left as it is.
Dispatch(p, r) ==
    /\ Dispatched(p, r)
    /\ \/ Transition(r, "DISPATCHING")
       \/ ~CanTransition(r, "DISPATCHING") /\ UNCHANGED repoVars
    /\ UNCHANGED <<workerVars, serviceVars>>

\* The dispatcher's transaction failed.
DispatchRaises(p, r) ==
    DispatchRaised(p, r) /\ UNCHANGED <<repoVars, workerVars, serviceVars>>

DispatchFails(p, r) == FailDispatch(p, r) /\ UNCHANGED <<workerVars, serviceVars>>

CoordinatorStep(p) ==
    \/ Claim(p)
    \/ \E r \in Runs : Dispatch(p, r) \/ DispatchRaises(p, r) \/ DispatchFails(p, r)

-----------------------------------------------------------------------------
(* The poller thread.                                                      *)

PollList ==
    /\ service = "up"
    /\ snapshot = {}
    /\ snapshot' = {r \in Runs : run[r] = "DISPATCHING"}
    /\ UNCHANGED <<repoVars, coordinatorVars, workerVars,
                   service, submitted, queue, hostLock, stops, crashes>>

\* Mutant: a listed run is submitted whether or not it already was.
PollSubmitAgain(r) ==
    /\ r \in snapshot
    /\ snapshot' = snapshot \ {r}
    /\ submitted' = submitted \cup {r} /\ queue' = queue \cup {r}
    /\ UNCHANGED <<repoVars, coordinatorVars, workerVars,
                   service, hostLock, stops, crashes>>

\* The listing may be stale by now: only _submitted is looked at.
\* The except of pool.submit, for a thread that cannot be started, is left out.
PollSubmit(r) ==
    /\ r \in snapshot
    /\ snapshot' = snapshot \ {r}
    /\ IF r \in submitted
       THEN UNCHANGED <<submitted, queue>>
       ELSE submitted' = submitted \cup {r} /\ queue' = queue \cup {r}
    /\ UNCHANGED <<repoVars, coordinatorVars, workerVars,
                   service, hostLock, stops, crashes>>

-----------------------------------------------------------------------------
(* _execute_run, around the manager.                                       *)

Take(w, r) ==
    /\ At(w, "idle")
    /\ r \in queue
    /\ queue' = queue \ {r}
    /\ job' = [job EXCEPT ![w] = r]
    /\ Goto(w, "materialize")
    /\ UNCHANGED <<repoVars, number, result,
                   service, snapshot, submitted, hostLock, stops, crashes>>

\* Resolving the run's specification, sources and task may raise.
Materialize(w) ==
    /\ At(w, "materialize")
    /\ \/ Goto(w, IF job[w] \in HostRuns THEN "lock" ELSE "load")
       \/ Goto(w, "failed")
    /\ UNCHANGED <<repoVars, workerVars, serviceVars>>

AcquireHostLock(w) ==
    /\ At(w, "lock")
    /\ hostLock = NoWorker
    /\ hostLock' = w
    /\ Goto(w, "load")
    /\ UNCHANGED <<repoVars, workerVars,
                   service, snapshot, submitted, queue, stops, crashes>>

ReleaseHostLock(w) == hostLock' = IF hostLock = w THEN NoWorker ELSE hostLock

\* Mutant: the run is left in whatever state the exception found it.
ConvergeNothing(w) ==
    /\ At(w, "failed")
    /\ Goto(w, "claim")
    /\ result' = [result EXCEPT ![w] = "INFRA_ERROR"]
    /\ ReleaseHostLock(w)
    /\ UNCHANGED <<repoVars, job, number, service, snapshot, submitted, queue, stops, crashes>>

\* _converge_infra_error, then on_run_finished.
Converge(w) ==
    /\ At(w, "failed")
    /\ IF Terminal(job[w]) \/ run[job[w]] = "CREATED"
       THEN UNCHANGED repoVars
       ELSE Transition(job[w], "INFRA_ERROR")
    /\ Goto(w, "claim")
    /\ result' = [result EXCEPT ![w] = "INFRA_ERROR"]
    /\ ReleaseHostLock(w)
    /\ UNCHANGED <<job, number, service, snapshot, submitted, queue, stops, crashes>>

\* The manager has returned.  An identity error it had kept is raised now;
\* otherwise the future completes and _completed forgets the run.
Return(w) ==
    /\ At(w, "refilled")
    /\ UNCHANGED <<repoVars, service, snapshot, queue, stops, crashes>>
    /\ IF result[w] = "IDENTITY_ERROR" /\ attempt[Mine(w)] # "LOST"
       THEN /\ Goto(w, "failed")
            /\ UNCHANGED <<workerVars, submitted, hostLock>>
       ELSE /\ Goto(w, "idle")
            /\ submitted' = submitted \ {job[w]}
            /\ job' = [job EXCEPT ![w] = NoRun]
            /\ number' = [number EXCEPT ![w] = 0]
            /\ result' = [result EXCEPT ![w] = "NONE"]
            /\ ReleaseHostLock(w)

WorkerStep(w) ==
    \/ \E r \in Runs : Take(w, r)
    \/ Materialize(w) \/ AcquireHostLock(w) \/ Converge(w) \/ Return(w)
    \/ ManagerStep(w) /\ UNCHANGED serviceVars

-----------------------------------------------------------------------------
(* Life of the API process.                                                *)

\* stop() lets the poller finish its pass and the pool drain its queue.
Stop ==
    /\ service = "up" /\ stops < MaxStops
    /\ service' = "stopping"
    /\ stops' = stops + 1
    /\ UNCHANGED <<repoVars, coordinatorVars, workerVars,
                   snapshot, submitted, queue, hostLock, crashes>>

Stopped ==
    /\ service = "stopping"
    /\ snapshot = {} /\ queue = {}
    /\ \A w \in Workers : pc[w] = "idle"
    /\ service' = "down"
    /\ submitted' = {}
    /\ UNCHANGED <<repoVars, coordinatorVars, workerVars,
                   snapshot, queue, hostLock, stops, crashes>>

Start ==
    /\ service = "down"
    /\ service' = "up"
    /\ UNCHANGED <<repoVars, coordinatorVars, workerVars,
                   snapshot, submitted, queue, hostLock, stops, crashes>>

\* Every thread of the process is gone, and all that was only in memory.
Crash ==
    /\ service # "down" /\ crashes < MaxCrashes
    /\ crashes' = crashes + 1
    /\ service' = "down"
    /\ snapshot' = {} /\ submitted' = {} /\ queue' = {}
    /\ hostLock' = NoWorker
    /\ pc' = [p \in Processes |-> IF p = Api THEN "refilled" ELSE "idle"]
    /\ todo' = [p \in Processes |-> {}]
    /\ refill' = [p \in Processes |-> FALSE]
    /\ job' = [w \in Workers |-> NoRun]
    /\ number' = [w \in Workers |-> 0]
    /\ result' = [w \in Workers |-> "NONE"]
    /\ UNCHANGED <<repoVars, stops>>

-----------------------------------------------------------------------------
(* The other actors.                                                       *)

CancelRequest(r) ==
    /\ r \in CancellableRuns
    /\ Cancel(r)
    /\ UNCHANGED <<coordinatorVars, workerVars, serviceVars>>

Reap ==
    /\ ReaperDeployed
    /\ \E S \in SUBSET Expired : ExpireAttemptLeases(S)
    /\ UNCHANGED <<coordinatorVars, workerVars, serviceVars>>

TimePasses == Tick /\ UNCHANGED <<coordinatorVars, workerVars, serviceVars>>

Next ==
    \/ \E p \in Processes : CoordinatorStep(p)
    \/ \E w \in Workers : WorkerStep(w) \/ (Heartbeat(w) /\ UNCHANGED serviceVars)
    \/ PollList \/ \E r \in Runs : PollSubmit(r)
    \/ Stop \/ Stopped \/ Start \/ Crash
    \/ \E r \in Runs : CancelRequest(r)
    \/ Reap \/ TimePasses

Spec == Init /\ [][Next]_vars

-----------------------------------------------------------------------------
(* Fairness.  Threads of a live process keep running: the executor returns *)
(* because every container and subprocess has a deadline, the poll loop    *)
(* wakes up, and a stopped or crashed service is started again.  Nothing   *)
(* obliges a user to cancel or a process to crash.                         *)

ThreadFairness ==
    /\ \A p \in Processes : WF_vars(CoordinatorStep(p))
    /\ \A w \in Workers : WF_vars(WorkerStep(w))
    /\ WF_vars(PollList) /\ WF_vars(\E r \in Runs : PollSubmit(r))
    /\ WF_vars(Stopped) /\ WF_vars(Start)

\* Celery Beat runs the reaper periodically, and time passes.
ReaperFairness == WF_vars(Reap) /\ WF_vars(TimePasses)

FairSpec == Spec /\ ThreadFairness /\ ReaperFairness

-----------------------------------------------------------------------------
(* Safety.                                                                 *)

\* Two worker threads never execute the same run, although poll_once acts on
\* a listing that may be older than a completed execution.
NoDoubleExecution ==
    \A v, w \in Workers : v # w /\ job[v] # NoRun => job[v] # job[w]

-----------------------------------------------------------------------------
(* The inductive invariant behind the safety properties: who may still     *)
(* touch a run, and what its attempt looks like at each point of execute.  *)

NoLease(r) == \A n \in 1..AttemptBound : ~Leased(<<r, n>>)

\* Labels at which a worker has a run but no live attempt of it.
Outside == {"materialize", "lock", "load", "begin", "failed",
            "claim", "dispatch", "dispatch_failed", "refilled"}

\* States of the worker's own attempt while it is between begin and settle.
OwnAttempt(w) ==
    CASE pc[w] = "prepare" -> {"CLAIMED", "LOST"}
      [] pc[w] = "launch" -> {"PREPARING", "LOST"}
      [] pc[w] \in {"execute", "check_cancel", "check_lost", "collect"} -> {"RUNNING", "LOST"}
      [] pc[w] = "complete" -> {"COLLECTING", "LOST"}
      [] OTHER -> {Verdict(w)}

WorkerOK(w) ==
    /\ pc[w] \notin {"retry_wait", "schedule"}
    /\ pc[w] = "idle" <=> job[w] = NoRun
    /\ pc[w] \in Outside => NoLease(job[w])
    /\ pc[w] \notin Outside \cup {"idle"} =>
          /\ number[w] = made[job[w]] /\ number[w] > 0
          /\ attempt[Mine(w)] \in OwnAttempt(w)
          /\ \A n \in 1..AttemptBound : n # number[w] => ~Leased(<<job[w], n>>)
    /\ pc[w] \in {"check_cancel", "check_lost", "collect", "complete", "decide",
                 "mark_cancelling", "settle", "give_up"} => result[w] # "NONE"

WorkerInv == \A w \in Workers : WorkerOK(w)

\* A run is with at most one of: a claimer, the poller and pool, a worker.
PoolInv ==
    /\ queue \subseteq submitted
    /\ \A w \in Workers : job[w] # NoRun => job[w] \in submitted \ queue
    /\ \A r \in queue \cup (snapshot \ submitted) : NoLease(r)
    /\ \A r \in snapshot \cup submitted : run[r] \notin {"CREATED", "QUEUED"}

TodoInv ==
    /\ \A p \in Processes : \A r \in todo[p] :
          run[r] \in {"QUEUED", "CANCELLING"} /\ NoLease(r) /\ r \notin snapshot \cup submitted
    /\ \A p, q \in Processes : p # q => todo[p] \cap todo[q] = {}

\* Only the last attempt of a run may hold a lease.
LeaseIsLast == \A a \in Attempts : Leased(a) => a[2] = made[a[1]]

\* The inductive invariant of the node-local deployment, from poll_once and
\* dispatch_available to the last transaction of RunnerManager.execute.
LocalInv ==
    /\ LeaseHasLiveRun /\ VerdictIsBacked /\ NoDoubleExecution
    /\ WorkerInv /\ PoolInv /\ TodoInv /\ LeaseIsLast

-----------------------------------------------------------------------------
(* Liveness.                                                               *)

\* Every attempt that holds a lease ends, even if its process crashes.
LeasesEnd == \A a \in Attempts : Leased(a) ~> attempt[a] \in ATTEMPT_TERMINAL

\* A run that began to run reaches a terminal state, cancelled or not.
RunningConverges == \A r \in Runs : run[r] = "RUNNING" ~> Terminal(r)

\* A run that began to run reaches a terminal state, whatever is cancelled,
\* reaped, raised or stopped meanwhile, as long as the process never crashes.
RunningConvergesUnlessCrashed == [](crashes = 0) => RunningConverges

\* Every run of the batch reaches a terminal state: finishing a run always
\* brings in the next one.
BatchDrains == <>(\A r \in Runs : Terminal(r))

\* The refills of finishing workers alone drain the batch, across a stop of
\* the service, if nothing is cancelled, no lease expires and nothing crashes.
UndisturbedBatchDrains ==
    [](/\ crashes = 0
       /\ \A r \in Runs : run[r] # "CANCELLING"
       /\ \A a \in Attempts : attempt[a] # "LOST") => BatchDrains

\* A cancelled run reaches a terminal state.
CancelConverges == \A r \in Runs : run[r] = "CANCELLING" ~> Terminal(r)

\* What the fair threads of the service bring about: every lease ends, a run
\* that began to run ends unless the process crashed, and the refills of
\* finishing workers drain a batch nobody disturbs.
RunsConverge == LeasesEnd /\ RunningConvergesUnlessCrashed /\ UndisturbedBatchDrains
=============================================================================
