------------------------- MODULE CeleryOrchestration -------------------------
(***************************************************************************)
(* The distributed deployment of one batch: CeleryRunDispatcher and        *)
(* CeleryRetryScheduler send tasks through a broker, Celery workers handle *)
(* them (workers/tasks.py), Runner Managers on several nodes execute runs, *)
(* and Celery Beat runs the reaper.                                        *)
(*                                                                         *)
(* Tasks are acknowledged late: a message leaves the broker only after its *)
(* handler returned, so it can be handled again.  How a DISPATCHING run    *)
(* reaches a manager is outside the repository; here any idle manager may  *)
(* pick it up, two of them at once as well, and on_run_finished is its     *)
(* completion callback, as in the local runner.                            *)
(***************************************************************************)
EXTENDS RunnerManager

CONSTANTS
    Api,              \* the request that executed the plan
    TaskWorkers,      \* Celery worker processes
    CancellableRuns,  \* runs a user may ask to cancel
    AmbiguousRuns,    \* runs whose send_task may raise after the broker accepted
    Redeliveries,     \* bound: deliveries of messages that stay in the broker
    MaxCrashes,       \* bound: crashes of managers
    MaxTaskCrashes    \* bound: crashes of Celery workers

ASSUME CeleryAssumption ==
    /\ Api \notin Workers /\ Processes = Workers \cup {Api}
    /\ CancellableRuns \subseteq Runs
    /\ AmbiguousRuns \subseteq Runs
    /\ Redeliveries \in Nat /\ MaxCrashes \in Nat /\ MaxTaskCrashes \in Nat
    /\ HasRetryScheduler = TRUE

VARIABLES
    broker,      \* messages <<task, run, attempt>> that are not acknowledged
    retrying,    \* the message each Celery worker is between the two steps of retry_run for
    redelivered, crashes, taskCrashes

counters == <<redelivered, crashes, taskCrashes>>
celeryVars == <<broker, retrying, counters>>
vars == <<repoVars, coordinatorVars, workerVars, celeryVars>>

\* retry_run takes a run only; the attempt it was sent after tells messages apart
Messages == {"prepare_run", "retry_run"} \X Runs \X (0..AttemptBound)
NoMessage == <<>>

TypeOK ==
    /\ RepositoryTypeOK /\ CoordinatorTypeOK /\ ManagerTypeOK
    /\ broker \subseteq Messages
    /\ retrying \in [TaskWorkers -> Messages \cup {NoMessage}]
    /\ redelivered \in 0..Redeliveries
    /\ crashes \in 0..MaxCrashes /\ taskCrashes \in 0..MaxTaskCrashes

Init ==
    /\ RepositoryInit
    /\ pc = [p \in Processes |-> IF p = Api THEN "claim" ELSE "idle"]
    /\ todo = [p \in Processes |-> {}]
    /\ refill = [p \in Processes |-> FALSE]
    /\ job = [w \in Workers |-> NoRun]
    /\ number = [w \in Workers |-> 0]
    /\ result = [w \in Workers |-> "NONE"]
    /\ broker = {}
    /\ retrying = [t \in TaskWorkers |-> NoMessage]
    /\ redelivered = 0 /\ crashes = 0 /\ taskCrashes = 0

-----------------------------------------------------------------------------
(* The coordinator, with CeleryRunDispatcher as its dispatcher.            *)

Claim(p) == ClaimAvailableRuns(p) /\ UNCHANGED <<workerVars, celeryVars>>

SendPrepare(p, r) ==
    /\ Dispatched(p, r)
    /\ broker' = broker \cup {<<"prepare_run", r, 0>>}
    /\ UNCHANGED <<repoVars, workerVars, retrying, counters>>

\* send_task raised: nothing was sent, or the broker took the message anyway.
SendRaised(message) ==
    \/ UNCHANGED broker
    \/ message[2] \in AmbiguousRuns /\ broker' = broker \cup {message}

SendPrepareRaises(p, r) ==
    /\ DispatchRaised(p, r)
    /\ SendRaised(<<"prepare_run", r, 0>>)
    /\ UNCHANGED <<repoVars, workerVars, retrying, counters>>

SendFails(p, r) == FailDispatch(p, r) /\ UNCHANGED <<workerVars, celeryVars>>

CoordinatorStep(p) ==
    \/ Claim(p)
    \/ \E r \in Runs : SendPrepare(p, r) \/ SendPrepareRaises(p, r) \/ SendFails(p, r)

-----------------------------------------------------------------------------
(* The Celery tasks.                                                       *)

\* The handler returned.  The acknowledgement may be lost: the message stays.
Acknowledge(message) ==
    \/ broker' = broker \ {message} /\ UNCHANGED redelivered
    \/ /\ redelivered < Redeliveries
       /\ redelivered' = redelivered + 1
       /\ UNCHANGED broker

\* Mutant: the run becomes DISPATCHING whatever state it is in.
PrepareRunUnchecked(r) ==
    run' = [run EXCEPT ![r] = "DISPATCHING"] /\ UNCHANGED <<made, attempt, lease>>

\* prepare_run: only a QUEUED run moves on; one already past it is returned.
PrepareRun(r) ==
    \/ Transition(r, "DISPATCHING")
    \/ ~CanTransition(r, "DISPATCHING") /\ UNCHANGED repoVars

PrepareRunTask(r) ==
    /\ <<"prepare_run", r, 0>> \in broker
    /\ PrepareRun(r)
    /\ Acknowledge(<<"prepare_run", r, 0>>)
    /\ UNCHANGED <<coordinatorVars, workerVars, retrying, crashes, taskCrashes>>

\* retry_run, first transaction.  Any state but RETRY_WAIT ends the task.
RetryRunTask(t, r, n) ==
    /\ <<"retry_run", r, n>> \in broker
    /\ retrying[t] = NoMessage
    /\ \/ /\ run[r] = "RETRY_WAIT"
          /\ Transition(r, "QUEUED")
          /\ retrying' = [retrying EXCEPT ![t] = <<"retry_run", r, n>>]
          /\ UNCHANGED <<broker, redelivered>>
       \/ /\ run[r] # "RETRY_WAIT"
          /\ Acknowledge(<<"retry_run", r, n>>)
          /\ UNCHANGED <<repoVars, retrying>>
    /\ UNCHANGED <<coordinatorVars, workerVars, crashes, taskCrashes>>

\* retry_run, second transaction: prepare_run.
RetryRunPrepares(t) ==
    /\ retrying[t] # NoMessage
    /\ PrepareRun(retrying[t][2])
    /\ Acknowledge(retrying[t])
    /\ retrying' = [retrying EXCEPT ![t] = NoMessage]
    /\ UNCHANGED <<coordinatorVars, workerVars, crashes, taskCrashes>>

\* The worker dies inside retry_run; the message was not acknowledged.
TaskWorkerCrash(t) ==
    /\ retrying[t] # NoMessage /\ taskCrashes < MaxTaskCrashes
    /\ taskCrashes' = taskCrashes + 1
    /\ retrying' = [retrying EXCEPT ![t] = NoMessage]
    /\ UNCHANGED <<repoVars, coordinatorVars, workerVars, broker, redelivered, crashes>>

TaskStep(t) == RetryRunPrepares(t) \/ \E r \in Runs, n \in 1..AttemptBound : RetryRunTask(t, r, n)

-----------------------------------------------------------------------------
(* The Runner Managers.                                                    *)

PickUp(w, r) ==
    /\ At(w, "idle")
    /\ run[r] = "DISPATCHING"
    /\ job' = [job EXCEPT ![w] = r]
    /\ Goto(w, "load")
    /\ UNCHANGED <<repoVars, number, result, celeryVars>>

RetryMessage(w) == <<"retry_run", job[w], number[w]>>

\* Mutant: a failure to schedule is swallowed.
ScheduleSilently(w) ==
    /\ At(w, "schedule")
    /\ broker' = broker \cup {RetryMessage(w)} \/ SendRaised(RetryMessage(w))
    /\ Goto(w, "refilled")
    /\ result' = [result EXCEPT ![w] = Verdict(w)]
    /\ UNCHANGED <<repoVars, job, number, retrying, counters>>

\* CeleryRetryScheduler.schedule.  The countdown only delays the delivery.
Schedule(w) ==
    /\ At(w, "schedule")
    /\ \/ broker' = broker \cup {RetryMessage(w)} /\ Goto(w, "refilled")
       \/ SendRaised(RetryMessage(w)) /\ Goto(w, "give_up")
    /\ result' = [result EXCEPT ![w] = Verdict(w)]
    /\ UNCHANGED <<repoVars, job, number, retrying, counters>>

Leave(w) ==
    /\ job' = [job EXCEPT ![w] = NoRun]
    /\ number' = [number EXCEPT ![w] = 0]
    /\ result' = [result EXCEPT ![w] = "NONE"]

\* execute returned or raised; nothing else handles the manager's errors.
Return(w) ==
    /\ At(w, "refilled") \/ At(w, "failed")
    /\ Goto(w, "idle")
    /\ Leave(w)
    /\ UNCHANGED <<repoVars, celeryVars>>

ManagerCrash(w) ==
    /\ pc[w] # "idle" /\ crashes < MaxCrashes
    /\ crashes' = crashes + 1
    /\ Goto(w, "idle")
    /\ todo' = [todo EXCEPT ![w] = {}]
    /\ refill' = [refill EXCEPT ![w] = FALSE]
    /\ Leave(w)
    /\ UNCHANGED <<repoVars, broker, retrying, redelivered, taskCrashes>>

WorkerStep(w) ==
    \/ \E r \in Runs : PickUp(w, r)
    \/ ManagerStep(w) /\ UNCHANGED celeryVars
    \/ Schedule(w) \/ Return(w)

-----------------------------------------------------------------------------
CancelRequest(r) ==
    /\ r \in CancellableRuns
    /\ Cancel(r)
    /\ UNCHANGED <<coordinatorVars, workerVars, celeryVars>>

Reap ==
    /\ \E S \in SUBSET Expired : ExpireAttemptLeases(S)
    /\ UNCHANGED <<coordinatorVars, workerVars, celeryVars>>

TimePasses == Tick /\ UNCHANGED <<coordinatorVars, workerVars, celeryVars>>

Next ==
    \/ \E p \in Processes : CoordinatorStep(p)
    \/ \E r \in Runs : PrepareRunTask(r) \/ CancelRequest(r)
    \/ \E t \in TaskWorkers : TaskStep(t) \/ TaskWorkerCrash(t)
    \/ \E w \in Workers : \/ WorkerStep(w) \/ ManagerCrash(w)
                          \/ Heartbeat(w) /\ UNCHANGED celeryVars
    \/ Reap \/ TimePasses

Spec == Init /\ [][Next]_vars

\* Processes that are up keep working, and the broker keeps delivering.
FairSpec ==
    /\ Spec
    /\ \A p \in Processes : WF_vars(CoordinatorStep(p))
    /\ \A r \in Runs : WF_vars(PrepareRunTask(r))
    /\ \A t \in TaskWorkers : WF_vars(TaskStep(t))
    /\ \A w \in Workers : WF_vars(WorkerStep(w))
    /\ WF_vars(Reap) /\ WF_vars(TimePasses)

-----------------------------------------------------------------------------
\* A run is executed by at most one attempt at a time, although messages are
\* delivered twice, several managers pick up the same run and retries begin
\* new attempts.
OneLiveAttempt ==
    \A r \in Runs, m, n \in 1..AttemptBound :
        Leased(<<r, m>>) /\ Leased(<<r, n>>) => m = n

\* The retry policy's max_attempts bounds the attempts of a run, although
\* begin_attempt does not look at it and retry_run may be handled twice.
AttemptsBounded == \A r \in Runs : made[r] <= MaxAttempts

\* A run waiting for its retry is taken on by a manager, or ends, whatever
\* messages are lost, sent twice or redelivered, as long as no manager and no
\* task worker dies: retry_run releases the run in a transaction of its own, so
\* the redelivery after a crash between its two finds nothing left to do.
RetriesResume ==
    [](crashes = 0 /\ taskCrashes = 0) =>
       \A r \in Runs : run[r] = "RETRY_WAIT" ~> run[r] \notin {"RETRY_WAIT", "QUEUED"}

\* Redelivered and ambiguous messages, competing managers and the reaper never
\* leave a run with two live attempts, with more attempts than its policy
\* allows or with a verdict none of its attempts came to.
AttemptsAreSound == TypeOK /\ OneLiveAttempt /\ AttemptsBounded /\ VerdictIsBacked
=============================================================================
