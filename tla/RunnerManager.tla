---------------------------- MODULE RunnerManager ----------------------------
(***************************************************************************)
(* RunnerManager.execute of services/runner_manager.py: one worker takes   *)
(* one run through one attempt.  The method is a straight line of separate *)
(* transactions; a worker's pc names the call it makes next, and between   *)
(* two of them the run may be cancelled and the attempt may be reaped.     *)
(*                                                                         *)
(* A worker enters at "load".  It leaves through "failed" when an          *)
(* exception propagates, through "claim" when it calls the completion      *)
(* callback, and through "refilled" when it returns without calling it.    *)
(***************************************************************************)
EXTENDS BatchCoordinator

CONSTANTS
    Workers,            \* threads that run RunnerManager.execute
    ExecutorResults,    \* results the executor of the task may hand back
    NoRun,              \* the job of a worker that has none
    MaxAttempts,        \* retry.max_attempts of the task's policy
    RetryOn,            \* retry.retry_on of the task's policy
    HasRetryScheduler   \* whether the manager was given a retry_scheduler

VARIABLES
    job,     \* the run each worker executes
    number,  \* the attempt number it began
    result   \* the result it holds, "NONE" before the executor returned

workerVars == <<job, number, result>>

ResultOutcome == RUN_TERMINAL

\* "IDENTITY_ERROR" is the INFRA_ERROR result of a RunnerIdentityError that is
\* raised again once the attempt and the run have been settled.
Result == ResultOutcome \cup {"NONE", "IDENTITY_ERROR"}

ASSUME ManagerAssumption ==
    /\ Workers \subseteq Processes
    /\ ExecutorResults \subseteq Result \ {"NONE"}
    /\ NoRun \notin Runs
    /\ MaxAttempts \in Nat \ {0}
    /\ RetryOn \subseteq ResultOutcome
    /\ HasRetryScheduler \in BOOLEAN

ManagerLabels ==
    {"load", "begin", "prepare", "launch", "execute", "check_cancel", "check_lost",
     "collect", "complete", "decide", "retry_wait", "schedule", "mark_cancelling",
     "settle", "give_up"}

Labels == ManagerLabels \cup {"idle", "materialize", "lock", "failed",
                              "claim", "dispatch", "dispatch_failed", "refilled"}

ManagerTypeOK ==
    /\ pc \in [Processes -> Labels]
    /\ job \in [Workers -> Runs \cup {NoRun}]
    /\ number \in [Workers -> 0..AttemptBound]
    /\ result \in [Workers -> Result]

Mine(w) == <<job[w], number[w]>>

\* _RESULT_STATES: the attempt and the run end in the state of the outcome.
Verdict(w) == IF result[w] = "IDENTITY_ERROR" THEN "INFRA_ERROR" ELSE result[w]

At(w, label) == pc[w] = label /\ UNCHANGED <<todo, refill>>

-----------------------------------------------------------------------------
\* The run must be DISPATCHING when the manager reads it.
Load(w) ==
    /\ At(w, "load")
    /\ Goto(w, IF run[job[w]] = "DISPATCHING" THEN "begin" ELSE "failed")
    /\ UNCHANGED <<repoVars, workerVars>>

\* begin_attempt arbitrates between managers and against a cancel.
Begin(w) ==
    /\ At(w, "begin")
    /\ \/ /\ BeginAttempt(job[w])
          /\ number' = [number EXCEPT ![w] = made[job[w]] + 1]
          /\ Goto(w, "prepare")
       \/ /\ ~CanTransition(job[w], "RUNNING")
          /\ Goto(w, "failed")
          /\ UNCHANGED <<repoVars, number>>
    /\ UNCHANGED <<job, result>>

\* transition_attempt outside any handler: InvalidTransition propagates.
Advance(w, from, target, next) ==
    /\ At(w, from)
    /\ \/ TransitionAttempt(Mine(w), target) /\ Goto(w, next)
       \/ /\ ~CanTransitionAttempt(Mine(w), target)
          /\ Goto(w, "failed")
          /\ UNCHANGED repoVars
    /\ UNCHANGED workerVars

Prepare(w) == Advance(w, "prepare", "PREPARING", "launch")
Launch(w) == Advance(w, "launch", "RUNNING", "execute")

\* A heartbeat event renews the lease.  One that is refused ends the event
\* stream, and the executor will raise instead of returning a result.
Heartbeat(w) ==
    /\ At(w, "execute")
    /\ result[w] = "NONE"
    /\ \/ RenewAttemptLease(Mine(w)) /\ UNCHANGED result
       \/ /\ ~CanRenew(Mine(w))
          /\ result' = [result EXCEPT ![w] = "INFRA_ERROR"]
          /\ UNCHANGED repoVars
    /\ UNCHANGED <<pc, job, number>>

\* The executor returns a result, or raises.
ExecutorReturns(w) ==
    /\ At(w, "execute")
    /\ \E o \in IF result[w] = "NONE" THEN ExecutorResults ELSE {result[w]} :
        result' = [result EXCEPT ![w] = o]
    /\ Goto(w, "check_cancel")
    /\ UNCHANGED <<repoVars, job, number>>

\* A success of a run that is being cancelled becomes a CANCELLED result.
CheckCancel(w) ==
    /\ At(w, "check_cancel")
    /\ result' = [result EXCEPT ![w] =
        IF @ = "SUCCEEDED" /\ run[job[w]] = "CANCELLING" THEN "CANCELLED" ELSE @]
    /\ Goto(w, "check_lost")
    /\ UNCHANGED <<repoVars, job, number>>

\* A reaped attempt: the worker returns without calling the callback.
CheckLost(w) ==
    /\ At(w, "check_lost")
    /\ Goto(w, IF attempt[Mine(w)] = "LOST" THEN "refilled" ELSE "collect")
    /\ UNCHANGED <<repoVars, workerVars>>

\* COLLECTING and then the result, each with the LOST attempt as early return.
Finish(w, from, Write(_, _), target, next) ==
    /\ At(w, from)
    /\ \/ Write(Mine(w), target) /\ Goto(w, next)
       \/ /\ ~CanTransitionAttempt(Mine(w), target)
          /\ Goto(w, IF attempt[Mine(w)] = "LOST" THEN "refilled" ELSE "failed")
          /\ UNCHANGED repoVars
    /\ UNCHANGED workerVars

\* Mutant: complete_attempt is forgotten.
CollectOnly(w) == Finish(w, "collect", TransitionAttempt, "COLLECTING", "decide")

Collect(w) == Finish(w, "collect", TransitionAttempt, "COLLECTING", "complete")
Complete(w) == Finish(w, "complete", CompleteAttempt, Verdict(w), "decide")

\* decide_retry: the policy's attempts are not used up and the outcome is one
\* it retries.  Whether an HTTP task is idempotent is part of RetryOn.
ShouldRetry(w) == made[job[w]] < MaxAttempts /\ Verdict(w) \in RetryOn

Decide(w) ==
    /\ At(w, "decide")
    /\ Goto(w, CASE ShouldRetry(w) /\ HasRetryScheduler  -> "retry_wait"
                 [] ShouldRetry(w) /\ ~HasRetryScheduler -> "give_up"
                 [] ~ShouldRetry(w) /\ Verdict(w) = "CANCELLED" -> "mark_cancelling"
                 [] OTHER -> "settle")
    /\ UNCHANGED <<repoVars, workerVars>>

\* repository.transition of the worker's run; InvalidTransition propagates.
MoveRun(w, from, target, next) ==
    /\ At(w, from)
    /\ \/ Transition(job[w], target) /\ Goto(w, next)
       \/ ~CanTransition(job[w], target) /\ Goto(w, "failed") /\ UNCHANGED repoVars
    /\ UNCHANGED workerVars

RetryWait(w) == MoveRun(w, "retry_wait", "RETRY_WAIT", "schedule")

Settle(w) == MoveRun(w, "settle", Verdict(w), "claim")

\* A retryable result without a scheduler, or one whose scheduling failed, is
\* final; this path returns the result even if it came from an identity error.
GiveUp(w) ==
    /\ At(w, "give_up")
    /\ \/ Transition(job[w], "INFRA_ERROR") /\ Goto(w, "claim")
       \/ /\ ~CanTransition(job[w], "INFRA_ERROR")
          /\ Goto(w, "failed")
          /\ UNCHANGED repoVars
    /\ result' = [result EXCEPT ![w] = Verdict(w)]
    /\ UNCHANGED <<job, number>>

\* A CANCELLED result of a run nobody cancelled passes through CANCELLING.
MarkCancelling(w) ==
    /\ At(w, "mark_cancelling")
    /\ \/ Transition(job[w], "CANCELLING") /\ Goto(w, "settle")
       \/ /\ ~CanTransition(job[w], "CANCELLING")
          /\ Goto(w, IF run[job[w]] = "CANCELLING" THEN "settle" ELSE "failed")
          /\ UNCHANGED repoVars
    /\ UNCHANGED workerVars

ManagerStep(w) ==
    \/ Load(w) \/ Begin(w) \/ Prepare(w) \/ Launch(w)
    \/ ExecutorReturns(w) \/ CheckCancel(w) \/ CheckLost(w)
    \/ Collect(w) \/ Complete(w) \/ Decide(w)
    \/ RetryWait(w) \/ GiveUp(w) \/ MarkCancelling(w) \/ Settle(w)
=============================================================================
