--------------------------- MODULE BatchCoordinator ---------------------------
(***************************************************************************)
(* ExecutionBatchCoordinator of services/api/execution_coordinator.py and  *)
(* claim_available_runs of services/api/test_plan_sql_repository.py: the   *)
(* bounded dispatch of one execution batch.  dispatch_available is a loop  *)
(* of separate transactions, and several processes may be inside it at     *)
(* once: the request that executed the plan, and every worker whose run    *)
(* finished (on_run_finished).                                             *)
(*                                                                         *)
(* A process enters the loop by setting its pc to "claim" and has left it  *)
(* when its pc is "refilled".  What dispatching one run does depends on    *)
(* the dispatcher and is given by the modules that extend this one.        *)
(***************************************************************************)
EXTENDS RunRepository

CONSTANTS
    Processes,    \* callers of dispatch_available
    MaxParallel   \* max_parallel of the batch

ASSUME CoordinatorAssumption == MaxParallel \in Nat \ {0}

VARIABLES
    pc,      \* where each process is
    todo,    \* runs the process has claimed and not yet dispatched
    refill   \* the process's refill flag: a dispatch failed in this round

coordinatorVars == <<pc, todo, refill>>

CoordinatorTypeOK ==
    /\ todo \in [Processes -> SUBSET Runs]
    /\ refill \in [Processes -> BOOLEAN]

Goto(p, label) == pc' = [pc EXCEPT ![p] = label]

-----------------------------------------------------------------------------
OCCUPIED_STATES == {"QUEUED", "DISPATCHING", "RUNNING", "CANCELLING", "RETRY_WAIT"}

Occupied == {r \in Runs : run[r] \in OCCUPIED_STATES}

Waiting == {r \in Runs : run[r] = "CREATED"}

\* Mutant: off by one.
AvailablePlusOne ==
    IF Cardinality(Occupied) <= MaxParallel THEN MaxParallel + 1 - Cardinality(Occupied) ELSE 0

Available ==
    IF Cardinality(Occupied) < MaxParallel THEN MaxParallel - Cardinality(Occupied) ELSE 0

\* S is the first `Available` waiting runs by position, or all of them if fewer.
IsClaim(S) ==
    /\ S \subseteq Waiting
    /\ Cardinality(S) <= Available
    /\ Cardinality(S) < Available => S = Waiting
    /\ \A r \in S, q \in Waiting \ S : r < q

\* claim_available_runs, with the batch row and all its run rows locked.
ClaimAvailableRuns(p) ==
    /\ pc[p] = "claim"
    /\ \E S \in SUBSET Waiting :
        /\ IsClaim(S)
        /\ run' = [r \in Runs |-> IF r \in S THEN "QUEUED" ELSE run[r]]
        /\ todo' = [todo EXCEPT ![p] = S]
        /\ Goto(p, IF S = {} THEN "refilled" ELSE "dispatch")
    /\ refill' = [refill EXCEPT ![p] = FALSE]
    /\ UNCHANGED <<made, attempt, lease>>

\* The claimed run whose turn it is: runs are dispatched in position order.
IsNext(p, r) == r \in todo[p] /\ \A q \in todo[p] : r <= q

\* The for loop goes on, the while loop claims again, or the call returns.
LoopAfter(p, r, failed) ==
    /\ todo' = [todo EXCEPT ![p] = @ \ {r}]
    /\ refill' = [refill EXCEPT ![p] = @ \/ failed]
    /\ Goto(p, CASE todo[p] # {r} -> "dispatch"
                 [] todo[p] = {r} /\ (refill[p] \/ failed) -> "claim"
                 [] OTHER -> "refilled")

\* The dispatcher returned, or raised.
Dispatched(p, r) == pc[p] = "dispatch" /\ IsNext(p, r) /\ LoopAfter(p, r, FALSE)

DispatchRaised(p, r) ==
    /\ pc[p] = "dispatch" /\ IsNext(p, r)
    /\ Goto(p, "dispatch_failed")
    /\ UNCHANGED <<todo, refill>>

\* The run is failed and the round will claim again.  If the run can no longer
\* fail, that error leaves dispatch_available, and the claimed runs that are
\* still to dispatch are dropped.
FailDispatch(p, r) ==
    /\ pc[p] = "dispatch_failed" /\ IsNext(p, r)
    /\ \/ Transition(r, "INFRA_ERROR") /\ LoopAfter(p, r, TRUE)
       \/ /\ ~CanTransition(r, "INFRA_ERROR")
          /\ todo' = [todo EXCEPT ![p] = {}]
          /\ Goto(p, "refilled")
          /\ UNCHANGED <<repoVars, refill>>

-----------------------------------------------------------------------------
\* Runs that use a slot of max_parallel: claimed, or cancelled while they ran.
Active ==
    {r \in Runs : \/ run[r] \in OCCUPIED_STATES \ {"CANCELLING"}
                  \/ run[r] = "CANCELLING" /\ \E n \in 1..AttemptBound : Leased(<<r, n>>)}

\* However many callers are inside dispatch_available at once, and whatever
\* is cancelled or reaped between their transactions, the batch never has more
\* than max_parallel runs in flight.
BoundedParallelism == Cardinality(Active) <= MaxParallel
=============================================================================
