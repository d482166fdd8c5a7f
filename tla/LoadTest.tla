------------------------------ MODULE LoadTest ------------------------------
(***************************************************************************)
(* Load testing: the service that starts, cancels and recovers runs        *)
(* (load_test_service.py), the request threads of one run                  *)
(* (load_test_executor.py) and the rows they write                         *)
(* (load_test_sql_repository.py), in the one API process that serves them. *)
(* The transactions of the SQL repository lock the row they decide on, so  *)
(* each is one step; any of them may raise instead.                        *)
(***************************************************************************)
EXTENDS Naturals, FiniteSets

CONSTANTS
    RunIds,          \* identities of runs
    Plans,           \* records [mode, traffic, stop] a definition can hold
    NoPlan,
    Threads,         \* request threads of a run
    RequestCount,    \* request_count of every plan in COUNT mode
    Targets,         \* number of targets, the steps of a scenario
    BatchSize,       \* responses kept back before they are stored (50)
    MaxSequence,     \* bound: claims of a run in DURATION mode
    MaxTotal,        \* bound: requests of one run
    MaxDbErrors,     \* bound: transactions that raise
    MaxCrashes       \* bound: times the process is killed

ASSUME LoadTestAssumption ==
    /\ NoPlan \notin Plans
    /\ \A n \in {RequestCount, Targets, BatchSize, MaxSequence, MaxTotal} : n \in Nat \ {0}
    /\ MaxTotal >= MaxSequence /\ MaxTotal >= Targets * RequestCount
    /\ IsFiniteSet(Threads) /\ Threads # {}      \* concurrency is at least 1

VARIABLES
    plan, row, responses,                \* the tables
    service,                             \* "up", "stopping" or "down"
    starter, startPlan,                  \* a start_run request, and what it has read
    registered, cancelled,               \* _cancellations: its keys, and the events set
    exec,                                \* per run: where _execute is
    latest, pending, outcome,            \* its latest_metrics, pending_responses, status
    task, sequence, total, scenarios,    \* the executor's definition and counters
    expired,                             \* the duration of the run is over
    thread,                              \* per request thread: where it is, and its locals
    dbErrors, crashes

tables == <<plan, row, responses>>
starting == <<starter, startPlan>>
locals == <<latest, pending, outcome>>
counters == <<task, sequence, total, scenarios, expired>>
vars == <<tables, service, starting, registered, cancelled, exec, locals, counters,
          thread, dbErrors, crashes>>

NoRow == [status |-> "ABSENT", mode |-> "NONE", total |-> 0, error |-> "none"]
Idle == [pc |-> "idle", num |-> 0, seen |-> 0, step |-> 1,
         ok |-> TRUE, whole |-> TRUE, back |-> "loop"]

Init ==
    /\ plan = NoPlan
    /\ row = [r \in RunIds |-> NoRow] /\ responses = [r \in RunIds |-> {}]
    /\ service = "up" /\ starter = "idle" /\ startPlan = NoPlan
    /\ registered = {} /\ cancelled = {} /\ exec = [r \in RunIds |-> "none"]
    /\ latest = 0 /\ pending = {} /\ outcome = "NONE"
    /\ task = NoPlan /\ sequence = 0 /\ total = 0 /\ scenarios = 0 /\ expired = FALSE
    /\ thread = [t \in Threads |-> Idle]
    /\ dbErrors = 0 /\ crashes = 0

-----------------------------------------------------------------------------
(* SqlLoadTestRepository.                                                  *)

Raises == dbErrors < MaxDbErrors /\ dbErrors' = dbErrors + 1
Works == UNCHANGED dbErrors

Unstarted == {r \in RunIds : exec[r] = "none" /\ row[r] = NoRow}
Active == {r \in RunIds : row[r].status = "RUNNING"}

\* update_run leaves a run that has ended as it is.
UpdateRun(r, status, metrics, error) ==
    row' = IF row[r].status = "RUNNING"
           THEN [row EXCEPT ![r] = [@ EXCEPT !.status = status, !.total = metrics, !.error = error]]
           ELSE row

AddRunResponses(r, numbers) == responses' = [responses EXCEPT ![r] = @ \cup numbers]

NotService == UNCHANGED <<service, starting, registered, cancelled, exec, locals, counters,
                          thread, dbErrors, crashes>>

\* Another test than a deleted one, which nobody is starting any more.
CreateLoadTest ==
    /\ service = "up" /\ plan = NoPlan /\ starter = "idle" /\ Unstarted # {}
    /\ plan' \in Plans
    /\ UNCHANGED <<row, responses>> /\ NotService

\* By an editor who has read the current state_version.
UpdateLoadTest ==
    /\ service = "up" /\ plan # NoPlan
    /\ plan' \in Plans \ {plan}
    /\ UNCHANGED <<row, responses>> /\ NotService

\* Mutant: a test is deleted under its running run.
DeleteUnchecked ==
    /\ service = "up" /\ plan # NoPlan
    /\ plan' = NoPlan
    /\ row' = [r \in RunIds |-> NoRow] /\ responses' = [r \in RunIds |-> {}]
    /\ NotService

DeleteLoadTest ==
    /\ service = "up" /\ plan # NoPlan /\ Active = {}
    /\ plan' = NoPlan
    /\ row' = [r \in RunIds |-> NoRow] /\ responses' = [r \in RunIds |-> {}]
    /\ NotService

-----------------------------------------------------------------------------
(* LoadTestService.  Its lock is held from create_run to submit.           *)

LockFree == starter # "submit"
NewRun == CHOOSE r \in Unstarted : TRUE

\* start_run reads the definition before it takes the lock.
ReadDefinition ==
    /\ service # "down" /\ starter = "idle" /\ plan # NoPlan
    /\ starter' = "create" /\ startPlan' = plan
    /\ UNCHANGED <<tables, service, registered, cancelled, exec, locals, counters, thread,
                   dbErrors, crashes>>

CreateRun ==
    /\ starter = "create" /\ service = "up" /\ plan # NoPlan /\ Active = {} /\ Unstarted # {}
    /\ row' = [row EXCEPT ![NewRun] = [status |-> "RUNNING", mode |-> plan.mode,
                                       total |-> 0, error |-> "none"]]
    /\ starter' = "submit"
    /\ UNCHANGED <<plan, responses, service, startPlan, registered, cancelled, exec,
                   locals, counters, thread, dbErrors, crashes>>

\* Stopped, not found, another run is active, or the transaction raises.
StartRefused ==
    /\ starter = "create"
    /\ \/ (service # "up" \/ plan = NoPlan \/ Active # {} \/ Unstarted = {}) /\ Works
       \/ Raises
    /\ starter' = "idle" /\ startPlan' = NoPlan
    /\ UNCHANGED <<tables, service, registered, cancelled, exec, locals, counters,
                   thread, crashes>>

\* The run whose row this request has just created.
Created == CHOOSE r \in Active : exec[r] = "none"

Submit ==
    /\ starter = "submit"
    /\ registered' = registered \cup {Created}
    /\ exec' = [exec EXCEPT ![Created] = "first"]
    /\ task' = startPlan
    /\ starter' = "idle" /\ startPlan' = NoPlan
    /\ UNCHANGED <<tables, service, cancelled, locals, sequence, total, scenarios,
                   expired, thread, dbErrors, crashes>>

\* The pool takes no more work: _fail ends the run, unless that raises too.
SubmitRaises ==
    /\ starter = "submit"
    /\ exec' = [exec EXCEPT ![Created] = "done"]
    /\ \/ UpdateRun(Created, "FAILED", row[Created].total, "unavailable") /\ Works
       \/ UNCHANGED row /\ Raises
    /\ starter' = "idle" /\ startPlan' = NoPlan
    /\ UNCHANGED <<plan, responses, service, registered, cancelled, locals,
                   counters, thread, crashes>>

CancelRun(r) ==
    /\ service = "up" /\ LockFree
    /\ row[r].status = "RUNNING" /\ r \in registered \ cancelled
    /\ cancelled' = cancelled \cup {r}
    /\ UNCHANGED <<tables, service, starting, registered, exec, locals, counters, thread,
                   dbErrors, crashes>>

Shutdown ==
    /\ service = "up" /\ LockFree
    /\ service' = "stopping" /\ cancelled' = cancelled \cup registered
    /\ UNCHANGED <<tables, starting, registered, exec, locals, counters, thread,
                   dbErrors, crashes>>

\* What _execute and the executor hold in local variables is not used any more.
Forget ==
    /\ latest' = 0 /\ pending' = {} /\ outcome' = "NONE"
    /\ task' = NoPlan /\ sequence' = 0 /\ total' = 0 /\ scenarios' = 0 /\ expired' = FALSE

\* Everything the process holds in memory is gone.
Gone ==
    /\ service' = "down" /\ starter' = "idle" /\ startPlan' = NoPlan
    /\ registered' = {} /\ cancelled' = {}
    /\ exec' = [r \in RunIds |-> IF row[r] = NoRow THEN "none" ELSE "done"]
    /\ Forget
    /\ thread' = [t \in Threads |-> Idle]
    /\ UNCHANGED <<tables, dbErrors>>

Stopped ==
    /\ service = "stopping" /\ starter = "idle"
    /\ \A r \in RunIds : exec[r] \in {"none", "done", "dead"}
    /\ Gone /\ UNCHANGED crashes

Crash == service # "down" /\ crashes < MaxCrashes /\ Gone /\ crashes' = crashes + 1

\* The lifespan starts with recover_running_runs.
Restart ==
    /\ service = "down" /\ service' = "up"
    /\ row' = [r \in RunIds |->
          IF row[r].status = "RUNNING"
          THEN [row[r] EXCEPT !.status = "FAILED", !.error = "interrupted"] ELSE row[r]]
    /\ UNCHANGED <<plan, responses, starting, registered, cancelled, exec, locals,
                   counters, thread, dbErrors, crashes>>

-----------------------------------------------------------------------------
(* LoadTestService._execute.                                               *)

Goto(r, place) == exec' = [exec EXCEPT ![r] = place]

Leave(r) == Goto(r, "finally") /\ Forget
Stay(r, place) == Goto(r, place) /\ UNCHANGED <<locals, counters>>
ExecuteFrame == UNCHANGED <<plan, service, starting, cancelled, crashes>>

\* The first read is outside the try: if it raises, nothing ends the run.
FirstRead(r) ==
    /\ exec[r] = "first"
    /\ \/ Goto(r, "resolve") /\ latest' = row[r].total /\ Works
       \/ Goto(r, "dead") /\ UNCHANGED latest /\ Raises
    /\ pending' = {} /\ outcome' = "NONE"
    /\ UNCHANGED <<row, responses, registered, counters, thread>> /\ ExecuteFrame

\* Authentication and destinations are resolved, or an error is raised.
Resolve(r) ==
    /\ exec[r] = "resolve"
    /\ \/ /\ Goto(r, "working")
          /\ thread' = [t \in Threads |-> [Idle EXCEPT !.pc = "loop"]]
       \/ Goto(r, "handler") /\ UNCHANGED thread
    /\ sequence' = 0 /\ total' = 0 /\ scenarios' = 0 /\ expired' = FALSE
    /\ UNCHANGED <<row, responses, registered, locals, task, dbErrors>> /\ ExecuteFrame

\* future.result() of every thread, then the last snapshot.
Join(r) ==
    /\ exec[r] = "working" /\ \A t \in Threads : thread[t].pc \in {"done", "raised"}
    /\ Goto(r, IF \E t \in Threads : thread[t].pc = "raised" THEN "handler" ELSE "flush")
    /\ thread' = [t \in Threads |-> Idle]
    /\ UNCHANGED <<row, responses, registered, locals, counters, dbErrors>> /\ ExecuteFrame

\* Mutant: the last batch is not stored.
SkipFlush(r) ==
    /\ exec[r] = "flush" /\ Goto(r, "decide")
    /\ UNCHANGED <<row, responses, registered, locals, counters, thread, dbErrors>>
    /\ ExecuteFrame

\* flush_responses: what is taken out of pending is lost if storing it raises.
FlushResponses(r) ==
    /\ exec[r] = "flush"
    /\ \/ AddRunResponses(r, pending) /\ Goto(r, "decide") /\ Works
       \/ pending # {} /\ UNCHANGED responses /\ Goto(r, "handler") /\ Raises
    /\ pending' = {}
    /\ UNCHANGED <<row, registered, latest, outcome, counters, thread>> /\ ExecuteFrame

\* The same in the except clauses, where a second error leaves the run RUNNING.
HandlerFlush(r) ==
    /\ exec[r] = "handler"
    /\ \/ /\ AddRunResponses(r, pending) /\ pending' = {} /\ Goto(r, "fail") /\ Works
          /\ UNCHANGED <<latest, outcome, counters>>
       \/ pending # {} /\ UNCHANGED responses /\ Leave(r) /\ Raises
    /\ UNCHANGED <<row, registered, thread>> /\ ExecuteFrame

\* Mutant: a cancelled run is executed once more.
DecideAgain(r) ==
    /\ exec[r] = "decide" /\ Goto(r, IF r \in cancelled THEN "resolve" ELSE "write")
    /\ outcome' = "SUCCEEDED"
    /\ UNCHANGED <<row, responses, registered, latest, pending, counters, thread, dbErrors>>
    /\ ExecuteFrame

Decide(r) ==
    /\ exec[r] = "decide" /\ Goto(r, "write")
    /\ outcome' = IF r \in cancelled THEN "FAILED" ELSE "SUCCEEDED"
    /\ UNCHANGED <<row, responses, registered, latest, pending, counters, thread, dbErrors>>
    /\ ExecuteFrame

\* The message is chosen by a second look at the event.
Finish(r) ==
    /\ exec[r] = "write"
    /\ \/ /\ UpdateRun(r, outcome, total, IF r \in cancelled THEN "cancelled" ELSE "none")
          /\ Leave(r) /\ Works
       \/ UNCHANGED row /\ Stay(r, "handler") /\ Raises
    /\ UNCHANGED <<responses, registered, thread>> /\ ExecuteFrame

Fail(r) ==
    /\ exec[r] = "fail" /\ Leave(r)
    /\ \/ UpdateRun(r, "FAILED", latest, "failed") /\ Works
       \/ UNCHANGED row /\ Raises
    /\ UNCHANGED <<responses, registered, thread>> /\ ExecuteFrame

Finally(r) ==
    /\ exec[r] = "finally" /\ LockFree /\ Goto(r, "done")
    /\ registered' = registered \ {r}
    /\ UNCHANGED <<row, responses, locals, counters, thread, dbErrors>> /\ ExecuteFrame

Execute(r) ==
    \/ FirstRead(r) \/ Resolve(r) \/ Join(r) \/ FlushResponses(r) \/ HandlerFlush(r)
    \/ Decide(r) \/ Finish(r) \/ Fail(r) \/ Finally(r)

-----------------------------------------------------------------------------
(* The request threads: worker() of execute and of _execute_scenarios.     *)

Working == {r \in RunIds : exec[r] = "working"}
Run == CHOOSE r \in Working : TRUE
Cancelled == Run \in cancelled
Count == task.mode = "COUNT"
DeadlinePassed == task.mode = "DURATION" /\ expired
Scenario == task.traffic = "SCENARIO"

At(t, place) == Working # {} /\ thread[t].pc = place
Put(t, local) == thread' = [thread EXCEPT ![t] = local]
Move(t, place) == Put(t, [thread[t] EXCEPT !.pc = place])
Done(t) == Put(t, [Idle EXCEPT !.pc = "done"])
Interrupted(t) == Put(t, [thread[t] EXCEPT !.pc = "scenario", !.whole = FALSE])
ThreadFrame == UNCHANGED <<plan, service, starting, registered, cancelled, exec,
                           outcome, task, expired, crashes>>

\* The loop's head: a request or a scenario is claimed under sequence_lock.  The
\* checks at the loop's end (nothing left to claim, cancelled during the delay)
\* end the loop no earlier than these do.
Claim(t) ==
    /\ At(t, "loop") /\ ~Cancelled /\ ~DeadlinePassed
    /\ IF Count THEN sequence < RequestCount ELSE sequence < MaxSequence
    /\ sequence' = sequence + 1
    /\ Put(t, [Idle EXCEPT !.pc = IF Scenario THEN "target" ELSE "add"])
    /\ UNCHANGED <<row, responses, latest, pending, total, scenarios, dbErrors>> /\ ThreadFrame

LoopEnds(t) ==
    /\ At(t, "loop") /\ (Cancelled \/ DeadlinePassed \/ (Count /\ sequence >= RequestCount))
    /\ Done(t)
    /\ UNCHANGED <<row, responses, latest, pending, sequence, total, scenarios, dbErrors>>
    /\ ThreadFrame

\* A scenario's next target, unless the run is cancelled or its time is over.
Target(t) ==
    /\ At(t, "target")
    /\ IF Cancelled \/ DeadlinePassed THEN Interrupted(t) ELSE Move(t, "add")
    /\ UNCHANGED <<row, responses, latest, pending, sequence, total, scenarios, dbErrors>>
    /\ ThreadFrame

\* The request is made, and counted by metrics.add: its result is its number.
Add(t) ==
    /\ At(t, "add") /\ total < MaxTotal
    /\ total' = total + 1
    /\ \E success \in BOOLEAN :
          Put(t, [thread[t] EXCEPT !.pc = "respond", !.num = total + 1, !.ok = success])
    /\ UNCHANGED <<row, responses, latest, pending, sequence, scenarios, dbErrors>>
    /\ ThreadFrame

\* periodic_snapshot, which only the metrics' lock orders with the other threads'
\* counting: a second has passed since the last one, or not.
Snapshot(t, count, back) ==
    \/ Put(t, [thread[t] EXCEPT !.pc = "persist", !.seen = count, !.num = 0, !.back = back])
    \/ Put(t, [thread[t] EXCEPT !.pc = back, !.num = 0])

\* After a request: the next one of the scenario, or the loop's head.
AfterRequest == IF Scenario THEN "next" ELSE "loop"

\* response_callback, under response_lock.
Respond(t) ==
    /\ At(t, "respond")
    /\ LET batch == pending \cup {thread[t].num} IN
       \/ /\ Cardinality(batch) < BatchSize
          /\ pending' = batch /\ Snapshot(t, total, AfterRequest) /\ UNCHANGED responses /\ Works
       \/ /\ Cardinality(batch) >= BatchSize
          /\ pending' = {}
          /\ \/ AddRunResponses(Run, batch) /\ Snapshot(t, total, AfterRequest) /\ Works
             \/ UNCHANGED responses /\ Move(t, "raised") /\ Raises
    /\ UNCHANGED <<row, latest, sequence, total, scenarios>> /\ ThreadFrame

Seen(t) == Put(t, [thread[t] EXCEPT !.pc = thread[t].back, !.seen = 0, !.back = "loop"])

\* snapshot_callback, under snapshot_lock.
Persist(t) ==
    /\ At(t, "persist")
    /\ \/ /\ Cancelled \/ thread[t].seen <= latest
          /\ Seen(t) /\ UNCHANGED <<row, latest>> /\ Works
       \/ /\ ~Cancelled /\ thread[t].seen > latest
          /\ \/ /\ UpdateRun(Run, "RUNNING", thread[t].seen, "none")
                /\ latest' = thread[t].seen /\ Seen(t) /\ Works
             \/ UNCHANGED <<row, latest>> /\ Move(t, "raised") /\ Raises
    /\ UNCHANGED <<responses, pending, sequence, total, scenarios>> /\ ThreadFrame

\* After a request of a scenario: stop at a failure, think, go on.
NextTarget(t) ==
    /\ At(t, "next")
    /\ \/ ~thread[t].ok /\ task.stop /\ Move(t, "scenario")
       \/ /\ thread[t].ok \/ ~task.stop
          /\ \/ Cancelled /\ Interrupted(t)
             \/ thread[t].step = Targets /\ Move(t, "scenario")
             \/ thread[t].step # Targets /\ DeadlinePassed /\ Interrupted(t)
             \/ /\ thread[t].step # Targets /\ ~DeadlinePassed
                /\ Put(t, [thread[t] EXCEPT !.step = @ + 1, !.pc = "target"])
    /\ UNCHANGED <<row, responses, latest, pending, sequence, total, scenarios, dbErrors>>
    /\ ThreadFrame

\* add_scenario counts the scenarios that were not interrupted.
ScenarioEnds(t) ==
    /\ At(t, "scenario")
    /\ scenarios' = IF thread[t].whole THEN scenarios + 1 ELSE scenarios
    /\ Snapshot(t, total, "loop")
    /\ UNCHANGED <<row, responses, latest, pending, sequence, total, dbErrors>> /\ ThreadFrame

RequestThread(t) ==
    \/ Claim(t) \/ LoopEnds(t) \/ Target(t) \/ Add(t) \/ Respond(t)
    \/ Persist(t) \/ NextTarget(t) \/ ScenarioEnds(t)

\* duration_seconds have passed.
Expire ==
    /\ Working # {} /\ task.mode = "DURATION" /\ ~expired
    /\ expired' = TRUE
    /\ UNCHANGED <<tables, service, starting, registered, cancelled, exec, locals, task,
                   sequence, total, scenarios, thread, dbErrors, crashes>>

-----------------------------------------------------------------------------
Next ==
    \/ CreateLoadTest \/ UpdateLoadTest \/ DeleteLoadTest
    \/ ReadDefinition \/ CreateRun \/ StartRefused \/ Submit \/ SubmitRaises
    \/ \E r \in RunIds : CancelRun(r) \/ Execute(r)
    \/ \E t \in Threads : RequestThread(t)
    \/ Expire \/ Shutdown \/ Stopped \/ Crash \/ Restart

\* Threads run, requests time out, time passes, and the supervisor starts the
\* API again.  Nobody has to start, cancel, stop or delete anything.
Fairness ==
    /\ WF_vars(CreateRun \/ StartRefused) /\ WF_vars(Submit \/ SubmitRaises)
    /\ \A r \in RunIds : WF_vars(Execute(r))
    /\ \A t \in Threads : WF_vars(RequestThread(t))
    /\ WF_vars(Expire) /\ WF_vars(Stopped) /\ WF_vars(Restart)

Spec == Init /\ [][Next]_vars /\ Fairness

-----------------------------------------------------------------------------
TypeOK ==
    /\ plan \in Plans \cup {NoPlan} /\ startPlan \in Plans \cup {NoPlan}
    /\ task \in Plans \cup {NoPlan}
    /\ \A r \in RunIds : /\ row[r].status \in {"ABSENT", "RUNNING", "SUCCEEDED", "FAILED"}
                         /\ row[r].total \in 0..MaxTotal
                         /\ responses[r] \subseteq 1..MaxTotal
    /\ registered \subseteq RunIds /\ cancelled \subseteq RunIds
    /\ sequence \in 0..(IF task # NoPlan /\ task.mode = "COUNT" THEN RequestCount ELSE MaxSequence)
    /\ total \in 0..MaxTotal
    /\ latest \in 0..MaxTotal /\ pending \subseteq 1..MaxTotal

\* A run that says SUCCEEDED did what its definition asks for and all of it is
\* on record: no request thread, batch or snapshot was lost on the way.  In
\* COUNT mode request_count requests, or scenarios, were made: the threads
\* share one sequence, finish in any order and store responses in batches.
SuccessIsComplete ==
    [][\A r \in RunIds :
          row[r].status = "RUNNING" /\ row'[r].status = "SUCCEEDED" =>
              /\ row'[r].total = total
              /\ responses[r] = 1..total
              /\ Count => (IF Scenario THEN scenarios ELSE total) = RequestCount]_row

\* Every RUNNING run of a service that is up is in somebody's hands: in the
\* request that is starting it, or in _cancellations, where a cancel or a
\* shutdown reaches it.  Only a transaction that raised can leave one behind,
\* and it then stays RUNNING until the next restart.
RunningIsReachable ==
    service = "up" /\ dbErrors = 0 =>
        \A r \in Active : r \in registered \/ (starter = "submit" /\ exec[r] = "none")

\* However snapshots of several threads overtake each other, and whatever ends
\* a run, its recorded totals never go back, and a run that has ended is not
\* written again until its load test is deleted.
RunOnlyAdvances ==
    [][\A r \in RunIds :
          row[r] # NoRow /\ row'[r] # NoRow =>
              /\ row'[r].total >= row[r].total
              /\ row[r].status # "RUNNING" => row'[r] = row[r]]_row

\* A run ends: by its requests, its time, a cancel, a shutdown or a crash.
\* Without failing transactions nothing keeps it RUNNING for ever.
RunsEnd ==
    \A r \in RunIds : row[r].status = "RUNNING" ~> row[r].status # "RUNNING" \/ dbErrors > 0

\* The tables behave as the repository with one lock promises.
Repository == INSTANCE LoadTestRepository
    WITH Errors <- {"none", "cancelled", "failed", "unavailable", "interrupted"}
RepositorySpec == Repository!Spec

\* The record of a run is what happened: a success is complete, and totals and
\* states only advance.
RecordIsFaithful == []TypeOK /\ SuccessIsComplete /\ RunOnlyAdvances

\* A RUNNING run is in the hands of somebody who can end it, and is ended.
RunsAreEnded == []RunningIsReachable /\ RunsEnd
=============================================================================
