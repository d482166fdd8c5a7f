---------------------------- MODULE PlanExecution ----------------------------
(***************************************************************************)
(* Test plans and their executions over the SQL repositories               *)
(* (test_plan_sql_repository.py, sql_repository.py, automation_sql_        *)
(* repository.py) as the routes drive them: each request runs in a server  *)
(* thread, in several transactions of InnoDB.  A plan's row is locked by   *)
(* SELECT ... FOR UPDATE, plain reads see what is committed, and the       *)
(* unique constraint on the idempotency key makes an insert wait for the   *)
(* transaction that inserted the same key and then fail or go on.          *)
(*                                                                         *)
(* A row's `checked` is the plan revision whose scripts the route compared *)
(* with the execution target it was asked for (0: none was asked for).     *)
(***************************************************************************)
EXTENDS Naturals, Sequences, SequencesExt, FiniteSets

CONSTANTS Plans, Keys, Fingerprints, Threads, NoKey, Nobody,
          MaxRequests,        \* bound: requests in a behaviour
          MaxRevision,        \* bound: revisions of a plan or an asset
          MaxFaults           \* bound: threads that die in a request

ASSUME KeyAssumption == NoKey \notin Keys
ASSUME ThreadsAssumption == Threads \subseteq Nat /\ Nobody \notin Threads
ASSUME BoundsAssumption ==      \* Init has an asset with three revisions
    {MaxRequests, MaxFaults} \subseteq Nat /\ MaxRevision \in Nat \ {0, 1, 2}

VARIABLES assets, revisions, batches, runs, answer,
          locks,        \* the thread whose transaction holds a plan's row
          pending,      \* rows inserted and not committed: <<table, key, thread>>
          pc, req,      \* where each thread is, and the request it serves
          dispatched,   \* dispatches by the routes: <<table, row id>> |-> how many
          requests, faults

Repository == INSTANCE TestPlanRepository

tables == <<assets, revisions, batches, runs>>
transactions == <<locks, pending>>
vars == <<tables, answer, transactions, pc, req, dispatched, requests, faults>>

Assets == Repository!Assets
Status == {"DRAFT", "ACTIVE", "ARCHIVED"}
Targets == {"none", "docker", "host"}
NoRequest == [op |-> "none"]

Version(p) == Len(revisions[p])
Held(p) == locks[p] # Nobody
Table(op) == IF op = "execute" THEN batches ELSE runs

\* a plan and its assets as their authors left them before the behaviour
Init ==
    /\ LET Revision(status) == [status |-> status, source |-> "sealed"]
       IN  assets = [a \in Assets |->
               IF a = "script" THEN <<Revision("DRAFT"), Revision("ACTIVE")>>
               ELSE <<Revision("DRAFT"), Revision("ACTIVE"), Revision("ARCHIVED")>>]
    /\ \E drafted \in SUBSET Plans :
          Cardinality(Plans \ drafted) <= 1 /\ revisions = [p \in Plans |->
             IF p \notin drafted THEN <<>>
             ELSE LET pins == [a \in Assets |-> IF a = "script" THEN 2 ELSE 0]
                  IN  <<[status |-> "DRAFT", pins |-> pins, base |-> 0],
                        [status |-> "ACTIVE", pins |-> pins, base |-> 1]>>]
    /\ batches = {} /\ runs = {}
    /\ answer = [t \in Threads |-> Repository!Says("none")]
    /\ locks = [p \in Plans |-> Nobody] /\ pending = {}
    /\ pc = [t \in Threads |-> "idle"] /\ req = [t \in Threads |-> NoRequest]
    /\ dispatched = [row \in {"execute", "run"} \X (1..MaxRequests) |-> 0]
    /\ requests = 0 /\ faults = 0

-----------------------------------------------------------------------------
Goto(t, l) == pc' = [pc EXCEPT ![t] = l]
At(t, op, l) == pc[t] = l /\ req[t].op = op
Answer(t, a) == answer' = [answer EXCEPT ![t] = a]
Return(t, a) == Answer(t, a) /\ Goto(t, "idle") /\ req' = [req EXCEPT ![t] = NoRequest]
Unlock(t) == locks' = [p \in Plans |-> IF locks[p] = t THEN Nobody ELSE locks[p]]

\* a request reaches a route; idle threads are interchangeable, so the first
\* one takes it
Receive(t, request, l) ==
    /\ pc[t] = "idle" /\ \A u \in Threads : u < t => pc[u] # "idle"
    /\ requests < MaxRequests
    /\ requests' = requests + 1
    /\ req' = [req EXCEPT ![t] = request]
    /\ Goto(t, l) /\ Answer(t, Repository!Says("none"))
    /\ UNCHANGED <<tables, transactions, dispatched, faults>>

\* POST /test-plans and PUT /test-plans/{id}, with the version the author read
CreatePlanRequest(t) ==
    \E p \in Plans : revisions[p] = <<>> /\ Receive(t, [op |-> "create", plan |-> p], "write")
UpdatePlanRequest(t) ==
    \E p \in Plans :
       /\ revisions[p] # <<>>
       /\ Receive(t, [op |-> "update", plan |-> p, expected |-> Version(p)], "write")

\* POST /test-plans/{id}/executions; the header is required and not blank.
\* `seen` is the revision read under the plan's row lock, 0 until then.
ExecuteRequest(t) ==
    \E p \in Plans, k \in Keys, target \in Targets :
       /\ revisions[p] # <<>>
       /\ Receive(t, [op |-> "execute", plan |-> p, key |-> k, target |-> target,
                      source |-> "pinned", checked |-> 0, seen |-> <<p, 0>>],
                  IF target = "none" THEN "lookup" ELSE "override")

\* POST /runs; the header is optional
CreateRunRequest(t) ==
    \E k \in Keys \union {NoKey}, f \in Fingerprints :
       Receive(t, [op |-> "run", key |-> k, body |-> f], "lookup")

-----------------------------------------------------------------------------
(* Plans and assets *)

\* create_plan: one transaction that inserts the plan and its first revision
CreatePlan(t) ==
    /\ At(t, "create", "write")
    /\ LET p == req[t].plan
       IN  /\ revisions[p] = <<>>
           /\ \E pins \in Repository!Pins :
                 revisions' = [revisions EXCEPT ![p] = <<[status |-> "DRAFT", pins |-> pins, base |-> 0]>>]
    /\ Return(t, Repository!Says("saved"))
    /\ UNCHANGED <<assets, batches, runs, transactions, dispatched, requests, faults>>

ValidTransition(p, status) == Repository!PlanTransition(Repository!Current(p).status, status)

\* the revision the request asks for, validated, waits for its commit
Flush(t, p) ==
    /\ Version(p) < MaxRevision
    /\ \E pins \in Repository!Pins, status \in Status :
          /\ ValidTransition(p, status)
          /\ req' = [req EXCEPT ![t] = [op |-> "update", plan |-> p,
                 new |-> [status |-> status, pins |-> pins, base |-> req[t].expected]]]
    /\ locks' = [locks EXCEPT ![p] = t]
    /\ Goto(t, "commit") /\ UNCHANGED answer

\* Mutant: the version of the page is not compared.
LockUnversioned(t) ==
    /\ At(t, "update", "write") /\ ~Held(req[t].plan) /\ Flush(t, req[t].plan)
    /\ UNCHANGED <<tables, pending, dispatched, requests, faults>>

\* update_plan up to its flush: the plan's row is locked first
LockForUpdate(t) ==
    /\ At(t, "update", "write")
    /\ LET p == req[t].plan
       IN  /\ ~Held(p)
           /\ \/ /\ req[t].expected # Version(p)
                 /\ Return(t, Repository!Says("conflict")) /\ UNCHANGED locks
              \/ req[t].expected = Version(p) /\ Flush(t, p)
    /\ UNCHANGED <<tables, pending, dispatched, requests, faults>>

\* an update with references or a transition that validation refuses, a plan
\* that another author created first, or a database error
Refused(t) ==
    /\ req[t].op \in {"create", "update"} /\ pc[t] = "write"
    /\ Return(t, Repository!Says("refused"))
    /\ UNCHANGED <<tables, transactions, dispatched, requests, faults>>

CommitUpdate(t) ==
    /\ At(t, "update", "commit")
    /\ revisions' = [revisions EXCEPT ![req[t].plan] = Append(@, req[t].new)]
    /\ Unlock(t) /\ Return(t, Repository!Says("saved"))
    /\ UNCHANGED <<assets, batches, runs, pending, dispatched, requests, faults>>

\* update_script (and update_environment): lock, version check, new revision
UpdateAsset(a) ==
    /\ Len(assets[a]) < MaxRevision
    /\ \E new \in Repository!AssetRevision :
          /\ Repository!AssetTransition(Last(assets[a]).status, new.status)
          /\ a = "environment" => new.source = "sealed"
          /\ assets' = [assets EXCEPT ![a] = Append(@, new)]
    /\ requests < MaxRequests /\ requests' = requests + 1
    /\ UNCHANGED <<revisions, batches, runs, answer, transactions, pc, req, dispatched, faults>>

-----------------------------------------------------------------------------
(* Executions *)

\* source_ref.startswith("host-source:") of the script the plan pins
HostSourced(pins) == assets["script"][pins["script"]].source = "host"

\* a docker execution runs no host-source script; a host one needs an active
\* plan, and its project, directory and interpreter may be refused
Fits(target, plan) ==
    IF target = "docker" THEN ~HostSourced(plan.pins) ELSE plan.status = "ACTIVE"

TargetFits(target, plan) ==
    Fits(target, plan)

\* _execution_source_override: reads the plan on its own, before execute
SourceOverride(t) ==
    /\ At(t, "execute", "override")
    /\ LET p == req[t].plan
           target == req[t].target
       IN  \/ /\ TargetFits(target, Repository!Current(p))
              /\ req' = [req EXCEPT ![t] = [@ EXCEPT !.checked = Version(p),
                               !.source = IF target = "host" THEN "host" ELSE "pinned"]]
              /\ Goto(t, "lookup") /\ UNCHANGED answer
           \/ /\ target = "host" \/ ~TargetFits(target, Repository!Current(p))
              /\ Return(t, Repository!Says("refused"))
    /\ UNCHANGED <<tables, transactions, dispatched, requests, faults>>

\* what a new row stands for and what a replay must have asked for
Body(t) == IF req[t].op = "execute" THEN Repository!BatchOf(req[t].plan) ELSE req[t].body

Existing(t) == Repository!Rows(Table(req[t].op), req[t].key)

\* _resolve_batch and _resolve_idempotency
Resolved(t) == \E row \in Existing(t) : Return(t, Repository!Replayed(row, Body(t)))

\* Mutant: execute reads the plan without its row lock.
LookupUnlocked(t) ==
    /\ At(t, "execute", "lookup")
    /\ LET p == req[t].plan
       IN  \/ Resolved(t)
           \/ Existing(t) = {} /\ Repository!Current(p).status # "ACTIVE"
              /\ Return(t, Repository!Says("conflict"))
           \/ Existing(t) = {} /\ Repository!Current(p).status = "ACTIVE"
              /\ req' = [req EXCEPT ![t] = [@ EXCEPT !.seen = Repository!BatchOf(p)]]
              /\ Goto(t, "insert") /\ UNCHANGED answer
    /\ UNCHANGED <<tables, transactions, dispatched, requests, faults>>

\* execute: the plan's row is locked, then the key is looked up
LookupBatch(t) ==
    /\ At(t, "execute", "lookup")
    /\ LET p == req[t].plan
       IN  /\ ~Held(p)
           /\ \/ Resolved(t) /\ UNCHANGED locks
              \/ Existing(t) = {} /\ Repository!Current(p).status # "ACTIVE"
                 /\ Return(t, Repository!Says("conflict")) /\ UNCHANGED locks
              \/ Existing(t) = {} /\ Repository!Current(p).status = "ACTIVE"
                 /\ req' = [req EXCEPT ![t] = [@ EXCEPT !.seen = Repository!BatchOf(p)]]
                 /\ locks' = [locks EXCEPT ![p] = t]
                 /\ Goto(t, "insert") /\ UNCHANGED answer
    /\ UNCHANGED <<tables, pending, dispatched, requests, faults>>

\* create_or_get: a plain lookup, only when there is a key
LookupRun(t) ==
    /\ At(t, "run", "lookup")
    /\ \/ Resolved(t)
       \/ Existing(t) = {} /\ Goto(t, "insert") /\ UNCHANGED <<answer, req>>
    /\ UNCHANGED <<tables, transactions, dispatched, requests, faults>>

\* the unique constraint: the insert waits for an uncommitted row with its key
Inserting(t) == {row \in pending : row[1] = req[t].op /\ row[2] = req[t].key /\ req[t].key # NoKey}

\* session.flush(): IntegrityError rolls the transaction back
Insert(t) ==
    /\ pc[t] = "insert" /\ Inserting(t) = {}
    /\ \/ /\ Existing(t) = {}
          /\ pending' = pending \union {<<req[t].op, req[t].key, t>>}
          /\ Goto(t, "commit") /\ UNCHANGED locks
       \/ /\ Existing(t) # {}
          /\ Goto(t, "resolve") /\ Unlock(t) /\ UNCHANGED pending
    /\ UNCHANGED <<tables, answer, req, dispatched, requests, faults>>

\* _expand refuses the merged parameters, or the database fails: rolled back
ExpandFails(t) ==
    /\ At(t, "execute", "insert")
    /\ Unlock(t) /\ Return(t, Repository!Says("refused"))
    /\ UNCHANGED <<tables, pending, dispatched, requests, faults>>

Committed(t) == pending' = {row \in pending : row[3] # t}

CommitBatch(t) ==
    /\ At(t, "execute", "commit")
    /\ LET p == req[t].plan
           row == [id |-> Cardinality(batches) + 1, key |-> req[t].key, body |-> req[t].seen,
                   pins |-> Repository!Current(p).pins, source |-> req[t].source,
                   checked |-> req[t].checked]
       IN  /\ batches' = batches \union {row}
           /\ Answer(t, Repository!Created(row))
    /\ Committed(t) /\ Unlock(t) /\ Goto(t, "dispatch")
    /\ UNCHANGED <<assets, revisions, runs, req, dispatched, requests, faults>>

CommitRun(t) ==
    /\ At(t, "run", "commit")
    /\ LET row == [id |-> Cardinality(runs) + 1, key |-> req[t].key, body |-> req[t].body]
       IN  /\ runs' = runs \union {row}
           /\ Answer(t, Repository!Created(row))
    /\ Committed(t) /\ Goto(t, "dispatch")
    /\ UNCHANGED <<assets, revisions, batches, locks, req, dispatched, requests, faults>>

\* Mutant: the loser of an insert race dispatches the row it finds.
ResolvedDispatching(t) ==
    /\ pc[t] = "resolve"
    /\ \E row \in Existing(t) : Answer(t, Repository!Replayed(row, Body(t)))
    /\ Goto(t, IF answer'[t][2] = 0 THEN "idle" ELSE "dispatch")
    /\ UNCHANGED <<tables, transactions, req, dispatched, requests, faults>>

\* the handler of IntegrityError reads the winner's row in a new transaction
ResolveConflict(t) ==
    /\ pc[t] = "resolve"
    /\ Resolved(t)
    /\ UNCHANGED <<tables, transactions, dispatched, requests, faults>>

\* auto_dispatch: the route that created the row hands it on, once; the
\* dispatcher may fail, which the model of the coordinator covers
Dispatch(t) ==
    /\ pc[t] = "dispatch"
    /\ dispatched' = [dispatched EXCEPT ![<<req[t].op, answer[t][2]>>] = @ + 1]
    /\ Goto(t, "idle") /\ req' = [req EXCEPT ![t] = NoRequest]
    /\ UNCHANGED <<tables, answer, transactions, requests, faults>>

\* the server dies while it serves the request: the database rolls back
Die(t) ==
    /\ pc[t] # "idle" /\ faults < MaxFaults
    /\ faults' = faults + 1
    /\ Unlock(t) /\ Committed(t) /\ Return(t, Repository!Says("refused"))
    /\ UNCHANGED <<tables, dispatched, requests>>

Serve(t) ==
    \/ CreatePlan(t) \/ LockForUpdate(t) \/ Refused(t) \/ CommitUpdate(t)
    \/ SourceOverride(t) \/ LookupBatch(t) \/ LookupRun(t)
    \/ Insert(t) \/ ExpandFails(t) \/ CommitBatch(t) \/ CommitRun(t)
    \/ ResolveConflict(t) \/ Dispatch(t)

Next ==
    \/ \E t \in Threads :
          \/ CreatePlanRequest(t) \/ UpdatePlanRequest(t) \/ ExecuteRequest(t) \/ CreateRunRequest(t)
          \/ Serve(t) \/ Die(t)
    \/ \E a \in Assets : UpdateAsset(a)

\* a server thread keeps running, and its wait for a row ends with the
\* transaction that holds it
Fairness == \A t \in Threads : WF_vars(Serve(t))

Spec == Init /\ [][Next]_vars /\ Fairness
-----------------------------------------------------------------------------
(* Properties *)

TypeOK ==
    /\ \A a \in Assets : assets[a] \in Seq(Repository!AssetRevision) /\ Len(assets[a]) <= MaxRevision
    /\ \A p \in Plans : revisions[p] \in Seq(Repository!PlanRevision) /\ Len(revisions[p]) <= MaxRevision
    /\ \A t \in Threads : \/ answer[t] \in {Repository!Says(w) : w \in {"none", "saved", "conflict", "refused"}}
                         \/ answer[t] \in {"replayed", "created"} \X (1..MaxRequests)
    /\ locks \in [Plans -> Threads \union {Nobody}]
    /\ \A row \in pending : pc[row[3]] = "commit" /\ req[row[3]].op = row[1]
    /\ \A p \in Plans : Held(p) => pc[locks[p]] \in {"insert", "commit"}
    /\ requests \in 0..MaxRequests /\ faults \in 0..MaxFaults

\* A key names one row however requests with it interleave, are retried after a
\* lost answer or lose the race to insert: create_or_get and execute look the key
\* up without a lock that covers its absence and rely on the unique constraint.
OneRowPerKey ==
    /\ \A x, y \in batches : x.key = y.key => x = y
    /\ \A x, y \in runs : x.key = y.key /\ x.key # NoKey => x = y

\* A batch runs exactly what the revision it names pins, and that revision was
\* active: the plan cannot be revised between execute's read and its commit.
BatchIsPinned ==
    \A b \in batches :
       LET plan == revisions[b.body[1]][b.body[2]]
       IN  plan.status = "ACTIVE" /\ b.pins = plan.pins

\* The target an execution was asked for fits the scripts that run, whenever the
\* revision the route compared is the one that was executed; the comparison is
\* made on a read of its own, so an author may put another revision in between.
TargetWasFit ==
    \A b \in batches :
       b.checked = b.body[2] /\ b.source = "pinned" => ~HostSourced(b.pins)

\* An active plan can be executed for ever: a script or environment that is later
\* revised or archived does not reach into the revisions a plan pins.
PlansStayRunnable ==
    \A p \in Plans :
       revisions[p] # <<>> => Repository!References(Repository!Current(p).pins)

\* Only the request that created a row dispatches it, so a replay, the loser of
\* an insert race included, starts nothing a second time.
DispatchedOnce ==
    \A row \in DOMAIN dispatched : dispatched[row] <= 1

\* No request waits for ever: the row lock on a plan and the wait for another
\* transaction's key never form a cycle.
RequestsEnd == \A t \in Threads : pc[t] # "idle" ~> pc[t] = "idle"

\* The SQL repositories implement the one-lock repositories of the tests: every
\* step, the answers given included, is one of theirs or leaves them alone.
RepositorySpec == Repository!Spec

\* A request that is sent again, at the same time or later, makes no second row
\* and starts nothing a second time.
RequestsAreIdempotent == TypeOK /\ OneRowPerKey /\ DispatchedOnce

\* A batch runs what the revision it names pins, on a target that fits it, and
\* what a plan pins stays there to be run.
BatchRunsItsPins == BatchIsPinned /\ TargetWasFit /\ PlansStayRunnable

\* The SQL repositories implement the one-lock repository and answer everybody.
RepositoryIsImplemented == RepositorySpec /\ RequestsEnd
=============================================================================
