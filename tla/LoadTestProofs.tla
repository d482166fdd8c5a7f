--------------------------- MODULE LoadTestProofs ---------------------------
(***************************************************************************)
(* LoadTest implements LoadTestRepository: for any runs, threads, plans    *)
(* and bounds, every step of the service, its executors and its request    *)
(* threads is a step of the repository with one lock, or leaves the tables *)
(* alone.  And the record of a run is what happened: a success is whole,   *)
(* rows only advance, and a RUNNING run is in somebody's hands.            *)
(***************************************************************************)
EXTENDS LoadTest, FiniteSetTheorems, TLAPS

-----------------------------------------------------------------------------
(* The invariant.                                                          *)

Places == {"none", "first", "resolve", "working", "flush", "handler", "decide", "write",
           "fail", "finally", "dead", "done"}

\* Where _execute still has to write its run.
Executing == {"first", "resolve", "working", "flush", "handler", "decide", "write", "fail"}

ThreadPlaces == {"idle", "loop", "target", "add", "persist", "next", "scenario", "done", "raised"}

Locals == [pc : ThreadPlaces \cup {"respond"}, num : 0..MaxTotal, seen : 0..MaxTotal, step : Nat,
           ok : BOOLEAN, whole : BOOLEAN, back : {"loop", "next"}]

\* A request thread reports the response it has counted.
Counted(local) == local.pc = "respond" => local.num # 0

\* The tables: without a test there are no rows, and one run at a time is RUNNING.
TablesInv ==
    /\ plan \in Plans \cup {NoPlan}
    /\ row \in [RunIds -> Repository!Rows]
    /\ responses \in [RunIds -> SUBSET (1..MaxTotal)]
    /\ plan = NoPlan => row = [r \in RunIds |-> NoRow]
    /\ \A r, q \in RunIds : row[r].status = "RUNNING" /\ row[q].status = "RUNNING" => r = q

\* What the executor counts, and what its threads hold.
CountsInv == total \in 0..MaxTotal /\ latest \in 0..MaxTotal /\ pending \in SUBSET (1..MaxTotal)
ThreadInv == thread \in [Threads -> Locals] /\ \A t \in Threads : Counted(thread[t])

\* A run that is executed, or about to be submitted, is RUNNING; nothing is
\* executed while the service is down.
HandsInv ==
    /\ exec \in [RunIds -> Places]
    /\ \A r \in RunIds : exec[r] \in Executing => row[r].status = "RUNNING"
    /\ starter = "submit" => \E r \in RunIds : row[r].status = "RUNNING" /\ exec[r] = "none"
    /\ service = "down" => starter = "idle" /\ \A r \in RunIds : exec[r] \in {"none", "done"}
    /\ \A r \in RunIds : exec[r] = "write" => outcome \in {"SUCCEEDED", "FAILED"}

ServiceInv == TablesInv /\ CountsInv /\ ThreadInv /\ HandsInv

RepositoryStep == [Repository!Next]_(Repository!repositoryVars)

LEMMA Bounds == MaxTotal \in Nat /\ NoPlan \notin Plans
BY LoadTestAssumption

Messages == {"none", "cancelled", "failed", "unavailable", "interrupted"}

-----------------------------------------------------------------------------
(* What the transactions do to the tables.                                 *)

LEMMA SameTables ==
    ASSUME TablesInv, UNCHANGED tables PROVE TablesInv' /\ RepositoryStep
BY DEF TablesInv, tables, RepositoryStep, Repository!repositoryVars

\* update_run: a RUNNING row gets a new status, total and message.
LEMMA UpdateRunKeeps ==
    ASSUME TablesInv, NEW r \in RunIds, NEW status \in {"RUNNING", "SUCCEEDED", "FAILED"},
           NEW metrics \in 0..MaxTotal, NEW message \in Messages,
           UpdateRun(r, status, metrics, message), UNCHANGED <<plan, responses>>
    PROVE  /\ TablesInv' /\ RepositoryStep
           /\ \A q \in RunIds : q # r => row'[q] = row[q]
           /\ row[r].status = "RUNNING" => row'[r].status = status
           /\ row[r].status # "RUNNING" => row' = row
<1>1. CASE row[r].status # "RUNNING"
  <2>1. UNCHANGED tables
    BY <1>1 DEF UpdateRun, tables
  <2> QED BY <1>1, <2>1, SameTables DEF tables
<1>2. CASE row[r].status = "RUNNING"
  <2> DEFINE new == [row[r] EXCEPT !.status = status, !.total = metrics, !.error = message]
  <2>1. row[r] \in Repository!Rows /\ row[r] # Repository!NoRow
    BY <1>2 DEF TablesInv, Repository!NoRow
  <2>2. row[r] \in [status : Repository!RunStatus, mode : {p.mode : p \in Plans},
                    total : 0..MaxTotal, error : Messages]
    BY <2>1 DEF Repository!Rows, Messages
  <2>3. new \in Repository!Rows /\ new.status = status /\ new.mode = row[r].mode
    BY <2>2 DEF Repository!Rows, Repository!RunStatus, Messages
  <2>4. row' = [row EXCEPT ![r] = new] /\ new # Repository!NoRow
    BY <1>2, <2>3 DEF UpdateRun, Repository!NoRow
  <2>5. Repository!UpdateRun(r)
    BY <1>2, <2>3, <2>4, Zenon DEF Repository!UpdateRun
  <2>6. \A q \in RunIds : q # r => row'[q] = row[q]
    BY <2>4 DEF TablesInv
  <2>7. row'[r] = new
    BY <2>4 DEF TablesInv
  <2>8. row' \in [RunIds -> Repository!Rows] /\ plan # NoPlan
    BY <1>2, <2>3, <2>4 DEF TablesInv, NoRow
  <2>9. TablesInv'
    BY <1>2, <2>6, <2>8 DEF TablesInv
  <2> QED BY <1>2, <2>3, <2>5, <2>6, <2>7, <2>9 DEF RepositoryStep, Repository!Next
<1> QED BY <1>1, <1>2

\* add_run_responses for a run that is there.
LEMMA AddKeeps ==
    ASSUME TablesInv, NEW r \in RunIds, row[r].status = "RUNNING",
           NEW numbers \in SUBSET (1..MaxTotal), AddRunResponses(r, numbers), UNCHANGED <<plan, row>>
    PROVE  TablesInv' /\ RepositoryStep
<1>1. row[r] # Repository!NoRow
  BY DEF Repository!NoRow
<1>2. Repository!AddRunResponses(r)
  BY <1>1 DEF AddRunResponses, Repository!AddRunResponses
<1>3. TablesInv'
  BY DEF TablesInv, AddRunResponses
<1> QED BY <1>2, <1>3 DEF RepositoryStep, Repository!Next

-----------------------------------------------------------------------------
(* What keeps a run in somebody's hands.                                   *)

\* _execute of run r goes on, with nobody else executing beside it.
LEMMA MoveKeeps ==
    ASSUME ServiceInv, NEW r \in RunIds, exec[r] \in Executing,
           NEW place \in Places \ {"none"}, exec' = [exec EXCEPT ![r] = place],
           \A q \in RunIds : q # r => row'[q] = row[q],
           place \in Executing => row'[r].status = "RUNNING",
           place = "write" => outcome' \in {"SUCCEEDED", "FAILED"},
           UNCHANGED <<service, starter>>
    PROVE  HandsInv' /\ exec' \in [RunIds -> Places]
<1>1. \A q \in RunIds : q # r => exec[q] \notin Executing /\ exec'[q] = exec[q]
  BY DEF ServiceInv, TablesInv, HandsInv
<1>2. exec'[r] = place /\ exec' \in [RunIds -> Places]
  BY DEF ServiceInv, HandsInv
<1>3. service # "down"
  BY DEF ServiceInv, HandsInv, Executing
<1>4. exec[r] # "none"
  BY DEF Executing
<1>5. \A q \in RunIds : exec'[q] \in Executing => row'[q].status = "RUNNING"
  BY <1>1, <1>2
<1>6. starter' = "submit" => \E q \in RunIds : row'[q].status = "RUNNING" /\ exec'[q] = "none"
  BY <1>1, <1>4 DEF ServiceInv, HandsInv
<1>7. \A q \in RunIds : exec'[q] = "write" => outcome' \in {"SUCCEEDED", "FAILED"}
  BY <1>1, <1>2 DEF Executing
<1> QED BY <1>2, <1>3, <1>5, <1>6, <1>7 DEF HandsInv

\* Somebody else's step, which leaves every status alone.
LEMMA HandsKeep ==
    ASSUME HandsInv, \A q \in RunIds : row'[q].status = row[q].status,
           UNCHANGED <<exec, starter, service, outcome>>
    PROVE  HandsInv'
BY DEF HandsInv

\* The thread that begins, at the loop's head or in the middle of it.
LEMMA IdleLocals ==
    ASSUME NEW place \in ThreadPlaces
    PROVE  [Idle EXCEPT !.pc = place] \in Locals /\ [Idle EXCEPT !.pc = place].pc = place
<1>1. Idle \in Locals
  BY Bounds DEF Idle, Locals, ThreadPlaces
<1> QED BY <1>1 DEF Locals

LEMMA AllIdle ==
    ASSUME NEW place \in ThreadPlaces, thread' = [t \in Threads |-> [Idle EXCEPT !.pc = place]]
    PROVE  ThreadInv'
BY IdleLocals DEF ThreadInv, Counted, ThreadPlaces

LEMMA IdleIsIdle == Idle = [Idle EXCEPT !.pc = "idle"] /\ "idle" \in ThreadPlaces
BY DEF Idle, ThreadPlaces

\* One request thread goes on.
LEMMA PutKeeps ==
    ASSUME ThreadInv, NEW t \in Threads, NEW local \in Locals, Counted(local), Put(t, local)
    PROVE  ThreadInv'
BY DEF ThreadInv, Put

-----------------------------------------------------------------------------
(* The service.                                                            *)

LEMMA NewRunIsUnstarted == ASSUME Unstarted # {} PROVE NewRun \in Unstarted
BY DEF NewRun

LEMMA CreatedIsActive ==
    ASSUME HandsInv, starter = "submit"
    PROVE  Created \in RunIds /\ row[Created].status = "RUNNING" /\ exec[Created] = "none"
<1>1. \E r \in Active : exec[r] = "none"
  BY DEF HandsInv, Active
<1>2. Created \in Active /\ exec[Created] = "none"
  BY <1>1 DEF Created
<1> QED BY <1>2 DEF Active

LEMMA DefinitionSteps ==
    ASSUME ServiceInv, CreateLoadTest \/ UpdateLoadTest \/ DeleteLoadTest
    PROVE  ServiceInv' /\ RepositoryStep
<1>1. CountsInv' /\ ThreadInv'
  BY DEF ServiceInv, CountsInv, ThreadInv, CreateLoadTest, UpdateLoadTest, DeleteLoadTest,
         NotService, locals, counters
<1>2. UNCHANGED <<exec, starter, service, outcome>>
  BY DEF CreateLoadTest, UpdateLoadTest, DeleteLoadTest, NotService, locals, starting
<1>3. CASE CreateLoadTest
  <2>1. Repository!CreateLoadTest /\ plan' # NoPlan
    BY <1>3, Bounds DEF ServiceInv, TablesInv, CreateLoadTest, Repository!CreateLoadTest, NoRow,
                Repository!NoRow
  <2>2. TablesInv' /\ HandsInv'
    BY <1>2, <1>3, <2>1, HandsKeep DEF ServiceInv, TablesInv, CreateLoadTest
  <2> QED BY <1>1, <2>1, <2>2 DEF ServiceInv, RepositoryStep, Repository!Next
<1>4. CASE UpdateLoadTest
  <2>1. Repository!UpdateLoadTest /\ plan' # NoPlan
    BY <1>4, Bounds DEF UpdateLoadTest, Repository!UpdateLoadTest
  <2>2. TablesInv' /\ HandsInv'
    BY <1>2, <1>4, <2>1, HandsKeep DEF ServiceInv, TablesInv, UpdateLoadTest
  <2> QED BY <1>1, <2>1, <2>2 DEF ServiceInv, RepositoryStep, Repository!Next
<1>5. CASE DeleteLoadTest
  <2>1. Repository!DeleteLoadTest
    BY <1>5 DEF DeleteLoadTest, Repository!DeleteLoadTest, Active, Repository!ActiveRun, NoRow,
                Repository!NoRow
  <2>2. TablesInv'
    BY <1>5 DEF TablesInv, DeleteLoadTest, NoRow, Repository!Rows, Repository!NoRow
  <2>3. starter # "submit" /\ \A r \in RunIds : exec[r] \notin Executing
    BY <1>5 DEF ServiceInv, HandsInv, DeleteLoadTest, Active
  <2>4. HandsInv'
    BY <1>2, <2>3 DEF ServiceInv, HandsInv, Executing
  <2> QED BY <1>1, <2>1, <2>2, <2>4 DEF ServiceInv, RepositoryStep, Repository!Next
<1> QED BY <1>3, <1>4, <1>5

\* What a step that leaves tables, counts and threads alone has to show.
LEMMA OnlyHands ==
    ASSUME ServiceInv, UNCHANGED <<tables, latest, pending, total, thread>>, HandsInv'
    PROVE  ServiceInv' /\ RepositoryStep
<1>1. TablesInv' /\ RepositoryStep
  BY SameTables DEF ServiceInv
<1> QED BY <1>1 DEF ServiceInv, CountsInv, ThreadInv

LEMMA StartSteps ==
    ASSUME ServiceInv, ReadDefinition \/ CreateRun \/ StartRefused
    PROVE  ServiceInv' /\ RepositoryStep
<1>1. CASE ReadDefinition \/ StartRefused
  <2>1. UNCHANGED <<tables, latest, pending, total, thread, row, exec, service, outcome>>
    BY <1>1 DEF ReadDefinition, StartRefused, tables, locals, counters
  <2>2. HandsInv'
    BY <1>1, <2>1 DEF ServiceInv, HandsInv, ReadDefinition, StartRefused
  <2> QED BY <2>1, <2>2, OnlyHands
<1>2. CASE CreateRun
  <2> DEFINE new == [status |-> "RUNNING", mode |-> plan.mode, total |-> 0, error |-> "none"]
  <2>1. NewRun \in RunIds /\ row[NewRun] = NoRow /\ exec[NewRun] = "none"
    BY <1>2, NewRunIsUnstarted DEF CreateRun, Unstarted
  <2>2. row' = [row EXCEPT ![NewRun] = new]
    BY <1>2 DEF CreateRun
  <2>3. plan \in Plans /\ Active = {}
    BY <1>2 DEF ServiceInv, TablesInv, CreateRun
  <2>4. Repository!CreateRun(NewRun)
    BY <1>2, <2>1, <2>2, <2>3 DEF CreateRun, Repository!CreateRun, Active, Repository!ActiveRun,
                             NoRow, Repository!NoRow
  <2>5. new \in Repository!Rows /\ new.status = "RUNNING"
    BY <2>3, Bounds DEF Repository!Rows, Repository!RunStatus
  <2>6. row' \in [RunIds -> Repository!Rows] /\ row'[NewRun].status = "RUNNING"
    BY <2>1, <2>2, <2>5 DEF ServiceInv, TablesInv
  <2>7. \A q \in RunIds : q # NewRun => row'[q] = row[q] /\ row[q].status # "RUNNING"
    BY <2>2, <2>3 DEF ServiceInv, TablesInv, Active
  <2>8. UNCHANGED <<plan, responses, latest, pending, total, thread, exec, service, outcome>>
    BY <1>2 DEF CreateRun, locals, counters
  <2>9. TablesInv' /\ CountsInv' /\ ThreadInv'
    BY <2>3, <2>6, <2>7, <2>8, Bounds DEF ServiceInv, TablesInv, CountsInv, ThreadInv
  <2>10. HandsInv'
    BY <1>2, <2>1, <2>6, <2>7, <2>8 DEF ServiceInv, HandsInv, CreateRun, Executing
  <2> QED BY <2>1, <2>4, <2>9, <2>10 DEF ServiceInv, RepositoryStep, Repository!Next
<1> QED BY <1>1, <1>2

LEMMA SubmitSteps ==
    ASSUME ServiceInv, Submit \/ SubmitRaises
    PROVE  ServiceInv' /\ RepositoryStep
<1>1. Created \in RunIds /\ row[Created].status = "RUNNING" /\ exec[Created] = "none"
      /\ service # "down"
  BY CreatedIsActive DEF ServiceInv, HandsInv, Submit, SubmitRaises
<1>2. \A q \in RunIds : q # Created => row[q].status # "RUNNING" /\ exec[q] \notin Executing
  BY <1>1 DEF ServiceInv, TablesInv, HandsInv
<1>3. UNCHANGED <<latest, pending, total, thread, outcome, service>> /\ starter' = "idle"
  BY DEF Submit, SubmitRaises, locals, counters
<1>4. CASE Submit
  <2>1. UNCHANGED <<tables, row>>
    BY <1>4 DEF Submit, tables
  <2>2. HandsInv'
    BY <1>1, <1>2, <1>3, <1>4, <2>1 DEF ServiceInv, HandsInv, Submit, Places, Executing
  <2> QED BY <1>3, <2>1, <2>2, OnlyHands
<1>5. CASE SubmitRaises
  <2>1. /\ exec' \in [RunIds -> Places]
        /\ \A q \in RunIds : exec'[q] \notin Executing
    BY <1>1, <1>2, <1>5 DEF ServiceInv, HandsInv, SubmitRaises, Places, Executing
  <2>2. HandsInv'
    BY <1>1, <1>3, <2>1 DEF HandsInv, Executing
  <2>3. row[Created].total \in 0..MaxTotal
    BY <1>1 DEF ServiceInv, TablesInv, Repository!Rows, Repository!NoRow
  <2>4. TablesInv' /\ RepositoryStep
    <3>1. CASE UpdateRun(Created, "FAILED", row[Created].total, "unavailable")
      BY <1>1, <1>5, <2>3, <3>1, UpdateRunKeeps DEF ServiceInv, SubmitRaises, Messages
    <3>2. CASE UNCHANGED row
      BY <1>5, <3>2, SameTables DEF ServiceInv, SubmitRaises, tables
    <3> QED BY <1>5, <3>1, <3>2 DEF SubmitRaises
  <2> QED BY <1>3, <2>2, <2>4 DEF ServiceInv, CountsInv, ThreadInv
<1> QED BY <1>4, <1>5

LEMMA ProcessSteps ==
    ASSUME ServiceInv,
           (\E r \in RunIds : CancelRun(r)) \/ Expire \/ Shutdown \/ Stopped \/ Crash \/ Restart
    PROVE  ServiceInv' /\ RepositoryStep
<1>1. CASE (\E r \in RunIds : CancelRun(r)) \/ Expire \/ Shutdown
  <2>1. UNCHANGED <<tables, latest, pending, total, thread, row, exec, starter, outcome>>
    BY <1>1 DEF CancelRun, Expire, Shutdown, tables, locals, counters, starting
  <2>2. service' # "down" \/ service' = service
    BY <1>1 DEF CancelRun, Expire, Shutdown
  <2>3. HandsInv'
    BY <2>1, <2>2 DEF ServiceInv, HandsInv
  <2> QED BY <2>1, <2>3, OnlyHands
<1>2. CASE Stopped \/ Crash
  <2>1. Gone /\ UNCHANGED <<tables, row>>
    BY <1>2 DEF Stopped, Crash, Gone, tables
  <2>2. HandsInv'
    BY <2>1 DEF HandsInv, Gone, Places, Executing
  <2>3. CountsInv'
    BY <2>1, Bounds DEF CountsInv, Gone, Forget
  <2>4. ThreadInv'
    BY <2>1, AllIdle, IdleIsIdle DEF Gone
  <2> QED BY <2>1, <2>2, <2>3, <2>4, SameTables DEF ServiceInv
<1>3. CASE Restart
  <2>1. Repository!RecoverRunningRuns
    BY <1>3 DEF Restart, Repository!RecoverRunningRuns
  <2>2. \A r \in RunIds : row'[r].status # "RUNNING" /\ row'[r] \in Repository!Rows
    <3> SUFFICES ASSUME NEW r \in RunIds
                 PROVE  row'[r].status # "RUNNING" /\ row'[r] \in Repository!Rows
      OBVIOUS
    <3>1. CASE row[r].status # "RUNNING"
      BY <1>3, <3>1 DEF Restart, ServiceInv, TablesInv
    <3>2. CASE row[r].status = "RUNNING"
      <4>1. row[r] \in [status : Repository!RunStatus, mode : {p.mode : p \in Plans},
                        total : 0..MaxTotal, error : Messages]
        BY <3>2 DEF ServiceInv, TablesInv, Repository!Rows, Repository!NoRow, Messages
      <4>2. row'[r] = [row[r] EXCEPT !.status = "FAILED", !.error = "interrupted"]
        BY <1>3, <3>2 DEF Restart
      <4> QED BY <4>1, <4>2 DEF Repository!Rows, Repository!RunStatus, Messages
    <3> QED BY <3>1, <3>2
  <2>3. row' = [r \in RunIds |-> row'[r]]
    BY <1>3 DEF Restart
  <2>4. plan = NoPlan => row' = [r \in RunIds |-> NoRow]
    <3> SUFFICES ASSUME plan = NoPlan PROVE \A r \in RunIds : row'[r] = NoRow
      BY <2>3
    <3>1. \A r \in RunIds : row[r] = NoRow /\ row[r].status # "RUNNING"
      BY DEF ServiceInv, TablesInv, NoRow
    <3> QED BY <1>3, <3>1 DEF Restart
  <2>5. UNCHANGED <<plan, responses, latest, pending, total, thread, exec, starter, outcome>>
        /\ service = "down" /\ service' = "up"
    BY <1>3 DEF Restart, locals, counters, starting
  <2>6. TablesInv' /\ CountsInv' /\ ThreadInv'
    BY <2>2, <2>3, <2>4, <2>5 DEF ServiceInv, TablesInv, CountsInv, ThreadInv
  <2>7. HandsInv'
    BY <2>5 DEF ServiceInv, HandsInv, Executing
  <2> QED BY <2>1, <2>6, <2>7 DEF ServiceInv, RepositoryStep, Repository!Next
<1> QED BY <1>1, <1>2, <1>3

-----------------------------------------------------------------------------
(* _execute.                                                               *)

LEMMA RunningRow ==
    ASSUME TablesInv, NEW r \in RunIds, row[r].status = "RUNNING"
    PROVE  row[r].total \in 0..MaxTotal
BY DEF TablesInv, Repository!Rows, Repository!NoRow

\* The steps that leave the tables alone.
LEMMA ExecuteMoves ==
    ASSUME ServiceInv, NEW r \in RunIds, FirstRead(r) \/ Resolve(r) \/ Join(r) \/ Decide(r)
    PROVE  ServiceInv' /\ RepositoryStep
<1>1. exec[r] \in Executing /\ row[r].status = "RUNNING"
  BY DEF ServiceInv, HandsInv, FirstRead, Resolve, Join, Decide, Executing
<1>2. UNCHANGED <<tables, row, service, starter>>
  BY DEF FirstRead, Resolve, Join, Decide, ExecuteFrame, tables, starting
<1>3. PICK place \in Places \ {"none"} : Goto(r, place) /\ (place = "write" => Decide(r))
  BY DEF FirstRead, Resolve, Join, Decide, Places
<1>4. place = "write" => outcome' \in {"SUCCEEDED", "FAILED"}
  BY <1>3 DEF Decide
<1>5. HandsInv'
  BY <1>1, <1>2, <1>3, <1>4, MoveKeeps DEF Goto
<1>6. CountsInv'
  BY <1>1, Bounds, RunningRow DEF ServiceInv, CountsInv, FirstRead, Resolve, Join, Decide, locals, counters
<1>7. ThreadInv'
  <2>1. "loop" \in ThreadPlaces
    BY DEF ThreadPlaces
  <2>2. \/ UNCHANGED thread
        \/ thread' = [t \in Threads |-> [Idle EXCEPT !.pc = "loop"]]
        \/ thread' = [t \in Threads |-> Idle]
    BY DEF FirstRead, Resolve, Join, Decide
  <2>3. CASE UNCHANGED thread
    BY <2>3 DEF ServiceInv, ThreadInv
  <2>4. CASE thread' = [t \in Threads |-> [Idle EXCEPT !.pc = "loop"]]
    BY <2>1, <2>4, AllIdle
  <2>5. CASE thread' = [t \in Threads |-> Idle]
    BY <2>5, AllIdle, IdleIsIdle
  <2> QED BY <2>2, <2>3, <2>4, <2>5
<1> QED BY <1>2, <1>5, <1>6, <1>7, SameTables DEF ServiceInv

\* The steps that store the responses kept back.
LEMMA ExecuteStores ==
    ASSUME ServiceInv, NEW r \in RunIds, FlushResponses(r) \/ HandlerFlush(r)
    PROVE  ServiceInv' /\ RepositoryStep
<1>1. exec[r] \in Executing /\ row[r].status = "RUNNING"
  BY DEF ServiceInv, HandsInv, FlushResponses, HandlerFlush, Executing
<1>2. UNCHANGED <<plan, row, service, starter, thread>>
  BY DEF FlushResponses, HandlerFlush, ExecuteFrame, starting
<1>3. PICK place \in Places \ {"none", "write"} : Goto(r, place)
  BY DEF FlushResponses, HandlerFlush, Leave, Places
<1>4. HandsInv'
  BY <1>1, <1>2, <1>3, MoveKeeps DEF Goto
<1>5. CountsInv' /\ ThreadInv'
  BY <1>2, Bounds DEF ServiceInv, CountsInv, ThreadInv, FlushResponses, HandlerFlush, Leave, Forget, counters
<1>6. AddRunResponses(r, pending) \/ UNCHANGED responses
  BY DEF FlushResponses, HandlerFlush
<1>7. TablesInv' /\ RepositoryStep
  BY <1>1, <1>2, <1>6, AddKeeps, SameTables DEF ServiceInv, CountsInv, tables
<1> QED BY <1>4, <1>5, <1>7 DEF ServiceInv

\* The steps that end the run.
LEMMA ExecuteEnds ==
    ASSUME ServiceInv, NEW r \in RunIds, Finish(r) \/ Fail(r)
    PROVE  ServiceInv' /\ RepositoryStep
<1>1. exec[r] \in Executing /\ row[r].status = "RUNNING"
  BY DEF ServiceInv, HandsInv, Finish, Fail, Executing
<1>2. UNCHANGED <<plan, responses, service, starter, thread>>
  BY DEF Finish, Fail, ExecuteFrame, starting
<1>3. CountsInv' /\ ThreadInv'
  <2>1. Forget \/ UNCHANGED <<total, latest, pending>>
    BY DEF Finish, Fail, Leave, Stay, locals, counters
  <2>2. CASE Forget
    BY <1>2, <2>2, Bounds DEF ServiceInv, CountsInv, ThreadInv, Forget
  <2>3. CASE UNCHANGED <<total, latest, pending>>
    BY <1>2, <2>3 DEF ServiceInv, CountsInv, ThreadInv
  <2> QED BY <2>1, <2>2, <2>3
<1>4. CASE UNCHANGED row
  <2>1. PICK place \in Places \ {"none", "write"} : Goto(r, place)
    BY DEF Finish, Fail, Leave, Stay, Places
  <2>2. HandsInv'
    BY <1>1, <1>2, <1>4, <2>1, MoveKeeps DEF Goto
  <2> QED BY <1>2, <1>3, <1>4, <2>2, SameTables DEF ServiceInv, tables
<1>5. CASE row' # row
  <2>1. Goto(r, "finally")
    BY <1>5 DEF Finish, Fail, Leave
  <2>2. PICK status \in {"RUNNING", "SUCCEEDED", "FAILED"}, metrics \in 0..MaxTotal, message \in Messages :
           UpdateRun(r, status, metrics, message)
    <3>1. CASE Finish(r)
      <4>1. outcome \in {"SUCCEEDED", "FAILED"} /\ total \in 0..MaxTotal
        BY <3>1 DEF ServiceInv, HandsInv, CountsInv, Finish
      <4>2. UpdateRun(r, outcome, total, IF r \in cancelled THEN "cancelled" ELSE "none")
        BY <1>5, <3>1 DEF Finish
      <4>3. CASE r \in cancelled
        BY <4>1, <4>2, <4>3 DEF Messages
      <4>4. CASE r \notin cancelled
        BY <4>1, <4>2, <4>4 DEF Messages
      <4> QED BY <4>3, <4>4
    <3>2. CASE Fail(r)
      BY <1>5, <3>2 DEF ServiceInv, CountsInv, Fail, Messages
    <3> QED BY <3>1, <3>2
  <2>3. TablesInv' /\ RepositoryStep /\ \A q \in RunIds : q # r => row'[q] = row[q]
    BY <1>2, <2>2, UpdateRunKeeps DEF ServiceInv
  <2>4. HandsInv'
    BY <1>1, <1>2, <2>1, <2>3, MoveKeeps DEF Goto, Places, Executing
  <2> QED BY <1>3, <2>3, <2>4 DEF ServiceInv
<1> QED BY <1>4, <1>5

LEMMA FinallyStep ==
    ASSUME ServiceInv, NEW r \in RunIds, Finally(r)
    PROVE  ServiceInv' /\ RepositoryStep
<1>1. UNCHANGED <<tables, latest, pending, total, thread, row, service, starter, outcome>>
  BY DEF Finally, ExecuteFrame, tables, locals, counters, starting
<1>2. exec' = [exec EXCEPT ![r] = "done"] /\ exec[r] = "finally"
  BY DEF Finally, Goto
<1>3. HandsInv'
  BY <1>1, <1>2 DEF ServiceInv, HandsInv, Places, Executing
<1> QED BY <1>1, <1>3, OnlyHands

LEMMA ExecuteStep ==
    ASSUME ServiceInv, NEW r \in RunIds, Execute(r)
    PROVE  ServiceInv' /\ RepositoryStep
BY ExecuteMoves, ExecuteStores, ExecuteEnds, FinallyStep DEF Execute

-----------------------------------------------------------------------------
(* The request threads.                                                    *)

LEMMA RunIsWorking ==
    ASSUME ServiceInv, Working # {}
    PROVE  Run \in RunIds /\ row[Run].status = "RUNNING"
<1>1. Run \in Working
  BY DEF Run
<1> QED BY <1>1 DEF Working, ServiceInv, HandsInv, Executing

LEMMA SnapshotKeeps ==
    ASSUME ThreadInv, NEW t \in Threads, NEW count \in 0..MaxTotal, NEW back \in {"loop", "next"},
           Snapshot(t, count, back)
    PROVE  ThreadInv'
<1> DEFINE later == [thread[t] EXCEPT !.pc = "persist", !.seen = count, !.num = 0, !.back = back]
           now == [thread[t] EXCEPT !.pc = back, !.num = 0]
<1>1. thread[t] \in Locals /\ 0 \in 0..MaxTotal /\ "persist" \in ThreadPlaces /\ back \in ThreadPlaces
  BY Bounds DEF ThreadInv, ThreadPlaces
<1>2. later \in Locals /\ later.pc = "persist"
  BY <1>1 DEF Locals
<1>3. now \in Locals /\ now.pc = back
  BY <1>1 DEF Locals
<1> QED BY <1>2, <1>3, PutKeeps DEF Snapshot, Counted

LEMMA MoveThread ==
    ASSUME ThreadInv, NEW t \in Threads, NEW place \in ThreadPlaces, Move(t, place)
    PROVE  ThreadInv'
<1> DEFINE new == [thread[t] EXCEPT !.pc = place]
<1>1. thread[t] \in Locals
  BY DEF ThreadInv
<1>2. new \in Locals /\ new.pc = place
  BY <1>1 DEF Locals
<1> QED BY <1>2, PutKeeps DEF Move, Counted, ThreadPlaces

LEMMA InterruptedKeeps ==
    ASSUME ThreadInv, NEW t \in Threads, Interrupted(t) PROVE ThreadInv'
<1> DEFINE new == [thread[t] EXCEPT !.pc = "scenario", !.whole = FALSE]
<1>1. thread[t] \in Locals /\ "scenario" \in ThreadPlaces
  BY DEF ThreadInv, ThreadPlaces
<1>2. new \in Locals /\ new.pc = "scenario"
  BY <1>1 DEF Locals
<1> QED BY <1>2, PutKeeps DEF Interrupted, Counted

LEMMA SeenKeeps ==
    ASSUME ThreadInv, NEW t \in Threads, Seen(t) PROVE ThreadInv'
<1> DEFINE new == [thread[t] EXCEPT !.pc = thread[t].back, !.seen = 0, !.back = "loop"]
<1>1. thread[t] \in Locals /\ 0 \in 0..MaxTotal /\ {"loop", "next"} \subseteq ThreadPlaces
  BY Bounds DEF ThreadInv, ThreadPlaces
<1>2. thread[t].back \in {"loop", "next"}
  BY <1>1 DEF Locals
<1>3. new \in Locals /\ new.pc = thread[t].back
  BY <1>1, <1>2 DEF Locals
<1> QED BY <1>2, <1>3, PutKeeps DEF Seen, Counted

LEMMA ThreadSteps ==
    ASSUME ServiceInv, NEW t \in Threads, RequestThread(t)
    PROVE  ThreadInv'
<1> USE DEF ServiceInv
<1>1. CASE Claim(t)
  <2>1. PICK place \in {"target", "add"} : Put(t, [Idle EXCEPT !.pc = place])
    BY <1>1 DEF Claim
  <2> QED BY <2>1, IdleLocals, PutKeeps DEF Counted, ThreadPlaces
<1>2. CASE LoopEnds(t)
  BY <1>2, IdleLocals, PutKeeps DEF LoopEnds, Done, Counted, ThreadPlaces
<1>3. CASE Target(t)
  BY <1>3, MoveThread, InterruptedKeeps DEF Target, ThreadPlaces
<1>4. CASE Add(t)
  <2>1. PICK success \in BOOLEAN :
           Put(t, [thread[t] EXCEPT !.pc = "respond", !.num = total + 1, !.ok = success])
    BY <1>4 DEF Add
  <2> DEFINE new == [thread[t] EXCEPT !.pc = "respond", !.num = total + 1, !.ok = success]
  <2>2. total + 1 \in 0..MaxTotal /\ total + 1 # 0 /\ thread[t] \in Locals
    BY <1>4, Bounds DEF Add, CountsInv, ThreadInv
  <2>3. new \in Locals /\ new.num = total + 1
    BY <2>2 DEF Locals
  <2> QED BY <2>1, <2>2, <2>3, PutKeeps DEF Counted
<1>5. CASE Respond(t)
  <2>1. AfterRequest \in {"loop", "next"} /\ total \in 0..MaxTotal
    BY DEF AfterRequest, CountsInv
  <2>2. Snapshot(t, total, AfterRequest) \/ Move(t, "raised")
    BY <1>5 DEF Respond
  <2> QED BY <2>1, <2>2, SnapshotKeeps, MoveThread DEF ThreadPlaces
<1>6. CASE Persist(t)
  <2>1. Seen(t) \/ Move(t, "raised")
    BY <1>6 DEF Persist
  <2> QED BY <2>1, SeenKeeps, MoveThread DEF ThreadPlaces
<1>7. CASE NextTarget(t)
  <2>1. \/ Move(t, "scenario") \/ Interrupted(t)
        \/ Put(t, [thread[t] EXCEPT !.step = @ + 1, !.pc = "target"])
    BY <1>7 DEF NextTarget
  <2> DEFINE new == [thread[t] EXCEPT !.step = @ + 1, !.pc = "target"]
  <2>2. thread[t].step + 1 \in Nat
    BY DEF ThreadInv, Locals
  <2>3. thread[t] \in Locals /\ "target" \in ThreadPlaces /\ "scenario" \in ThreadPlaces
    BY DEF ThreadInv, ThreadPlaces
  <2>4. new \in Locals /\ new.pc = "target"
    BY <2>2, <2>3 DEF Locals
  <2> QED BY <2>1, <2>3, <2>4, MoveThread, InterruptedKeeps, PutKeeps DEF Counted
<1>8. CASE ScenarioEnds(t)
  BY <1>8, SnapshotKeeps DEF ScenarioEnds, CountsInv
<1> QED BY <1>1, <1>2, <1>3, <1>4, <1>5, <1>6, <1>7, <1>8 DEF RequestThread

LEMMA ThreadStep ==
    ASSUME ServiceInv, NEW t \in Threads, RequestThread(t)
    PROVE  ServiceInv' /\ RepositoryStep
<1>1. ThreadInv'
  BY ThreadSteps
<1>2. UNCHANGED <<plan, service, starter, exec, outcome>>
  BY DEF RequestThread, Claim, LoopEnds, Target, Add, Respond, Persist, NextTarget, ScenarioEnds,
         ThreadFrame, starting
<1>3. CASE Respond(t)
  <2> DEFINE batch == pending \cup {thread[t].num}
  <2>1. batch \in SUBSET (1..MaxTotal)
    <3>1. thread[t] \in Locals /\ thread[t].pc = "respond" /\ Counted(thread[t])
      BY <1>3 DEF ServiceInv, ThreadInv, Respond, At
    <3>2. thread[t].num \in 0..MaxTotal /\ thread[t].num # 0
      BY <3>1 DEF Locals, Counted
    <3>3. thread[t].num \in 1..MaxTotal
      BY <3>2, Bounds
    <3> QED BY <3>3 DEF ServiceInv, CountsInv
  <2>2. Run \in RunIds /\ row[Run].status = "RUNNING"
    BY <1>3, RunIsWorking DEF Respond, At
  <2>3. UNCHANGED <<row, latest, total>> /\ (AddRunResponses(Run, batch) \/ UNCHANGED responses)
    BY <1>3 DEF Respond
  <2>4. pending' = batch \/ pending' = {}
    BY <1>3 DEF Respond
  <2>5. CountsInv'
    BY <2>1, <2>3, <2>4 DEF ServiceInv, CountsInv
  <2>6. TablesInv' /\ RepositoryStep
    BY <1>2, <2>1, <2>2, <2>3, AddKeeps, SameTables DEF ServiceInv, tables
  <2> QED BY <1>1, <1>2, <2>3, <2>5, <2>6, HandsKeep DEF ServiceInv
<1>4. CASE Persist(t)
  <2>1. thread[t].seen \in 0..MaxTotal
    BY DEF ServiceInv, ThreadInv, Locals
  <2>2. Run \in RunIds /\ row[Run].status = "RUNNING"
    BY <1>4, RunIsWorking DEF Persist, At
  <2>3. /\ UNCHANGED <<responses, pending, total>>
        /\ \/ UNCHANGED <<row, latest>>
           \/ UpdateRun(Run, "RUNNING", thread[t].seen, "none") /\ latest' = thread[t].seen
    BY <1>4 DEF Persist
  <2>4. CountsInv'
    BY <2>1, <2>3 DEF ServiceInv, CountsInv
  <2>5. CASE UNCHANGED row
    BY <1>1, <1>2, <2>3, <2>4, <2>5, HandsKeep, SameTables DEF ServiceInv, tables
  <2>6. CASE UpdateRun(Run, "RUNNING", thread[t].seen, "none")
    <3>1. /\ TablesInv' /\ RepositoryStep
          /\ \A q \in RunIds : row'[q].status = row[q].status
      BY <1>2, <2>1, <2>2, <2>3, <2>6, UpdateRunKeeps DEF ServiceInv, Messages
    <3> QED BY <1>1, <1>2, <2>4, <3>1, HandsKeep DEF ServiceInv
  <2> QED BY <2>3, <2>5, <2>6
<1>5. CASE ~ Respond(t) /\ ~ Persist(t)
  <2>1. UNCHANGED <<row, responses, latest, pending>> /\ (total' = total \/ Add(t))
    BY <1>5 DEF RequestThread, Claim, LoopEnds, Target, Add, NextTarget, ScenarioEnds
  <2>2. total' \in 0..MaxTotal
    <3>1. CASE Add(t)
      <4>1. total < MaxTotal /\ total' = total + 1
        BY <3>1 DEF Add
      <4> QED BY <4>1, Bounds DEF ServiceInv, CountsInv
    <3>2. CASE total' = total
      BY <3>2 DEF ServiceInv, CountsInv
    <3> QED BY <2>1, <3>1, <3>2
  <2>3. CountsInv'
    BY <2>1, <2>2 DEF ServiceInv, CountsInv
  <2> QED BY <1>1, <1>2, <2>1, <2>3, HandsKeep, SameTables DEF ServiceInv, tables
<1> QED BY <1>3, <1>4, <1>5

-----------------------------------------------------------------------------
LEMMA ServiceInit == Init => ServiceInv /\ Repository!Init
<1> SUFFICES ASSUME Init PROVE ServiceInv /\ Repository!Init
  OBVIOUS
<1>1. TablesInv
  BY DEF Init, TablesInv, NoRow, Repository!Rows, Repository!NoRow
<1>2. CountsInv
  BY Bounds DEF Init, CountsInv
<1>3. ThreadInv
  BY IdleLocals, IdleIsIdle DEF Init, ThreadInv, Counted, Idle
<1>4. HandsInv
  BY DEF Init, HandsInv, Places, Executing
<1>5. Repository!Init
  BY DEF Init, Repository!Init, NoRow, Repository!NoRow
<1> QED BY <1>1, <1>2, <1>3, <1>4, <1>5 DEF ServiceInv

LEMMA ServiceStep == ServiceInv /\ [Next]_vars => ServiceInv' /\ RepositoryStep
<1> SUFFICES ASSUME ServiceInv, [Next]_vars PROVE ServiceInv' /\ RepositoryStep
  OBVIOUS
<1>1. CASE Next
  BY <1>1, DefinitionSteps, StartSteps, SubmitSteps, ProcessSteps, ExecuteStep, ThreadStep
     DEF Next
<1>2. CASE UNCHANGED vars
  <2>1. UNCHANGED <<tables, latest, pending, total, thread, row, exec, starter, service, outcome>>
    BY <1>2 DEF vars, tables, locals, counters, starting
  <2>2. HandsInv'
    BY <2>1, HandsKeep DEF ServiceInv
  <2> QED BY <2>1, <2>2, OnlyHands
<1> QED BY <1>1, <1>2

\* The tables behave as the repository with one lock promises, whatever the
\* service, its executors and its request threads do beside each other, whichever
\* transactions raise and whenever the process is killed.
THEOREM ImplementsRepository == Spec => RepositorySpec
<1>1. Init => ServiceInv /\ Repository!Init
  BY ServiceInit
<1>2. ServiceInv /\ [Next]_vars => ServiceInv' /\ [Repository!Next]_(Repository!repositoryVars)
  BY ServiceStep DEF RepositoryStep
<1> QED BY <1>1, <1>2, PTL DEF Spec, RepositorySpec, Repository!Spec

-----------------------------------------------------------------------------
(* What the record says.  In COUNT mode a request or a scenario that was    *)
(* claimed is answered or with one of the threads, and a request that was   *)
(* made is stored, kept back or with the thread that made it, unless a      *)
(* thread raised; what is written of a run is what was last seen of it.     *)

\* The request thread holds a claim that is not answered yet.
Flies(l) ==
    \/ l.pc \in {"target", "add", "next", "scenario"}
    \/ Scenario /\ (l.pc = "respond" \/ (l.pc = "persist" /\ l.back = "next"))
Flying == {t \in Threads : Flies(thread[t])}
Answered == IF Scenario THEN scenarios ELSE total

\* A thread's locals l, when `made` requests were made and `claims` claimed.
Knows(l, made, claims, stopped) ==
    /\ l.seen <= made
    /\ l.pc = "respond" => l.num \in 1..made
    /\ ~Scenario => l.pc \notin {"target", "next", "scenario"} /\ l.back = "loop"
    /\ Count /\ ~stopped => l.whole /\ (l.pc = "done" => claims >= RequestCount)

NoneRaised == \A t \in Threads : thread[t].pc # "raised"
OnRecord(r, n) ==
    n \in responses[r] \/ n \in pending \/ \E t \in Threads : thread[t].pc = "respond" /\ thread[t].num = n

WorkingInv(r) ==
    /\ \A t \in Threads : Knows(thread[t], total, sequence, r \in cancelled)
    /\ responses[r] \subseteq 1..total /\ pending \subseteq 1..total
    /\ NoneRaised => \A n \in 1..total : OnRecord(r, n)
    /\ NoneRaised /\ Count /\ r \notin cancelled => Answered + Cardinality(Flying) = sequence

\* request_count requests, or scenarios, were made.
Made == Count => Answered = RequestCount

ExecutorInv(r) ==
    /\ exec[r] \in Executing => task \in Plans
    /\ exec[r] \in Executing \ {"first"} => latest = row[r].total
    /\ exec[r] \in {"working", "flush", "decide", "write"} => latest <= total
    /\ exec[r] = "resolve" => pending = {}
    /\ exec[r] = "working" => WorkingInv(r)
    /\ exec[r] = "flush" => /\ responses[r] \cup pending = 1..total
                            /\ r \notin cancelled => Made
    /\ exec[r] = "decide" => responses[r] = 1..total /\ (r \notin cancelled => Made)
    /\ exec[r] = "write" /\ outcome = "SUCCEEDED" => responses[r] = 1..total /\ Made

\* A run that has not begun has no totals and no responses.
FreshInv ==
    \A r \in RunIds :
        row[r] = NoRow \/ (row[r].status = "RUNNING" /\ exec[r] \in {"none", "first", "resolve"})
            => row[r].total = 0 /\ responses[r] = {}

RequestInv ==
    /\ starter \in {"idle", "create", "submit"} /\ startPlan \in Plans \cup {NoPlan}
    /\ starter # "idle" => startPlan \in Plans
    /\ registered \subseteq RunIds /\ cancelled \subseteq RunIds

\* Where the executor's counters are in use.
Counting == {"working", "flush", "handler", "decide", "write", "fail"}

ClaimsInv ==
    /\ task \in Plans \cup {NoPlan} /\ scenarios \in Nat
    /\ sequence \in 0..(IF task # NoPlan /\ task.mode = "COUNT" THEN RequestCount ELSE MaxSequence)
    /\ (\A r \in RunIds : exec[r] \notin Counting) => sequence = 0

RecordInv == RequestInv /\ ClaimsInv /\ FreshInv /\ \A r \in RunIds : ExecutorInv(r)

\* What a step may do to the rows.
Advances ==
    \A r \in RunIds :
        row[r] # NoRow /\ row'[r] # NoRow =>
            /\ row'[r].total >= row[r].total
            /\ row[r].status # "RUNNING" => row'[r] = row[r]
Succeeds ==
    \A r \in RunIds :
        row[r].status = "RUNNING" /\ row'[r].status = "SUCCEEDED" =>
            /\ row'[r].total = total
            /\ responses[r] = 1..total
            /\ Count => (IF Scenario THEN scenarios ELSE total) = RequestCount
Faithful == Advances /\ Succeeds

LEMMA Limits ==
    /\ RequestCount \in Nat \ {0} /\ MaxSequence \in Nat \ {0} /\ MaxTotal \in Nat
    /\ IsFiniteSet(Threads) /\ Threads # {}
BY LoadTestAssumption

LEMMA RowTotals ==
    ASSUME TablesInv, NEW r \in RunIds
    PROVE  row[r].total \in 0..MaxTotal /\ row[r].total \in Nat
BY Bounds DEF TablesInv, Repository!Rows, Repository!NoRow

LEMMA OneExecutes ==
    ASSUME ServiceInv, NEW r \in RunIds, NEW q \in RunIds, exec[r] \in Executing, exec[q] \in Executing
    PROVE  r = q
BY DEF ServiceInv, TablesInv, HandsInv

LEMMA CountingIsExecuting == Counting \subseteq Executing
BY DEF Counting, Executing

\* A step beside the executor, which may cancel its run.
LEMMA Beside ==
    ASSUME RecordInv, cancelled \subseteq cancelled',
           \A q \in RunIds : exec[q] \in Executing => row'[q] = row[q] /\ responses'[q] = responses[q],
           UNCHANGED <<exec, latest, pending, outcome, task, sequence, total, scenarios, thread>>
    PROVE  ClaimsInv' /\ \A r \in RunIds : ExecutorInv(r)'
<1>1. ClaimsInv'
  BY DEF RecordInv, ClaimsInv
<1>2. ASSUME NEW r \in RunIds PROVE ExecutorInv(r)'
  <2>1. ExecutorInv(r) /\ exec'[r] = exec[r]
    BY DEF RecordInv
  <2>2. Count' = Count /\ Scenario' = Scenario /\ Answered' = Answered /\ Made' = Made
    BY DEF Count, Scenario, Answered, Made
  <2>3. CASE exec[r] \notin Executing
    BY <2>1, <2>3 DEF ExecutorInv, Executing
  <2>4. CASE exec[r] \in Executing
    <3>1. row'[r] = row[r] /\ responses'[r] = responses[r]
      BY <2>4
    <3>2. exec[r] = "working" => WorkingInv(r)'
      <4> SUFFICES ASSUME WorkingInv(r) PROVE WorkingInv(r)'
        BY <2>1 DEF ExecutorInv
      <4>1. \A t \in Threads : Knows(thread[t], total, sequence, r \in cancelled)'
        BY <2>2 DEF WorkingInv, Knows
      <4>2. Flying' = Flying /\ NoneRaised' = NoneRaised
        BY <2>2 DEF Flying, Flies, NoneRaised
      <4>3. \A n : OnRecord(r, n)' <=> OnRecord(r, n)
        BY <3>1 DEF OnRecord
      <4> QED BY <2>2, <3>1, <4>1, <4>2, <4>3 DEF WorkingInv
    <3> QED BY <2>1, <2>2, <3>1, <3>2 DEF ExecutorInv
  <2> QED BY <2>3, <2>4
<1> QED BY <1>1, <1>2

LEMMA DefinitionsRecord ==
    ASSUME ServiceInv, RecordInv, CreateLoadTest \/ UpdateLoadTest \/ DeleteLoadTest
    PROVE  RecordInv' /\ (Faithful \/ UNCHANGED row)
<1>1. /\ UNCHANGED <<exec, latest, pending, outcome, task, sequence, total, scenarios, thread>>
      /\ UNCHANGED <<starter, startPlan, registered, cancelled>>
  BY DEF CreateLoadTest, UpdateLoadTest, DeleteLoadTest, NotService, locals, counters, starting
<1>2. RequestInv'
  BY <1>1 DEF RecordInv, RequestInv
<1>3. CASE CreateLoadTest \/ UpdateLoadTest
  <2>1. UNCHANGED <<row, responses>>
    BY <1>3 DEF CreateLoadTest, UpdateLoadTest
  <2>2. FreshInv'
    BY <1>1, <2>1 DEF RecordInv, FreshInv
  <2> QED BY <1>1, <1>2, <2>1, <2>2, Beside DEF RecordInv
<1>4. CASE DeleteLoadTest
  <2>1. \A q \in RunIds : exec[q] \notin Executing
    BY <1>4 DEF DeleteLoadTest, Active, ServiceInv, HandsInv
  <2>2. \A r \in RunIds : row'[r] = NoRow /\ responses'[r] = {}
    BY <1>4 DEF DeleteLoadTest
  <2>3. FreshInv' /\ Faithful
    BY <2>2 DEF FreshInv, Faithful, Advances, Succeeds, NoRow
  <2> QED BY <1>1, <1>2, <2>1, <2>3, Beside DEF RecordInv
<1> QED BY <1>3, <1>4

LEMMA StartRecord ==
    ASSUME ServiceInv, RecordInv, ReadDefinition \/ CreateRun \/ StartRefused
    PROVE  RecordInv' /\ (Faithful \/ UNCHANGED row)
<1>1. /\ UNCHANGED <<exec, latest, pending, outcome, task, sequence, total, scenarios, thread>>
      /\ UNCHANGED <<registered, cancelled, responses>>
  BY DEF ReadDefinition, CreateRun, StartRefused, tables, locals, counters
<1>2. RequestInv'
  <2>1. plan \in Plans \cup {NoPlan}
    BY DEF ServiceInv, TablesInv
  <2> QED BY <1>1, <2>1 DEF RecordInv, RequestInv, ReadDefinition, CreateRun, StartRefused
<1>3. CASE ReadDefinition \/ StartRefused
  <2>1. UNCHANGED row
    BY <1>3 DEF ReadDefinition, StartRefused, tables
  <2>2. FreshInv'
    BY <1>1, <2>1 DEF RecordInv, FreshInv
  <2> QED BY <1>1, <1>2, <2>1, <2>2, Beside DEF RecordInv
<1>4. CASE CreateRun
  <2>1. NewRun \in RunIds /\ row[NewRun] = NoRow /\ exec[NewRun] = "none"
    BY <1>4, NewRunIsUnstarted DEF CreateRun, Unstarted
  <2>2. /\ \A q \in RunIds : q # NewRun => row'[q] = row[q]
        /\ row'[NewRun].total = 0 /\ row'[NewRun].status = "RUNNING"
    BY <1>4, <2>1 DEF CreateRun, ServiceInv, TablesInv
  <2>3. FreshInv'
    BY <1>1, <2>1, <2>2 DEF RecordInv, FreshInv
  <2>4. Faithful
    <3>1. \A q \in RunIds : row[q].total >= row[q].total
      BY RowTotals DEF ServiceInv
    <3> QED BY <2>1, <2>2, <3>1 DEF Faithful, Advances, Succeeds, NoRow
  <2>5. \A q \in RunIds : exec[q] \in Executing => row'[q] = row[q]
    BY <2>1, <2>2 DEF Executing
  <2> QED BY <1>1, <1>2, <2>3, <2>4, <2>5, Beside DEF RecordInv
<1> QED BY <1>3, <1>4

\* update_run, with totals that have not gone back and no success.
LEMMA UpdateAdvances ==
    ASSUME TablesInv, NEW r \in RunIds, NEW status, NEW metrics \in Nat, NEW message,
           UpdateRun(r, status, metrics, message), row[r].total <= metrics
    PROVE  /\ Advances /\ \A q \in RunIds : q # r => row'[q] = row[q]
           /\ row[r].status = "RUNNING" => row'[r].total = metrics /\ row'[r].status = status
<1>1. \A q \in RunIds : row[q].total \in Nat
  BY RowTotals
<1>2. CASE row[r].status # "RUNNING"
  <2>1. row' = row
    BY <1>2 DEF UpdateRun
  <2> QED BY <1>1, <1>2, <2>1 DEF Advances
<1>3. CASE row[r].status = "RUNNING"
  <2>1. row[r] \in [status : Repository!RunStatus, mode : {p.mode : p \in Plans},
                    total : 0..MaxTotal, error : Messages]
    BY <1>3 DEF TablesInv, Repository!Rows, Repository!NoRow, Messages
  <2>2. row' = [row EXCEPT ![r] = [row[r] EXCEPT !.status = status, !.total = metrics, !.error = message]]
    BY <1>3 DEF UpdateRun
  <2>3. row'[r] = [row[r] EXCEPT !.status = status, !.total = metrics, !.error = message]
        /\ \A q \in RunIds : q # r => row'[q] = row[q]
    BY <2>2 DEF TablesInv
  <2>4. row'[r].total = metrics /\ row'[r].status = status
    BY <2>1, <2>3
  <2>5. ASSUME NEW q \in RunIds PROVE row'[q].total >= row[q].total
    <3>1. CASE q = r
      <4>1. row'[q].total = metrics /\ row[q].total = row[r].total
        BY <2>4, <3>1
      <4> QED BY <1>1, <4>1
    <3>2. CASE q # r
      <4>1. row'[q].total = row[q].total
        BY <2>3, <3>2
      <4> QED BY <1>1, <4>1
    <3> QED BY <3>1, <3>2
  <2>6. Advances
    BY <1>3, <2>3, <2>5 DEF Advances
  <2> QED BY <2>3, <2>4, <2>6
<1> QED BY <1>2, <1>3

LEMMA SubmitRecord ==
    ASSUME ServiceInv, RecordInv, Submit \/ SubmitRaises
    PROVE  RecordInv' /\ (Faithful \/ UNCHANGED row)
<1>1. Created \in RunIds /\ row[Created].status = "RUNNING" /\ exec[Created] = "none"
  BY CreatedIsActive DEF ServiceInv, Submit, SubmitRaises
<1>2. \A q \in RunIds : exec[q] \notin Executing
  BY <1>1 DEF ServiceInv, TablesInv, HandsInv, Executing
<1>3. sequence = 0 /\ scenarios \in Nat
  BY <1>2, CountingIsExecuting DEF RecordInv, ClaimsInv
<1>4. UNCHANGED <<latest, pending, total, thread, outcome, cancelled, sequence, scenarios, responses>>
      /\ starter' = "idle" /\ startPlan' = NoPlan
  BY DEF Submit, SubmitRaises, locals, counters, tables
<1>5. RequestInv'
  BY <1>1, <1>4 DEF RecordInv, RequestInv, Submit, SubmitRaises
<1>6. CASE Submit
  <2>1. UNCHANGED row /\ task' = startPlan /\ startPlan \in Plans
    BY <1>6 DEF Submit, tables, RecordInv, RequestInv
  <2>2. exec'[Created] = "first" /\ \A q \in RunIds : q # Created => exec'[q] = exec[q]
    BY <1>1, <1>6 DEF Submit, ServiceInv, HandsInv
  <2>3. ClaimsInv'
    BY <1>3, <1>4, <2>1, Limits DEF ClaimsInv
  <2>4. FreshInv'
    BY <1>1, <1>4, <2>1, <2>2 DEF RecordInv, FreshInv
  <2>5. \A r \in RunIds : ExecutorInv(r)'
    BY <1>2, <2>1, <2>2 DEF ExecutorInv, Executing
  <2> QED BY <1>5, <2>1, <2>3, <2>4, <2>5 DEF RecordInv
<1>7. CASE SubmitRaises
  <2>1. /\ exec'[Created] = "done" /\ \A q \in RunIds : q # Created => exec'[q] = exec[q]
        /\ UNCHANGED task
    BY <1>1, <1>7 DEF SubmitRaises, ServiceInv, HandsInv, counters
  <2>2. ClaimsInv'
    BY <1>3, <1>4, <2>1 DEF RecordInv, ClaimsInv
  <2>3. \A r \in RunIds : ExecutorInv(r)'
    BY <1>2, <2>1 DEF ExecutorInv, Executing
  <2>4. /\ Faithful \/ UNCHANGED row
        /\ row'[Created] # NoRow /\ \A q \in RunIds : q # Created => row'[q] = row[q]
    <3>1. CASE UNCHANGED row
      BY <1>1, <3>1 DEF NoRow
    <3>2. CASE UpdateRun(Created, "FAILED", row[Created].total, "unavailable")
      <4>1. row[Created].total \in Nat /\ row[Created].total <= row[Created].total
        BY <1>1, RowTotals DEF ServiceInv
      <4>2. /\ Advances /\ \A q \in RunIds : q # Created => row'[q] = row[q]
            /\ row'[Created].status = "FAILED"
        BY <1>1, <3>2, <4>1, UpdateAdvances DEF ServiceInv
      <4> QED BY <4>2 DEF Faithful, Succeeds, NoRow
    <3> QED BY <1>7, <3>1, <3>2 DEF SubmitRaises
  <2>5. FreshInv'
    BY <1>4, <2>1, <2>4 DEF RecordInv, FreshInv
  <2> QED BY <1>5, <2>2, <2>3, <2>4, <2>5 DEF RecordInv
<1> QED BY <1>6, <1>7

LEMMA ProcessRecord ==
    ASSUME ServiceInv, RecordInv,
           (\E r \in RunIds : CancelRun(r)) \/ Expire \/ Shutdown \/ Stopped \/ Crash \/ Restart
    PROVE  RecordInv' /\ (Faithful \/ UNCHANGED row)
<1>1. CASE (\E r \in RunIds : CancelRun(r)) \/ Expire \/ Shutdown
  <2>1. UNCHANGED <<row, responses, exec, latest, pending, outcome, task, sequence, total,
                    scenarios, thread, starter, startPlan, registered>>
    BY <1>1 DEF CancelRun, Expire, Shutdown, tables, locals, counters, starting
  <2>2. RequestInv' /\ cancelled \subseteq cancelled'
    BY <1>1, <2>1 DEF RecordInv, RequestInv, CancelRun, Expire, Shutdown
  <2>3. FreshInv'
    BY <2>1 DEF RecordInv, FreshInv
  <2> QED BY <2>1, <2>2, <2>3, Beside DEF RecordInv
<1>2. CASE Stopped \/ Crash
  <2>1. Gone /\ UNCHANGED <<row, responses>>
    BY <1>2 DEF Stopped, Crash, Gone, tables
  <2>2. RequestInv' /\ ClaimsInv'
    BY <2>1, Limits DEF RequestInv, ClaimsInv, Gone, Forget
  <2>3. \A r \in RunIds : exec'[r] = IF row[r] = NoRow THEN "none" ELSE "done"
    BY <2>1 DEF Gone
  <2>4. FreshInv'
    BY <2>1, <2>3 DEF RecordInv, FreshInv
  <2>5. \A r \in RunIds : ExecutorInv(r)'
    BY <2>3 DEF ExecutorInv, Executing
  <2> QED BY <2>1, <2>2, <2>4, <2>5 DEF RecordInv
<1>3. CASE Restart
  <2>1. /\ UNCHANGED <<responses, exec, latest, pending, outcome, task, sequence, total,
                       scenarios, thread, starter, startPlan, registered, cancelled>>
        /\ service = "down"
    BY <1>3 DEF Restart, locals, counters, starting
  <2>2. RequestInv' /\ \A q \in RunIds : exec[q] \notin Executing
    BY <2>1 DEF RecordInv, RequestInv, ServiceInv, HandsInv, Executing
  <2>3. ASSUME NEW r \in RunIds
        PROVE  /\ row[r].status # "RUNNING" => row'[r] = row[r]
               /\ row[r].status = "RUNNING" =>
                     row'[r].status = "FAILED" /\ row'[r].total = row[r].total
    <3>1. CASE row[r].status # "RUNNING"
      BY <1>3, <3>1 DEF Restart
    <3>2. CASE row[r].status = "RUNNING"
      <4>1. row[r] \in [status : Repository!RunStatus, mode : {p.mode : p \in Plans},
                        total : 0..MaxTotal, error : Messages]
        BY <3>2 DEF ServiceInv, TablesInv, Repository!Rows, Repository!NoRow, Messages
      <4>2. row'[r] = [row[r] EXCEPT !.status = "FAILED", !.error = "interrupted"]
        BY <1>3, <3>2 DEF Restart
      <4> QED BY <3>2, <4>1, <4>2
    <3> QED BY <3>1, <3>2
  <2>4. FreshInv'
    BY <2>1, <2>3 DEF RecordInv, FreshInv, NoRow
  <2>5. Faithful
    <3>1. \A r \in RunIds : row[r].total \in Nat
      BY RowTotals DEF ServiceInv
    <3> QED BY <2>3, <3>1 DEF Faithful, Advances, Succeeds
  <2> QED BY <2>1, <2>2, <2>4, <2>5, Beside DEF RecordInv
<1> QED BY <1>1, <1>2, <1>3

-----------------------------------------------------------------------------
(* The record and _execute.                                                *)

\* Nobody executes beside run r.
LEMMA OthersRest ==
    ASSUME ServiceInv, NEW r \in RunIds, exec[r] \in Executing, ExecutorInv(r)',
           \A q \in RunIds : q # r => exec'[q] = exec[q]
    PROVE  \A q \in RunIds : ExecutorInv(q)'
<1>1. \A q \in RunIds : q # r => exec'[q] \notin Executing
  BY OneExecutes
<1>2. ASSUME NEW q \in RunIds, q # r PROVE ExecutorInv(q)'
  BY <1>1, <1>2 DEF ExecutorInv, Executing
<1> QED BY <1>2

LEMMA GotoMoves ==
    ASSUME ServiceInv, NEW r \in RunIds, NEW place, Goto(r, place)
    PROVE  exec'[r] = place /\ \A q \in RunIds : q # r => exec'[q] = exec[q]
BY DEF ServiceInv, HandsInv, Goto

LEMMA FirstRecord ==
    ASSUME ServiceInv, RecordInv, NEW r \in RunIds, FirstRead(r)
    PROVE  RecordInv' /\ UNCHANGED row
<1>1. /\ exec[r] = "first" /\ exec[r] \in Executing /\ pending' = {}
      /\ UNCHANGED <<row, responses, registered, cancelled, starter, startPlan, task, sequence, scenarios>>
  BY DEF FirstRead, ExecuteFrame, counters, starting, Executing
<1>2. /\ \A q \in RunIds : q # r => exec'[q] = exec[q]
      /\ (exec'[r] = "resolve" /\ latest' = row[r].total) \/ exec'[r] = "dead"
  BY GotoMoves DEF FirstRead
<1>3. \A q \in RunIds : exec[q] \notin Counting
  BY <1>1, OneExecutes, CountingIsExecuting DEF Counting
<1>4. ClaimsInv' /\ RequestInv'
  BY <1>1, <1>3 DEF RecordInv, ClaimsInv, RequestInv
<1>5. FreshInv'
  BY <1>1, <1>2 DEF RecordInv, FreshInv
<1>6. ExecutorInv(r)'
  BY <1>1, <1>2 DEF RecordInv, ExecutorInv, Executing
<1> QED BY <1>1, <1>2, <1>4, <1>5, <1>6, OthersRest DEF RecordInv

\* Threads at the loop's head have made and claimed nothing.
LEMMA Begins ==
    ASSUME NEW r \in RunIds, thread' = [t \in Threads |-> [Idle EXCEPT !.pc = "loop"]],
           sequence' = 0, total' = 0, scenarios' = 0, pending' = {}, responses'[r] = {}
    PROVE  WorkingInv(r)'
<1>1. \A t \in Threads : /\ thread'[t].pc = "loop" /\ thread'[t].seen = 0
                         /\ thread'[t].whole = TRUE /\ thread'[t].back = "loop"
  BY DEF Idle
<1>2. \A t \in Threads : Knows(thread[t], total, sequence, r \in cancelled)'
  BY <1>1 DEF Knows
<1>3. Flying' = {}
  BY <1>1 DEF Flying, Flies
<1>4. Answered' = 0 /\ Cardinality(Flying') = 0
  BY <1>3, FS_EmptySet DEF Answered
<1>5. 1..total' = {}
  OBVIOUS
<1>6. (NoneRaised => \A n \in 1..total : OnRecord(r, n))'
  BY <1>5
<1>7. (Answered + Cardinality(Flying) = sequence)'
  BY <1>4
<1> QED BY <1>2, <1>5, <1>6, <1>7 DEF WorkingInv

LEMMA ResolveRecord ==
    ASSUME ServiceInv, RecordInv, NEW r \in RunIds, Resolve(r)
    PROVE  RecordInv' /\ UNCHANGED row
<1>1. /\ exec[r] = "resolve" /\ exec[r] \in Executing
      /\ UNCHANGED <<row, responses, registered, cancelled, starter, startPlan, task, latest, pending>>
      /\ sequence' = 0 /\ total' = 0 /\ scenarios' = 0
  BY DEF Resolve, ExecuteFrame, locals, starting, Executing
<1>2. row[r].status = "RUNNING"
  BY <1>1 DEF ServiceInv, HandsInv
<1>3. responses[r] = {} /\ row[r].total = 0 /\ latest = 0 /\ pending = {} /\ task \in Plans
  BY <1>1, <1>2 DEF RecordInv, FreshInv, ExecutorInv, Executing
<1>4. /\ \A q \in RunIds : q # r => exec'[q] = exec[q]
      /\ \/ exec'[r] = "working" /\ thread' = [t \in Threads |-> [Idle EXCEPT !.pc = "loop"]]
         \/ exec'[r] = "handler"
  BY GotoMoves DEF Resolve
<1>5. ClaimsInv' /\ RequestInv'
  BY <1>1, Limits DEF RecordInv, ClaimsInv, RequestInv
<1>6. FreshInv'
  BY <1>1, <1>4 DEF RecordInv, FreshInv
<1>7. exec'[r] = "working" => WorkingInv(r)'
  BY <1>1, <1>3, <1>4, Begins
<1>8. ExecutorInv(r)'
  BY <1>1, <1>3, <1>4, <1>7 DEF ExecutorInv, Executing
<1> QED BY <1>1, <1>4, <1>5, <1>6, <1>8, OthersRest DEF RecordInv

\* When every thread is done everything is on record and everything was claimed.
LEMMA JoinedIsComplete ==
    ASSUME ServiceInv, RecordInv, NEW r \in RunIds, exec[r] = "working",
           \A t \in Threads : thread[t].pc = "done"
    PROVE  responses[r] \cup pending = 1..total /\ (r \notin cancelled => Made)
<1>1. WorkingInv(r) /\ task \in Plans /\ NoneRaised
  BY DEF RecordInv, ExecutorInv, Executing, NoneRaised
<1>2. responses[r] \cup pending = 1..total
  BY <1>1 DEF WorkingInv, OnRecord
<1>3. ASSUME r \notin cancelled, Count PROVE Answered = RequestCount
  <2>1. Flying = {}
    BY DEF Flying, Flies
  <2>2. Cardinality(Flying) = 0 /\ Answered + Cardinality(Flying) = sequence
    BY <1>1, <1>3, <2>1, FS_EmptySet DEF WorkingInv
  <2>3. Answered \in Nat
    BY Bounds DEF Answered, RecordInv, ClaimsInv, ServiceInv, CountsInv
  <2>4. sequence >= RequestCount
    BY <1>1, <1>3, Limits DEF WorkingInv, Knows
  <2>5. sequence \in 0..RequestCount
    BY <1>1, <1>3, Bounds DEF RecordInv, ClaimsInv, Count
  <2> QED BY <2>2, <2>3, <2>4, <2>5, Limits
<1> QED BY <1>2, <1>3 DEF Made

LEMMA JoinRecord ==
    ASSUME ServiceInv, RecordInv, NEW r \in RunIds, Join(r)
    PROVE  RecordInv' /\ UNCHANGED row
<1>1. /\ exec[r] = "working" /\ exec[r] \in Executing
      /\ UNCHANGED <<row, responses, registered, cancelled, starter, startPlan, latest, pending, outcome,
                     task, sequence, total, scenarios>>
  BY DEF Join, ExecuteFrame, locals, counters, starting, Executing
<1>2. /\ \A q \in RunIds : q # r => exec'[q] = exec[q]
      /\ \/ exec'[r] = "flush" /\ \A t \in Threads : thread[t].pc = "done"
         \/ exec'[r] = "handler"
  BY GotoMoves DEF Join
<1>3. ClaimsInv' /\ RequestInv'
  BY <1>1, <1>2 DEF RecordInv, ClaimsInv, RequestInv, Counting
<1>4. FreshInv'
  BY <1>1, <1>2 DEF RecordInv, FreshInv
<1>5. Made' = Made
  BY <1>1 DEF Made, Count, Answered, Scenario
<1>6. ExecutorInv(r)'
  <2>1. task \in Plans /\ latest = row[r].total /\ latest <= total
    BY <1>1 DEF RecordInv, ExecutorInv
  <2>2. exec'[r] = "flush" => responses[r] \cup pending = 1..total /\ (r \notin cancelled => Made)
    BY <1>1, <1>2, JoinedIsComplete
  <2> QED BY <1>1, <1>2, <1>5, <2>1, <2>2 DEF ExecutorInv, Executing
<1> QED BY <1>1, <1>2, <1>3, <1>4, <1>6, OthersRest DEF RecordInv

\* A run that is left: the counters are in nobody's hands.
LEMMA Leaves ==
    ASSUME ServiceInv, RecordInv, NEW r \in RunIds, exec[r] \in Executing, Leave(r),
           UNCHANGED <<registered, cancelled, starter, startPlan, responses>>,
           row'[r] # NoRow, \A q \in RunIds : q # r => row'[q] = row[q]
    PROVE  RecordInv'
<1>1. exec'[r] = "finally" /\ \A q \in RunIds : q # r => exec'[q] = exec[q]
  BY GotoMoves DEF Leave
<1>2. ClaimsInv' /\ RequestInv'
  BY Limits DEF RecordInv, ClaimsInv, RequestInv, Leave, Forget
<1>3. FreshInv'
  BY <1>1 DEF RecordInv, FreshInv
<1>4. ExecutorInv(r)'
  BY <1>1 DEF ExecutorInv, Executing
<1> QED BY <1>1, <1>2, <1>3, <1>4, OthersRest DEF RecordInv

LEMMA StoresRecord ==
    ASSUME ServiceInv, RecordInv, NEW r \in RunIds, FlushResponses(r) \/ HandlerFlush(r)
    PROVE  RecordInv' /\ UNCHANGED row
<1>1. /\ exec[r] \in {"flush", "handler"} /\ exec[r] \in Executing
      /\ UNCHANGED <<row, registered, cancelled, starter, startPlan>>
  BY DEF FlushResponses, HandlerFlush, ExecuteFrame, starting, Executing
<1>2. row[r].status = "RUNNING" /\ row[r] # NoRow
  BY <1>1 DEF ServiceInv, HandsInv, NoRow
<1>3. CASE Leave(r)
  <2>1. UNCHANGED responses
    <3>1. exec'[r] = "finally"
      BY <1>3, GotoMoves DEF Leave
    <3> QED BY <3>1, GotoMoves DEF FlushResponses, HandlerFlush
  <2> QED BY <1>1, <1>2, <1>3, <2>1, Leaves
<1>4. CASE ~ Leave(r)
  <2>1. /\ pending' = {} /\ UNCHANGED <<latest, outcome, task, sequence, total, scenarios>>
        /\ \/ AddRunResponses(r, pending) /\ exec[r] = "flush" /\ Goto(r, "decide")
           \/ (AddRunResponses(r, pending) \/ UNCHANGED responses)
              /\ \E place \in {"handler", "fail"} : Goto(r, place)
    BY <1>4 DEF FlushResponses, HandlerFlush, counters
  <2>2. /\ \A q \in RunIds : q # r => exec'[q] = exec[q] /\ responses'[q] = responses[q]
        /\ \/ /\ exec'[r] = "decide" /\ exec[r] = "flush"
              /\ responses'[r] = responses[r] \cup pending
           \/ exec'[r] \in {"handler", "fail"}
    BY <2>1, GotoMoves DEF AddRunResponses, ServiceInv, TablesInv
  <2>3. ClaimsInv' /\ RequestInv'
    BY <1>1, <2>1, <2>2 DEF RecordInv, ClaimsInv, RequestInv, Counting
  <2>4. FreshInv'
    BY <1>1, <1>2, <2>2 DEF RecordInv, FreshInv
  <2>5. Made' = Made
    BY <2>1 DEF Made, Count, Answered, Scenario
  <2>6. ExecutorInv(r)'
    <3>1. ExecutorInv(r)
      BY DEF RecordInv
    <3> QED BY <1>1, <2>1, <2>2, <2>5, <3>1 DEF ExecutorInv, Executing
  <2> QED BY <1>1, <2>2, <2>3, <2>4, <2>6, OthersRest DEF RecordInv
<1> QED BY <1>3, <1>4

LEMMA DecideRecord ==
    ASSUME ServiceInv, RecordInv, NEW r \in RunIds, Decide(r)
    PROVE  RecordInv' /\ UNCHANGED row
<1>1. /\ exec[r] = "decide" /\ exec[r] \in Executing
      /\ UNCHANGED <<row, responses, registered, cancelled, starter, startPlan, latest, pending,
                     task, sequence, total, scenarios>>
      /\ outcome' = "SUCCEEDED" => r \notin cancelled
  BY DEF Decide, ExecuteFrame, counters, starting, Executing
<1>2. exec'[r] = "write" /\ \A q \in RunIds : q # r => exec'[q] = exec[q]
  BY GotoMoves DEF Decide
<1>3. ClaimsInv' /\ RequestInv'
  BY <1>1, <1>2 DEF RecordInv, ClaimsInv, RequestInv, Counting
<1>4. FreshInv'
  BY <1>1, <1>2 DEF RecordInv, FreshInv
<1>5. Made' = Made
  BY <1>1 DEF Made, Count, Answered, Scenario
<1>6. ExecutorInv(r)'
  <2>1. ExecutorInv(r)
    BY DEF RecordInv
  <2> QED BY <1>1, <1>2, <1>5, <2>1 DEF ExecutorInv, Executing
<1> QED BY <1>1, <1>2, <1>3, <1>4, <1>6, OthersRest DEF RecordInv

LEMMA EndsRecord ==
    ASSUME ServiceInv, RecordInv, NEW r \in RunIds, Finish(r) \/ Fail(r)
    PROVE  RecordInv' /\ (Faithful \/ UNCHANGED row)
<1>1. /\ exec[r] \in {"write", "fail"} /\ exec[r] \in Executing
      /\ UNCHANGED <<responses, registered, cancelled, starter, startPlan>>
  BY DEF Finish, Fail, ExecuteFrame, starting, Executing
<1>2. row[r].status = "RUNNING" /\ row[r] # NoRow /\ ExecutorInv(r)
  BY <1>1 DEF ServiceInv, HandsInv, NoRow, RecordInv
<1>3. /\ latest = row[r].total /\ latest \in Nat /\ total \in Nat
      /\ exec[r] = "write" => latest <= total /\ outcome \in {"SUCCEEDED", "FAILED"}
      /\ exec[r] = "write" /\ outcome = "SUCCEEDED" => responses[r] = 1..total /\ Made
  BY <1>1, <1>2, Bounds DEF ExecutorInv, ServiceInv, CountsInv, HandsInv, Executing
<1>4. CASE UNCHANGED row /\ Leave(r)
  BY <1>1, <1>2, <1>4, Leaves
<1>5. CASE UNCHANGED row /\ Stay(r, "handler")
  <2>1. /\ exec'[r] = "handler" /\ \A q \in RunIds : q # r => exec'[q] = exec[q]
        /\ UNCHANGED <<latest, pending, task, sequence, scenarios, row>>
    BY <1>5, GotoMoves DEF Stay, locals, counters
  <2>2. ClaimsInv' /\ RequestInv'
    BY <1>1, <2>1 DEF RecordInv, ClaimsInv, RequestInv, Counting
  <2>3. FreshInv'
    BY <1>1, <2>1 DEF RecordInv, FreshInv
  <2>4. ExecutorInv(r)'
    BY <1>1, <1>2, <2>1 DEF ExecutorInv, Executing
  <2> QED BY <1>1, <2>1, <2>2, <2>3, <2>4, OthersRest DEF RecordInv
<1>6. ASSUME Leave(r), NEW status \in {"SUCCEEDED", "FAILED"}, NEW metrics \in Nat, NEW message,
             UpdateRun(r, status, metrics, message), row[r].total <= metrics,
             status = "SUCCEEDED" => exec[r] = "write" /\ outcome = "SUCCEEDED" /\ metrics = total
      PROVE  RecordInv' /\ Faithful
  <2>1. /\ Advances /\ \A q \in RunIds : q # r => row'[q] = row[q]
        /\ row'[r].total = metrics /\ row'[r].status = status
    BY <1>2, <1>6, UpdateAdvances DEF ServiceInv
  <2>2. row'[r] # NoRow
    BY <2>1 DEF NoRow
  <2>3. Succeeds
    BY <1>3, <1>6, <2>1 DEF Succeeds, Made, Answered
  <2> QED BY <1>1, <1>6, <2>1, <2>2, <2>3, Leaves DEF Faithful
<1>7. CASE Finish(r)
  <2>1. exec[r] = "write"
    BY <1>7 DEF Finish
  <2>2. CASE UpdateRun(r, outcome, total, IF r \in cancelled THEN "cancelled" ELSE "none") /\ Leave(r)
    BY <1>3, <1>6, <2>1, <2>2
  <2> QED BY <1>5, <1>7, <2>2 DEF Finish
<1>8. CASE Fail(r)
  <2>1. CASE UpdateRun(r, "FAILED", latest, "failed")
    BY <1>3, <1>6, <1>8, <2>1 DEF Fail
  <2> QED BY <1>4, <1>8, <2>1 DEF Fail
<1> QED BY <1>7, <1>8

LEMMA FinallyRecord ==
    ASSUME ServiceInv, RecordInv, NEW r \in RunIds, Finally(r)
    PROVE  RecordInv' /\ UNCHANGED row
<1>1. /\ exec[r] = "finally" /\ registered' \subseteq registered
      /\ UNCHANGED <<row, responses, cancelled, starter, startPlan, latest, pending, outcome,
                     task, sequence, total, scenarios, thread>>
  BY DEF Finally, ExecuteFrame, locals, counters, starting
<1>2. exec'[r] = "done" /\ \A q \in RunIds : q # r => exec'[q] = exec[q]
  BY GotoMoves DEF Finally
<1>3. ClaimsInv' /\ RequestInv'
  BY <1>1, <1>2 DEF RecordInv, ClaimsInv, RequestInv, Counting
<1>4. FreshInv'
  BY <1>1, <1>2 DEF RecordInv, FreshInv
<1>5. ASSUME NEW q \in RunIds PROVE ExecutorInv(q)'
  <2>1. CASE q = r
    BY <1>2, <2>1 DEF ExecutorInv, Executing
  <2>2. CASE q # r
    <3>1. ExecutorInv(q) /\ exec'[q] = exec[q]
      BY <1>2, <2>2 DEF RecordInv
    <3>2. Count' = Count /\ Scenario' = Scenario /\ Answered' = Answered /\ Made' = Made
      BY <1>1 DEF Count, Scenario, Answered, Made
    <3>3. WorkingInv(q)' <=> WorkingInv(q)
      BY <1>1, <3>2 DEF WorkingInv, Knows, NoneRaised, OnRecord, Flying, Flies
    <3> QED BY <1>1, <3>1, <3>2, <3>3 DEF ExecutorInv
  <2> QED BY <2>1, <2>2
<1> QED BY <1>1, <1>3, <1>4, <1>5 DEF RecordInv

LEMMA ExecuteRecord ==
    ASSUME ServiceInv, RecordInv, NEW r \in RunIds, Execute(r)
    PROVE  RecordInv' /\ (Faithful \/ UNCHANGED row)
BY FirstRecord, ResolveRecord, JoinRecord, StoresRecord, DecideRecord, EndsRecord, FinallyRecord
   DEF Execute

-----------------------------------------------------------------------------
(* The record and the request threads.                                     *)

LEMMA RunIsIt ==
    ASSUME ServiceInv, NEW r \in RunIds, exec[r] = "working" PROVE Working # {} /\ Run = r
<1>1. Working = {r}
  BY OneExecutes DEF Working, Executing
<1> QED BY <1>1 DEF Run

\* A thread that goes on changes the claims in flight by its own.
LEMMA Flights ==
    ASSUME ThreadInv, NEW t \in Threads, NEW local, Put(t, local), UNCHANGED task
    PROVE  /\ Cardinality(Flying) \in Nat /\ Cardinality(Flying)' \in Nat
           /\ Cardinality(Flying)' + (IF Flies(thread[t]) THEN 1 ELSE 0)
                = Cardinality(Flying) + (IF Flies(local) THEN 1 ELSE 0)
<1>1. thread'[t] = local /\ \A u \in Threads : u # t => thread'[u] = thread[u]
  BY DEF ThreadInv, Put
<1>2. \A l : Flies(l)' <=> Flies(l)
  BY DEF Flies, Scenario
<1>3. Scenario' = Scenario
  BY DEF Scenario
<1>4. \A u \in Threads : u \in Flying' <=> (IF u = t THEN Flies(local) ELSE u \in Flying)
  BY <1>1, <1>3 DEF Flying, Flies
<1>5. IsFiniteSet(Flying) /\ IsFiniteSet(Flying') /\ Flying \subseteq Threads /\ Flying' \subseteq Threads
  BY Limits, FS_Subset DEF Flying
<1>6. Cardinality(Flying) \in Nat /\ Cardinality(Flying') \in Nat
  BY <1>5, FS_CardinalityType
<1>7. t \in Flying <=> Flies(thread[t])
  BY DEF Flying
<1>8. CASE Flies(thread[t]) /\ Flies(local)
  <2>1. Flying' = Flying
    BY <1>4, <1>5, <1>7, <1>8
  <2> QED BY <1>6, <1>8, <2>1
<1>9. CASE ~Flies(thread[t]) /\ ~Flies(local)
  <2>1. Flying' = Flying
    BY <1>4, <1>5, <1>7, <1>9
  <2> QED BY <1>6, <1>9, <2>1
<1>10. CASE ~Flies(thread[t]) /\ Flies(local)
  <2>1. Flying' = Flying \cup {t} /\ t \notin Flying
    BY <1>4, <1>5, <1>7, <1>10
  <2>2. Cardinality(Flying') = Cardinality(Flying) + 1
    BY <1>5, <2>1, FS_AddElement
  <2> QED BY <1>6, <1>10, <2>2
<1>11. CASE Flies(thread[t]) /\ ~Flies(local)
  <2>1. Flying = Flying' \cup {t} /\ t \notin Flying'
    BY <1>4, <1>5, <1>7, <1>11
  <2>2. Cardinality(Flying) = Cardinality(Flying') + 1
    BY <1>5, <2>1, FS_AddElement
  <2> QED BY <1>6, <1>11, <2>2
<1> QED BY <1>8, <1>9, <1>10, <1>11

\* Thread t goes on with `local`: everything made is still on record, and its
\* claims, its answers and what it holds keep their balance.
LEMMA Turn ==
    ASSUME ServiceInv, NEW r \in RunIds, WorkingInv(r), ClaimsInv,
           NEW t \in Threads, thread[t].pc # "raised", NEW local, Put(t, local),
           UNCHANGED <<cancelled, task>>,
           total' \in Nat, total' >= total, sequence' \in Nat, sequence' >= sequence, scenarios' \in Nat,
           Knows(local, total', sequence', r \in cancelled),
           responses'[r] \subseteq 1..total', pending' \subseteq 1..total',
           local.pc # "raised" =>
              \A n \in 1..total' :
                 \/ n \in responses'[r] \/ n \in pending' \/ (local.pc = "respond" /\ local.num = n)
                 \/ /\ n \in 1..total /\ n \notin responses[r] /\ n \notin pending
                    /\ thread[t].pc = "respond" => n # thread[t].num,
           local.pc # "raised" /\ Count /\ r \notin cancelled =>
              Answered' + (IF Flies(local) THEN 1 ELSE 0) + sequence
                = Answered + (IF Flies(thread[t]) THEN 1 ELSE 0) + sequence'
    PROVE  WorkingInv(r)'
<1>1. thread'[t] = local /\ \A u \in Threads : u # t => thread'[u] = thread[u]
  BY DEF ServiceInv, ThreadInv, Put
<1>2. Count' = Count /\ Scenario' = Scenario
  BY DEF Count, Scenario
<1>3. total \in Nat /\ sequence \in Nat /\ scenarios \in Nat
  BY Bounds, Limits DEF ServiceInv, CountsInv, ClaimsInv
<1>4. ASSUME NEW u \in Threads PROVE Knows(thread[u], total, sequence, r \in cancelled)'
  <2>1. CASE u = t
    BY <1>1, <1>2, <2>1 DEF Knows
  <2>2. CASE u # t
    <3>1. thread'[u] = thread[u] /\ Knows(thread[u], total, sequence, r \in cancelled)
      BY <1>1, <2>2 DEF WorkingInv
    <3>2. thread[u].seen \in Nat /\ thread[u].num \in Nat
      BY Bounds DEF ServiceInv, ThreadInv, Locals
    <3>3. \A n \in Nat : (n <= total => n <= total') /\ (n \in 1..total => n \in 1..total')
      BY <1>3
    <3>4. sequence >= RequestCount => sequence' >= RequestCount
      BY <1>3, Limits
    <3> QED BY <1>2, <3>1, <3>2, <3>3, <3>4 DEF Knows
  <2> QED BY <2>1, <2>2
<1>5. NoneRaised' => NoneRaised /\ local.pc # "raised"
  BY <1>1 DEF NoneRaised
<1>6. NoneRaised' => \A n \in 1..total' : OnRecord(r, n)'
  <2> SUFFICES ASSUME NoneRaised', NEW n \in 1..total' PROVE OnRecord(r, n)'
    OBVIOUS
  <2>1. CASE n \in responses'[r] \/ n \in pending'
    BY <2>1 DEF OnRecord
  <2>2. CASE local.pc = "respond" /\ local.num = n
    BY <1>1, <2>2 DEF OnRecord
  <2>3. CASE /\ n \in 1..total /\ n \notin responses[r] /\ n \notin pending
             /\ thread[t].pc = "respond" => n # thread[t].num
    <3>1. OnRecord(r, n)
      BY <1>5, <2>3 DEF WorkingInv
    <3>2. PICK u \in Threads : thread[u].pc = "respond" /\ thread[u].num = n
      BY <2>3, <3>1 DEF OnRecord
    <3>3. thread'[u] = thread[u]
      BY <1>1, <2>3, <3>2
    <3> QED BY <3>2, <3>3 DEF OnRecord
  <2> QED BY <1>5, <2>1, <2>2, <2>3
<1>7. NoneRaised' /\ Count' /\ r \notin cancelled' => (Answered + Cardinality(Flying) = sequence)'
  <2> SUFFICES ASSUME NoneRaised', Count, r \notin cancelled
               PROVE  Answered' + Cardinality(Flying)' = sequence'
    BY <1>2
  <2>1. Answered + Cardinality(Flying) = sequence
    BY <1>5 DEF WorkingInv
  <2>2. Answered' + (IF Flies(local) THEN 1 ELSE 0) + sequence
           = Answered + (IF Flies(thread[t]) THEN 1 ELSE 0) + sequence'
    BY <1>5
  <2>3. /\ Cardinality(Flying) \in Nat /\ Cardinality(Flying)' \in Nat
        /\ Cardinality(Flying)' + (IF Flies(thread[t]) THEN 1 ELSE 0)
             = Cardinality(Flying) + (IF Flies(local) THEN 1 ELSE 0)
    BY Flights DEF ServiceInv
  <2>4. Answered \in Nat /\ Answered' \in Nat
    BY <1>3 DEF Answered
  <2> QED BY <1>3, <2>1, <2>2, <2>3, <2>4
<1> QED BY <1>4, <1>6, <1>7 DEF WorkingInv

\* The same for a step that neither makes nor records a request.
LEMMA QuietTurn ==
    ASSUME ServiceInv, NEW r \in RunIds, WorkingInv(r), ClaimsInv,
           NEW t \in Threads, thread[t].pc \notin {"raised", "respond"}, NEW local, Put(t, local),
           UNCHANGED <<cancelled, task, responses, pending, total>>,
           sequence' \in Nat, sequence' >= sequence, scenarios' \in Nat,
           Knows(local, total, sequence', r \in cancelled),
           local.pc # "raised" /\ Count /\ r \notin cancelled =>
              Answered' + (IF Flies(local) THEN 1 ELSE 0) + sequence
                = Answered + (IF Flies(thread[t]) THEN 1 ELSE 0) + sequence'
    PROVE  WorkingInv(r)'
<1>1. total \in Nat /\ total' \in Nat /\ total' >= total
  BY Bounds DEF ServiceInv, CountsInv
<1>2. responses'[r] \subseteq 1..total' /\ pending' \subseteq 1..total'
  BY DEF WorkingInv
<1>3. \A n \in 1..total' :
         \/ n \in responses'[r] \/ n \in pending' \/ (local.pc = "respond" /\ local.num = n)
         \/ /\ n \in 1..total /\ n \notin responses[r] /\ n \notin pending
            /\ thread[t].pc = "respond" => n # thread[t].num
  OBVIOUS
<1>4. Knows(local, total', sequence', r \in cancelled)
  OBVIOUS
<1> QED BY <1>1, <1>2, <1>3, <1>4, Turn

\* What a snapshot, taken or not, leaves of a thread.
LEMMA SnapshotLocal ==
    ASSUME ThreadInv, NEW t \in Threads, NEW count, NEW back, Snapshot(t, count, back)
    PROVE  \E local : /\ Put(t, local) /\ local.whole = thread[t].whole
                      /\ \/ local.pc = "persist" /\ local.seen = count /\ local.back = back
                         \/ local.pc = back /\ local.seen = thread[t].seen /\ local.back = thread[t].back
<1>1. thread[t] \in Locals
  BY DEF ThreadInv
<1>2. CASE Put(t, [thread[t] EXCEPT !.pc = "persist", !.seen = count, !.num = 0, !.back = back])
  <2> DEFINE local == [thread[t] EXCEPT !.pc = "persist", !.seen = count, !.num = 0, !.back = back]
  <2>1. local.whole = thread[t].whole /\ local.pc = "persist" /\ local.seen = count /\ local.back = back
    BY <1>1 DEF Locals
  <2> QED BY <1>2, <2>1
<1>3. CASE Put(t, [thread[t] EXCEPT !.pc = back, !.num = 0])
  <2> DEFINE local == [thread[t] EXCEPT !.pc = back, !.num = 0]
  <2>1. /\ local.whole = thread[t].whole /\ local.pc = back /\ local.seen = thread[t].seen
        /\ local.back = thread[t].back
    BY <1>1 DEF Locals
  <2> QED BY <1>3, <2>1
<1> QED BY <1>2, <1>3 DEF Snapshot

LEMMA MoveLocal ==
    ASSUME ThreadInv, NEW t \in Threads, NEW place, Move(t, place)
    PROVE  \E local : /\ Put(t, local) /\ local.pc = place /\ local.whole = thread[t].whole
                      /\ local.seen = thread[t].seen /\ local.back = thread[t].back
                      /\ local.num = thread[t].num
<1> DEFINE local == [thread[t] EXCEPT !.pc = place]
<1>1. /\ local.pc = place /\ local.whole = thread[t].whole /\ local.num = thread[t].num
      /\ local.seen = thread[t].seen /\ local.back = thread[t].back
  BY DEF ThreadInv, Locals
<1> QED BY <1>1 DEF Move

LEMMA InterruptedLocal ==
    ASSUME ThreadInv, NEW t \in Threads, Interrupted(t)
    PROVE  \E local : /\ Put(t, local) /\ local.pc = "scenario"
                      /\ local.seen = thread[t].seen /\ local.back = thread[t].back
<1> DEFINE local == [thread[t] EXCEPT !.pc = "scenario", !.whole = FALSE]
<1>1. local.pc = "scenario" /\ local.seen = thread[t].seen /\ local.back = thread[t].back
  BY DEF ThreadInv, Locals
<1> QED BY <1>1 DEF Interrupted

\* In COUNT mode there is no deadline.
LEMMA NoDeadline == ASSUME Count PROVE ~DeadlinePassed
BY DEF Count, DeadlinePassed

LEMMA LoopTurns ==
    ASSUME ServiceInv, RecordInv, NEW r \in RunIds, exec[r] = "working", NEW t \in Threads,
           Claim(t) \/ LoopEnds(t)
    PROVE  WorkingInv(r)'
<1>1. /\ WorkingInv(r) /\ ClaimsInv /\ Run = r /\ Knows(thread[t], total, sequence, r \in cancelled)
      /\ total \in Nat /\ sequence \in Nat /\ scenarios \in Nat /\ Answered \in Nat
  BY RunIsIt, Bounds, Limits
     DEF RecordInv, ExecutorInv, WorkingInv, ServiceInv, CountsInv, ClaimsInv, Answered
<1>2. thread[t].pc = "loop" /\ UNCHANGED <<cancelled, task, responses, pending, total, scenarios>>
  BY DEF Claim, LoopEnds, At, ThreadFrame
<1>3. Answered' = Answered /\ ~Flies(thread[t])
  BY <1>2 DEF Answered, Scenario, Flies
<1>4. CASE Claim(t)
  <2> DEFINE place == IF Scenario THEN "target" ELSE "add"
             local == [Idle EXCEPT !.pc = place]
  <2>1. Put(t, local) /\ sequence' = sequence + 1
    BY <1>4 DEF Claim
  <2>2. local.pc = place /\ local.seen = 0 /\ local.whole = TRUE /\ local.back = "loop"
    BY DEF Idle
  <2>3. Flies(local) /\ Knows(local, total, sequence', r \in cancelled)
    BY <1>1, <2>2 DEF Flies, Knows
  <2> HIDE DEF local
  <2> QED BY <1>1, <1>2, <1>3, <2>1, <2>3, QuietTurn
<1>5. CASE LoopEnds(t)
  <2> DEFINE local == [Idle EXCEPT !.pc = "done"]
  <2>1. Put(t, local) /\ sequence' = sequence
    BY <1>5 DEF LoopEnds, Done
  <2>2. local.pc = "done" /\ local.seen = 0 /\ local.whole = TRUE /\ local.back = "loop"
    BY DEF Idle
  <2>3. Count /\ r \notin cancelled => sequence >= RequestCount
    BY <1>1, <1>5, NoDeadline DEF LoopEnds, Cancelled
  <2>4. ~Flies(local) /\ Knows(local, total, sequence', r \in cancelled)
    BY <1>1, <2>1, <2>2, <2>3 DEF Flies, Knows
  <2> HIDE DEF local
  <2> QED BY <1>1, <1>2, <1>3, <2>1, <2>4, QuietTurn
<1> QED BY <1>4, <1>5

LEMMA ScenarioTurns ==
    ASSUME ServiceInv, RecordInv, NEW r \in RunIds, exec[r] = "working", NEW t \in Threads,
           Target(t) \/ NextTarget(t)
    PROVE  WorkingInv(r)'
<1>1. /\ WorkingInv(r) /\ ClaimsInv /\ Run = r /\ Knows(thread[t], total, sequence, r \in cancelled)
      /\ total \in Nat /\ sequence \in Nat /\ scenarios \in Nat /\ Answered \in Nat
  BY RunIsIt, Bounds, Limits
     DEF RecordInv, ExecutorInv, WorkingInv, ServiceInv, CountsInv, ClaimsInv, Answered
<1>2. /\ thread[t].pc \in {"target", "next"}
      /\ UNCHANGED <<cancelled, task, responses, pending, total, scenarios, sequence>>
  BY DEF Target, NextTarget, At, ThreadFrame
<1>3. Answered' = Answered /\ Flies(thread[t]) /\ Scenario
  BY <1>1, <1>2 DEF Answered, Scenario, Flies, Knows
<1>4. ASSUME NEW local, Put(t, local), local.pc \in {"add", "scenario", "target"},
             local.seen = thread[t].seen, local.back = thread[t].back,
             local.whole = thread[t].whole \/ ~Count \/ r \in cancelled
      PROVE  WorkingInv(r)'
  <2>1. Flies(local) /\ Knows(local, total, sequence', r \in cancelled)
    BY <1>1, <1>2, <1>3, <1>4 DEF Flies, Knows
  <2> QED BY <1>1, <1>2, <1>3, <1>4, <2>1, QuietTurn
<1>5. CASE \E place \in {"add", "scenario"} : Move(t, place)
  BY <1>4, <1>5, MoveLocal DEF ServiceInv
<1>6. CASE Interrupted(t) /\ (Cancelled \/ DeadlinePassed)
  BY <1>1, <1>4, <1>6, InterruptedLocal, NoDeadline DEF ServiceInv, Cancelled
<1>7. CASE Put(t, [thread[t] EXCEPT !.step = @ + 1, !.pc = "target"])
  <2> DEFINE local == [thread[t] EXCEPT !.step = @ + 1, !.pc = "target"]
  <2>1. /\ local.pc = "target" /\ local.seen = thread[t].seen /\ local.back = thread[t].back
        /\ local.whole = thread[t].whole
    BY DEF ServiceInv, ThreadInv, Locals
  <2> QED BY <1>4, <1>7, <2>1
<1> QED BY <1>5, <1>6, <1>7 DEF Target, NextTarget

LEMMA AddTurn ==
    ASSUME ServiceInv, RecordInv, NEW r \in RunIds, exec[r] = "working", NEW t \in Threads, Add(t)
    PROVE  WorkingInv(r)'
<1>1. /\ WorkingInv(r) /\ ClaimsInv /\ Run = r /\ Knows(thread[t], total, sequence, r \in cancelled)
      /\ total \in Nat /\ sequence \in Nat /\ scenarios \in Nat /\ Answered \in Nat
  BY RunIsIt, Bounds, Limits
     DEF RecordInv, ExecutorInv, WorkingInv, ServiceInv, CountsInv, ClaimsInv, Answered
<1>2. /\ thread[t].pc = "add" /\ total' = total + 1
      /\ UNCHANGED <<cancelled, task, responses, pending, scenarios, sequence>>
  BY DEF Add, At, ThreadFrame
<1>3. PICK success \in BOOLEAN :
         Put(t, [thread[t] EXCEPT !.pc = "respond", !.num = total + 1, !.ok = success])
  BY DEF Add
<1> DEFINE local == [thread[t] EXCEPT !.pc = "respond", !.num = total + 1, !.ok = success]
<1>4. /\ local.pc = "respond" /\ local.num = total' /\ local.seen = thread[t].seen
      /\ local.back = thread[t].back /\ local.whole = thread[t].whole
  BY <1>2 DEF ServiceInv, ThreadInv, Locals
<1>5. thread[t].seen \in Nat
  BY Bounds DEF ServiceInv, ThreadInv, Locals
<1>6. Knows(local, total', sequence', r \in cancelled)
  BY <1>1, <1>2, <1>4, <1>5 DEF Knows
<1>7. responses'[r] \subseteq 1..total' /\ pending' \subseteq 1..total'
  BY <1>1, <1>2 DEF WorkingInv
<1>8. \A n \in 1..total' :
         \/ n \in responses'[r] \/ n \in pending' \/ (local.pc = "respond" /\ local.num = n)
         \/ /\ n \in 1..total /\ n \notin responses[r] /\ n \notin pending
            /\ thread[t].pc = "respond" => n # thread[t].num
  BY <1>1, <1>2, <1>4
<1>9. Answered' + (IF Flies(local) THEN 1 ELSE 0) + sequence
        = Answered + (IF Flies(thread[t]) THEN 1 ELSE 0) + sequence'
  <2>1. CASE Scenario
    <3>1. Flies(local) /\ Flies(thread[t]) /\ Answered' = Answered
      BY <1>2, <1>4, <2>1 DEF Flies, Answered, Scenario
    <3> QED BY <1>1, <1>2, <3>1
  <2>2. CASE ~Scenario
    <3>1. ~Flies(local) /\ Flies(thread[t]) /\ Answered' = Answered + 1
      BY <1>2, <1>4, <2>2 DEF Flies, Answered, Scenario
    <3> QED BY <1>1, <1>2, <3>1
  <2> QED BY <2>1, <2>2
<1>10. Put(t, local) /\ total' >= total /\ total' \in Nat /\ sequence' >= sequence
  BY <1>1, <1>2, <1>3
<1> HIDE DEF local
<1> QED BY <1>1, <1>2, <1>6, <1>7, <1>8, <1>9, <1>10, Turn

LEMMA RespondTurn ==
    ASSUME ServiceInv, RecordInv, NEW r \in RunIds, exec[r] = "working", NEW t \in Threads, Respond(t)
    PROVE  WorkingInv(r)'
<1>1. /\ WorkingInv(r) /\ ClaimsInv /\ Run = r /\ Knows(thread[t], total, sequence, r \in cancelled)
      /\ total \in Nat /\ sequence \in Nat /\ scenarios \in Nat /\ Answered \in Nat
  BY RunIsIt, Bounds, Limits
     DEF RecordInv, ExecutorInv, WorkingInv, ServiceInv, CountsInv, ClaimsInv, Answered
<1>2. /\ thread[t].pc = "respond" /\ UNCHANGED <<cancelled, task, total, scenarios, sequence>>
  BY DEF Respond, At, ThreadFrame
<1> DEFINE batch == pending \cup {thread[t].num}
<1>3. batch \subseteq 1..total
  BY <1>1, <1>2 DEF Knows, WorkingInv
<1>4. \/ /\ Snapshot(t, total, AfterRequest)
         /\ \/ pending' = batch /\ responses'[r] = responses[r]
            \/ pending' = {} /\ responses'[r] = responses[r] \cup batch
      \/ Move(t, "raised") /\ pending' = {} /\ responses'[r] = responses[r]
  BY <1>1 DEF Respond, AddRunResponses, ServiceInv, TablesInv
<1>5. responses'[r] \subseteq 1..total' /\ pending' \subseteq 1..total'
  BY <1>1, <1>2, <1>3, <1>4 DEF WorkingInv
<1>6. /\ Answered' = Answered /\ (Flies(thread[t]) <=> Scenario)
      /\ AfterRequest = (IF Scenario THEN "next" ELSE "loop")
      /\ ~Scenario => thread[t].back = "loop"
  BY <1>1, <1>2 DEF Answered, Scenario, Flies, AfterRequest, Knows
<1>7. thread[t].seen <= total /\ total <= total /\ total' = total
  BY <1>1, <1>2 DEF Knows
<1>8. CASE Snapshot(t, total, AfterRequest)
  <2>1. PICK local :
           /\ Put(t, local) /\ local.whole = thread[t].whole
           /\ \/ local.pc = "persist" /\ local.seen = total /\ local.back = AfterRequest
              \/ local.pc = AfterRequest /\ local.seen = thread[t].seen /\ local.back = thread[t].back
    BY <1>8, SnapshotLocal DEF ServiceInv
  <2>2. Flies(local) <=> Scenario
    BY <1>6, <2>1 DEF Flies
  <2>3. Knows(local, total', sequence', r \in cancelled)
    BY <1>1, <1>2, <1>6, <1>7, <2>1 DEF Knows
  <2>4. /\ pending \cup {thread[t].num} \subseteq responses'[r] \cup pending'
        /\ responses[r] \subseteq responses'[r]
    <3>1. local.pc # "raised"
      BY <1>6, <2>1
    <3>2. thread'[t] = local
      BY <2>1 DEF ServiceInv, ThreadInv, Put
    <3>3. ~ Move(t, "raised")
      <4> SUFFICES ASSUME Move(t, "raised") PROVE FALSE
        OBVIOUS
      <4>1. thread'[t].pc = "raised"
        BY DEF Move, Put, ServiceInv, ThreadInv, Locals
      <4> QED BY <3>1, <3>2, <4>1
    <3> QED BY <1>4, <3>3
  <2>5. local.pc # "raised" => \A n \in 1..total' :
           \/ n \in responses'[r] \/ n \in pending' \/ (local.pc = "respond" /\ local.num = n)
           \/ /\ n \in 1..total /\ n \notin responses[r] /\ n \notin pending
              /\ thread[t].pc = "respond" => n # thread[t].num
    BY <1>7, <2>4
  <2>6. Answered' + (IF Flies(local) THEN 1 ELSE 0) + sequence
          = Answered + (IF Flies(thread[t]) THEN 1 ELSE 0) + sequence'
    BY <1>1, <1>2, <1>6, <2>2
  <2> QED BY <1>1, <1>2, <1>5, <1>7, <2>1, <2>3, <2>5, <2>6, Turn
<1>9. CASE Move(t, "raised")
  <2>1. PICK local : /\ Put(t, local) /\ local.pc = "raised" /\ local.whole = thread[t].whole
                     /\ local.seen = thread[t].seen /\ local.back = thread[t].back
    BY <1>9, MoveLocal DEF ServiceInv
  <2>2. Knows(local, total', sequence', r \in cancelled)
    BY <1>1, <1>2, <1>6, <1>7, <2>1 DEF Knows
  <2> QED BY <1>1, <1>2, <1>5, <1>7, <2>1, <2>2, Turn
<1> QED BY <1>4, <1>8, <1>9

LEMMA PersistTurn ==
    ASSUME ServiceInv, RecordInv, NEW r \in RunIds, exec[r] = "working", NEW t \in Threads, Persist(t)
    PROVE  WorkingInv(r)'
<1>1. /\ WorkingInv(r) /\ ClaimsInv /\ Run = r /\ Knows(thread[t], total, sequence, r \in cancelled)
      /\ total \in Nat /\ sequence \in Nat /\ scenarios \in Nat /\ Answered \in Nat
  BY RunIsIt, Bounds, Limits
     DEF RecordInv, ExecutorInv, WorkingInv, ServiceInv, CountsInv, ClaimsInv, Answered
<1>2. /\ thread[t].pc = "persist"
      /\ UNCHANGED <<cancelled, task, responses, pending, total, scenarios, sequence>>
  BY DEF Persist, At, ThreadFrame
<1>3. Answered' = Answered /\ thread[t].back \in {"loop", "next"}
  BY <1>2 DEF Answered, Scenario, ServiceInv, ThreadInv, Locals
<1>4. CASE Seen(t)
  <2> DEFINE local == [thread[t] EXCEPT !.pc = thread[t].back, !.seen = 0, !.back = "loop"]
  <2>1. /\ local.pc = thread[t].back /\ local.seen = 0 /\ local.back = "loop"
        /\ local.whole = thread[t].whole
    BY DEF ServiceInv, ThreadInv, Locals
  <2>2. Knows(local, total, sequence', r \in cancelled)
    BY <1>1, <1>2, <1>3, <2>1 DEF Knows
  <2>3. Flies(local) <=> Flies(thread[t])
    BY <1>1, <1>2, <1>3, <2>1 DEF Flies, Knows
  <2>4. Put(t, local)
    BY <1>4 DEF Seen
  <2> HIDE DEF local
  <2> QED BY <1>1, <1>2, <1>3, <2>2, <2>3, <2>4, QuietTurn
<1>5. CASE Move(t, "raised")
  <2>1. PICK local : /\ Put(t, local) /\ local.pc = "raised" /\ local.whole = thread[t].whole
                     /\ local.seen = thread[t].seen /\ local.back = thread[t].back
    BY <1>5, MoveLocal DEF ServiceInv
  <2>2. Knows(local, total, sequence', r \in cancelled)
    BY <1>1, <1>2, <2>1 DEF Knows
  <2> QED BY <1>1, <1>2, <2>1, <2>2, QuietTurn
<1> QED BY <1>4, <1>5 DEF Persist

LEMMA EndTurn ==
    ASSUME ServiceInv, RecordInv, NEW r \in RunIds, exec[r] = "working", NEW t \in Threads,
           ScenarioEnds(t)
    PROVE  WorkingInv(r)'
<1>1. /\ WorkingInv(r) /\ ClaimsInv /\ Run = r /\ Knows(thread[t], total, sequence, r \in cancelled)
      /\ total \in Nat /\ sequence \in Nat /\ scenarios \in Nat /\ Answered \in Nat
  BY RunIsIt, Bounds, Limits
     DEF RecordInv, ExecutorInv, WorkingInv, ServiceInv, CountsInv, ClaimsInv, Answered
<1>2. /\ thread[t].pc = "scenario" /\ UNCHANGED <<cancelled, task, responses, pending, total, sequence>>
      /\ scenarios' = IF thread[t].whole THEN scenarios + 1 ELSE scenarios
      /\ Snapshot(t, total, "loop")
  BY DEF ScenarioEnds, At, ThreadFrame
<1>3. Scenario /\ Flies(thread[t]) /\ (Count /\ r \notin cancelled => thread[t].whole)
  BY <1>1, <1>2 DEF Knows, Flies
<1>4. /\ Count /\ r \notin cancelled => Answered' = Answered + 1
      /\ scenarios' \in Nat /\ sequence' \in Nat /\ sequence' >= sequence
  BY <1>1, <1>2, <1>3 DEF Answered, Scenario
<1>5. PICK local :
         /\ Put(t, local) /\ local.whole = thread[t].whole
         /\ \/ local.pc = "persist" /\ local.seen = total /\ local.back = "loop"
            \/ local.pc = "loop" /\ local.seen = thread[t].seen /\ local.back = thread[t].back
  BY <1>2, SnapshotLocal DEF ServiceInv
<1>6. ~Flies(local) /\ Knows(local, total, sequence', r \in cancelled)
  BY <1>1, <1>2, <1>3, <1>5 DEF Flies, Knows
<1>7. Count /\ r \notin cancelled =>
         Answered' + (IF Flies(local) THEN 1 ELSE 0) + sequence
           = Answered + (IF Flies(thread[t]) THEN 1 ELSE 0) + sequence'
  BY <1>1, <1>2, <1>3, <1>4, <1>6
<1> QED BY <1>1, <1>2, <1>4, <1>5, <1>6, <1>7, QuietTurn

LEMMA ThreadRecord ==
    ASSUME ServiceInv, RecordInv, NEW t \in Threads, RequestThread(t)
    PROVE  RecordInv' /\ (Faithful \/ UNCHANGED row)
<1>1. /\ UNCHANGED <<starter, startPlan, registered, cancelled, exec, task>> /\ Working # {}
  BY DEF RequestThread, Claim, LoopEnds, Target, Add, Respond, Persist, NextTarget, ScenarioEnds,
         ThreadFrame, starting, At
<1>2. PICK r \in RunIds : exec[r] = "working" /\ exec[r] \in Executing
  BY <1>1 DEF Working, Executing
<1>3. Run = r /\ row[r].status = "RUNNING" /\ row[r] # NoRow /\ ExecutorInv(r)
  BY <1>2, RunIsIt DEF ServiceInv, HandsInv, NoRow, RecordInv
<1>4. WorkingInv(r)'
  BY <1>2, LoopTurns, ScenarioTurns, AddTurn, RespondTurn, PersistTurn, EndTurn DEF RequestThread
<1>5. WorkingInv(r) /\ task \in Plans /\ latest = row[r].total /\ latest <= total
      /\ latest \in Nat /\ total \in Nat
  BY <1>2, <1>3, Bounds DEF ExecutorInv, ServiceInv, CountsInv
<1>6. RequestInv'
  BY <1>1 DEF RecordInv, RequestInv
<1>7. ClaimsInv'
  <2>1. scenarios' \in Nat /\ task # NoPlan
    <3>1. scenarios' = scenarios \/ scenarios' = scenarios + 1
      BY DEF RequestThread, Claim, LoopEnds, Target, Add, Respond, Persist, NextTarget, ScenarioEnds
    <3>2. scenarios \in Nat
      BY DEF RecordInv, ClaimsInv
    <3> QED BY <1>5, <3>1, <3>2, Bounds
  <2>2. CASE Claim(t)
    BY <1>1, <1>2, <2>1, <2>2, Limits DEF RecordInv, ClaimsInv, Claim, Count, Counting
  <2>3. CASE ~Claim(t)
    <3>1. sequence' = sequence
      BY <2>3 DEF RequestThread, LoopEnds, Target, Add, Respond, Persist, NextTarget, ScenarioEnds
    <3> QED BY <1>1, <2>1, <3>1 DEF RecordInv, ClaimsInv
  <2> QED BY <2>2, <2>3
<1>8. /\ \A q \in RunIds : q # r => row'[q] = row[q] /\ responses'[q] = responses[q]
      /\ row'[r] # NoRow /\ latest' = row'[r].total /\ latest' <= total'
      /\ Faithful \/ UNCHANGED row
  <2>1. CASE Persist(t)
    <3>1. UNCHANGED <<responses, total>>
      BY <2>1 DEF Persist
    <3>2. CASE UNCHANGED <<row, latest>>
      BY <1>3, <1>5, <3>1, <3>2
    <3>3. CASE /\ UpdateRun(r, "RUNNING", thread[t].seen, "none")
               /\ latest' = thread[t].seen /\ thread[t].seen > latest
      <4>1. thread[t].seen \in Nat /\ thread[t].seen <= total /\ row[r].total <= thread[t].seen
        BY <1>5, <3>3, Bounds DEF WorkingInv, Knows, ServiceInv, ThreadInv, Locals
      <4>2. /\ Advances /\ \A q \in RunIds : q # r => row'[q] = row[q]
            /\ row'[r].total = thread[t].seen /\ row'[r].status = "RUNNING"
        BY <1>3, <3>3, <4>1, UpdateAdvances DEF ServiceInv
      <4> QED BY <3>1, <3>3, <4>1, <4>2 DEF Faithful, Succeeds, NoRow
    <3> QED BY <1>3, <2>1, <3>2, <3>3 DEF Persist
  <2>2. CASE ~Persist(t)
    <3>1. UNCHANGED <<row, latest>> /\ (total' = total \/ total' = total + 1)
      BY <2>2 DEF RequestThread, Claim, LoopEnds, Target, Add, Respond, NextTarget, ScenarioEnds
    <3>2. \A q \in RunIds : q # r => responses'[q] = responses[q]
      BY <1>3, <2>2 DEF RequestThread, Claim, LoopEnds, Target, Add, Respond, NextTarget,
         ScenarioEnds, AddRunResponses, ServiceInv, TablesInv
    <3> QED BY <1>3, <1>5, <3>1, <3>2
  <2> QED BY <2>1, <2>2
<1>9. FreshInv'
  BY <1>1, <1>2, <1>8 DEF RecordInv, FreshInv
<1>10. ExecutorInv(r)'
  BY <1>1, <1>2, <1>4, <1>5, <1>8 DEF ExecutorInv, Executing
<1> QED BY <1>1, <1>2, <1>6, <1>7, <1>8, <1>9, <1>10, OthersRest DEF RecordInv

-----------------------------------------------------------------------------
LEMMA RecordInit == Init => RecordInv
<1> SUFFICES ASSUME Init PROVE RecordInv
  OBVIOUS
<1>1. RequestInv /\ ClaimsInv
  BY Limits DEF Init, RequestInv, ClaimsInv
<1>2. FreshInv
  BY DEF Init, FreshInv, NoRow
<1>3. \A r \in RunIds : ExecutorInv(r)
  BY DEF Init, ExecutorInv, Executing
<1> QED BY <1>1, <1>2, <1>3 DEF RecordInv

LEMMA RecordStep == ServiceInv /\ RecordInv /\ [Next]_vars => RecordInv' /\ (Faithful \/ UNCHANGED row)
<1> SUFFICES ASSUME ServiceInv, RecordInv, [Next]_vars
             PROVE  RecordInv' /\ (Faithful \/ UNCHANGED row)
  OBVIOUS
<1>1. CASE Next
  BY <1>1, DefinitionsRecord, StartRecord, SubmitRecord, ProcessRecord, ExecuteRecord, ThreadRecord
     DEF Next
<1>2. CASE UNCHANGED vars
  <2>1. UNCHANGED <<row, responses, exec, latest, pending, outcome, task, sequence, total,
                    scenarios, thread, starter, startPlan, registered, cancelled>>
    BY <1>2 DEF vars, tables, locals, counters, starting
  <2>2. RequestInv' /\ FreshInv'
    BY <2>1 DEF RecordInv, RequestInv, FreshInv
  <2> QED BY <2>1, <2>2, Beside DEF RecordInv
<1> QED BY <1>1, <1>2

LEMMA RecordTypes == ServiceInv /\ RecordInv => TypeOK
<1> SUFFICES ASSUME ServiceInv, RecordInv PROVE TypeOK
  OBVIOUS
<1>1. \A r \in RunIds : /\ row[r].status \in {"ABSENT", "RUNNING", "SUCCEEDED", "FAILED"}
                        /\ row[r].total \in 0..MaxTotal /\ responses[r] \subseteq 1..MaxTotal
  BY RowTotals DEF ServiceInv, TablesInv, Repository!Rows, Repository!RunStatus, Repository!NoRow
<1> QED BY <1>1 DEF TypeOK, ServiceInv, TablesInv, CountsInv, RecordInv, RequestInv, ClaimsInv

\* The record of a run is what happened: the variables keep their types, a run
\* that ends in success has all its requests on record and made as many as it
\* was asked for, totals never go back, and a run that has ended is not written
\* again, however its threads overtake each other and whatever raises or dies.
THEOREM RecordStaysFaithful == Spec => RecordIsFaithful
<1>1. Init => ServiceInv /\ RecordInv
  BY ServiceInit, RecordInit
<1>2. ServiceInv /\ RecordInv /\ [Next]_vars => (ServiceInv /\ RecordInv)'
  BY ServiceStep, RecordStep
<1>3. ServiceInv /\ RecordInv => TypeOK
  BY RecordTypes
<1>4. ServiceInv /\ RecordInv /\ [Next]_vars => [Succeeds]_row /\ [Advances]_row
  BY RecordStep DEF Faithful
<1>5. Spec => []TypeOK /\ [][Succeeds]_row /\ [][Advances]_row
  BY <1>1, <1>2, <1>3, <1>4, PTL DEF Spec
<1> QED BY <1>5 DEF RecordIsFaithful, SuccessIsComplete, RunOnlyAdvances, Succeeds, Advances

-----------------------------------------------------------------------------
(* Whose hands a run is in.                                                *)

\* Without a transaction that raised, a RUNNING run is registered or about to be, and
\* its execution gives it back only after its row was written.
ReachInv ==
    /\ dbErrors \in Nat
    /\ dbErrors = 0 =>
          /\ \A r \in RunIds : exec[r] = "finally" => row[r].status # "RUNNING"
          /\ service = "up" =>
                \A r \in RunIds : row[r].status = "RUNNING" =>
                    r \in registered \/ (starter = "submit" /\ exec[r] = "none")

LEMMA RaisesExcuses == ASSUME ReachInv, Raises PROVE ReachInv'
<1>1. dbErrors' \in Nat /\ dbErrors' # 0
  BY DEF ReachInv, Raises
<1> QED BY <1>1 DEF ReachInv

\* Nobody lets go of a run that is RUNNING.
LEMMA HeldRuns ==
    ASSUME ReachInv, dbErrors' = dbErrors, service' = "up" => service = "up",
           starter = "submit" => starter' = "submit",
           \A r \in RunIds : row'[r].status = "RUNNING" =>
               /\ row[r].status = "RUNNING"
               /\ dbErrors = 0 /\ r \in registered => r \in registered'
               /\ exec[r] = "none" => exec'[r] = "none"
               /\ exec'[r] = "finally" => exec[r] = "finally"
    PROVE  ReachInv'
BY DEF ReachInv

LEMMA UpdateIsOfRunning ==
    ASSUME TablesInv, NEW r \in RunIds, NEW status, NEW metrics, NEW message,
           UpdateRun(r, status, metrics, message)
    PROVE  \A q \in RunIds : row'[q].status = "RUNNING" => row[q].status = "RUNNING"
<1>1. CASE row[r].status = "RUNNING"
  <2>1. \A q \in RunIds : q # r => row'[q] = row[q]
    BY <1>1 DEF UpdateRun, TablesInv
  <2> QED BY <1>1, <2>1
<1>2. CASE row[r].status # "RUNNING"
  BY <1>2 DEF UpdateRun
<1> QED BY <1>1, <1>2

LEMMA DefinitionsReach ==
    ASSUME ReachInv, CreateLoadTest \/ UpdateLoadTest \/ DeleteLoadTest \/ ReadDefinition \/ StartRefused
    PROVE  ReachInv'
<1>1. CASE Raises
  BY <1>1, RaisesExcuses
<1>2. CASE dbErrors' = dbErrors
  <2>1. UNCHANGED <<service, registered, exec>> /\ (starter = "submit" => starter' = "submit")
    BY DEF CreateLoadTest, UpdateLoadTest, DeleteLoadTest, ReadDefinition, StartRefused, NotService, starting
  <2>2. \A r \in RunIds : row'[r].status = "RUNNING" => row[r].status = "RUNNING"
    BY DEF CreateLoadTest, UpdateLoadTest, DeleteLoadTest, ReadDefinition, StartRefused, tables, NoRow
  <2> QED BY <1>2, <2>1, <2>2, HeldRuns
<1> QED BY <1>1, <1>2 DEF CreateLoadTest, UpdateLoadTest, DeleteLoadTest, ReadDefinition, StartRefused,
           NotService, Works

LEMMA StartReaches ==
    ASSUME ServiceInv, ReachInv, CreateRun \/ Submit \/ SubmitRaises
    PROVE  ReachInv'
<1>1. CASE CreateRun
  <2>1. NewRun \in RunIds /\ exec[NewRun] = "none" /\ Active = {}
    BY <1>1, NewRunIsUnstarted DEF CreateRun, Unstarted
  <2>2. \A q \in RunIds : q # NewRun => row'[q].status # "RUNNING"
    BY <1>1, <2>1 DEF ServiceInv, TablesInv, CreateRun, Active
  <2> QED BY <1>1, <2>1, <2>2 DEF ReachInv, CreateRun
<1> SUFFICES ASSUME Submit \/ SubmitRaises PROVE ReachInv'
  BY <1>1
<1>2. Created \in RunIds /\ row[Created].status = "RUNNING" /\ exec[Created] = "none"
  BY CreatedIsActive DEF ServiceInv, Submit, SubmitRaises
<1>3. \A q \in RunIds : q # Created => row[q].status # "RUNNING"
  BY <1>2 DEF ServiceInv, TablesInv
<1>4. exec \in [RunIds -> Places]
  BY DEF ServiceInv, HandsInv
<1>5. CASE Submit
  <2>1. dbErrors' = dbErrors /\ row' = row /\ registered' = registered \cup {Created}
        /\ exec' = [exec EXCEPT ![Created] = "first"]
    BY <1>5 DEF Submit, tables
  <2> QED BY <1>2, <1>3, <1>4, <2>1 DEF ReachInv
<1>6. CASE SubmitRaises /\ Raises
  BY <1>6, RaisesExcuses
<1>7. CASE SubmitRaises /\ UpdateRun(Created, "FAILED", row[Created].total, "unavailable") /\ Works
  <2>1. row[Created].total \in 0..MaxTotal
    BY <1>2 DEF ServiceInv, TablesInv, Repository!Rows, Repository!NoRow
  <2>2. row'[Created].status = "FAILED" /\ \A q \in RunIds : q # Created => row'[q] = row[q]
    BY <1>2, <1>7, <2>1, UpdateRunKeeps DEF ServiceInv, SubmitRaises, Messages
  <2>3. \A q \in RunIds : row'[q].status # "RUNNING"
    BY <1>3, <2>2
  <2> QED BY <1>7, <2>3 DEF ReachInv, Works
<1> QED BY <1>5, <1>6, <1>7 DEF SubmitRaises

LEMMA ProcessReaches ==
    ASSUME ReachInv,
           (\E r \in RunIds : CancelRun(r)) \/ Expire \/ Shutdown \/ Stopped \/ Crash \/ Restart
    PROVE  ReachInv'
<1>1. CASE (\E r \in RunIds : CancelRun(r)) \/ Expire \/ Shutdown
  <2>1. UNCHANGED <<row, registered, exec, starter, dbErrors>> /\ (service' = "up" => service = "up")
    BY <1>1 DEF CancelRun, Expire, Shutdown, tables, starting
  <2> QED BY <2>1, HeldRuns
<1>2. CASE Gone
  <2>1. service' = "down" /\ dbErrors' = dbErrors /\ \A r \in RunIds : exec'[r] # "finally"
    BY <1>2 DEF Gone
  <2> QED BY <2>1 DEF ReachInv
<1>3. CASE Restart
  <2>1. \A r \in RunIds : row'[r].status # "RUNNING"
    <3> SUFFICES ASSUME NEW r \in RunIds PROVE row'[r].status # "RUNNING"
      OBVIOUS
    <3>1. CASE row[r].status = "RUNNING"
      <4>1. row'[r] = [row[r] EXCEPT !.status = "FAILED", !.error = "interrupted"]
        BY <1>3, <3>1 DEF Restart
      <4> QED BY <3>1, <4>1
    <3>2. CASE row[r].status # "RUNNING"
      BY <1>3, <3>2 DEF Restart
    <3> QED BY <3>1, <3>2
  <2> QED BY <1>3, <2>1 DEF ReachInv, Restart
<1> QED BY <1>1, <1>2, <1>3 DEF Stopped, Crash

LEMMA ExecuteReaches ==
    ASSUME ServiceInv, ReachInv, NEW r \in RunIds, Execute(r)
    PROVE  ReachInv'
<1>0. exec \in [RunIds -> Places] /\ TablesInv
  BY DEF ServiceInv, HandsInv
<1>1. service' = service /\ starter' = starter
  BY DEF Execute, FirstRead, Resolve, Join, FlushResponses, HandlerFlush, Decide, Finish, Fail, Finally,
     ExecuteFrame, starting
<1>2. CASE Raises
  BY <1>2, RaisesExcuses
<1>3. CASE ~Raises /\ (FirstRead(r) \/ Resolve(r) \/ Join(r) \/ FlushResponses(r) \/ HandlerFlush(r) \/ Decide(r))
  <2>1. UNCHANGED <<row, registered, dbErrors>> /\ exec[r] # "none"
        /\ \E place \in Places \ {"finally"} : Goto(r, place)
    BY <1>3 DEF FirstRead, Resolve, Join, FlushResponses, HandlerFlush, Decide, Works, Places
  <2>2. PICK place \in Places \ {"finally"} : Goto(r, place)
    BY <2>1
  <2>3. \A q \in RunIds : /\ exec[q] = "none" => exec'[q] = "none"
                          /\ exec'[q] = "finally" => exec[q] = "finally"
    BY <1>0, <2>1, <2>2 DEF Goto
  <2> QED BY <1>1, <2>1, <2>3, HeldRuns
<1>4. CASE ~Raises /\ (Finish(r) \/ Fail(r))
  <2>1. exec[r] \in Executing /\ row[r].status = "RUNNING" /\ exec[r] # "none"
    BY <1>4 DEF ServiceInv, HandsInv, Finish, Fail, Executing
  <2>2. UNCHANGED <<plan, responses, registered, dbErrors>> /\ Goto(r, "finally")
    BY <1>4 DEF Finish, Fail, ExecuteFrame, Works, Leave
  <2>3. PICK status \in {"SUCCEEDED", "FAILED"}, metrics \in 0..MaxTotal, message \in Messages :
           UpdateRun(r, status, metrics, message)
    <3>1. CASE Finish(r)
      <4>1. outcome \in {"SUCCEEDED", "FAILED"} /\ total \in 0..MaxTotal
        BY <3>1 DEF ServiceInv, HandsInv, CountsInv, Finish
      <4>2. UpdateRun(r, outcome, total, IF r \in cancelled THEN "cancelled" ELSE "none")
        BY <1>4, <3>1 DEF Finish
      <4>3. CASE r \in cancelled
        BY <4>1, <4>2, <4>3 DEF Messages
      <4>4. CASE r \notin cancelled
        BY <4>1, <4>2, <4>4 DEF Messages
      <4> QED BY <4>3, <4>4
    <3>2. CASE Fail(r)
      BY <1>4, <3>2 DEF ServiceInv, CountsInv, Fail, Messages
    <3> QED BY <1>4, <3>1, <3>2
  <2>4. row'[r].status = status /\ \A q \in RunIds : q # r => row'[q] = row[q]
    BY <1>0, <2>1, <2>2, <2>3, UpdateRunKeeps
  <2>5. \A q \in RunIds : row'[q].status = "RUNNING" => q # r /\ row[q].status = "RUNNING"
    BY <2>3, <2>4
  <2>6. \A q \in RunIds : q # r => exec'[q] = exec[q]
    BY <1>0, <2>2 DEF Goto
  <2> QED BY <1>1, <2>2, <2>5, <2>6, HeldRuns
<1>5. CASE Finally(r)
  <2>1. UNCHANGED <<row, dbErrors>> /\ registered' = registered \ {r} /\ exec[r] = "finally"
        /\ exec' = [exec EXCEPT ![r] = "done"]
    BY <1>5 DEF Finally, Goto
  <2>2. dbErrors = 0 => row[r].status # "RUNNING"
    BY <2>1 DEF ReachInv
  <2> QED BY <1>0, <1>1, <2>1, <2>2, HeldRuns
<1> QED BY <1>2, <1>3, <1>4, <1>5 DEF Execute

LEMMA ThreadReaches ==
    ASSUME ServiceInv, ReachInv, NEW t \in Threads, RequestThread(t)
    PROVE  ReachInv'
<1>1. UNCHANGED <<service, starter, registered, exec>>
  BY DEF RequestThread, Claim, LoopEnds, Target, Add, Respond, Persist, NextTarget, ScenarioEnds,
     ThreadFrame, starting
<1>2. CASE Raises
  BY <1>2, RaisesExcuses
<1>3. CASE ~Raises
  <2>1. dbErrors' = dbErrors
    BY <1>3 DEF RequestThread, Claim, LoopEnds, Target, Add, Respond, Persist, NextTarget, ScenarioEnds, Works
  <2>2. row' = row \/ (Working # {} /\ UpdateRun(Run, "RUNNING", thread[t].seen, "none"))
    BY DEF RequestThread, Claim, LoopEnds, Target, Add, Respond, Persist, NextTarget, ScenarioEnds, At
  <2>3. \A q \in RunIds : row'[q].status = "RUNNING" => row[q].status = "RUNNING"
    BY <2>2, RunIsWorking, UpdateIsOfRunning DEF ServiceInv
  <2> QED BY <1>1, <2>1, <2>3, HeldRuns
<1> QED BY <1>2, <1>3

\* A RUNNING run of a service that is up is always in somebody's hands, in those of
\* the request that starts it or in _cancellations, where a cancel and a shutdown
\* reach it, as long as no transaction has raised (start_run, _execute, shutdown).
THEOREM RunsStayReachable == Spec => []RunningIsReachable
<1>1. Init => ServiceInv /\ ReachInv
  BY ServiceInit DEF Init, ReachInv, NoRow
<1>2. ServiceInv /\ [Next]_vars => ServiceInv'
  BY ServiceStep
<1>3. ASSUME ServiceInv, ReachInv, [Next]_vars PROVE ReachInv'
  <2>1. CASE UNCHANGED vars
    <3>1. UNCHANGED <<row, service, starter, registered, exec, dbErrors>>
      BY <2>1 DEF vars, tables, starting
    <3> QED BY <3>1, <1>3, HeldRuns
  <2>2. CASE Next
    BY <2>2, <1>3, DefinitionsReach, StartReaches, ProcessReaches, ExecuteReaches, ThreadReaches DEF Next
  <2> QED BY <2>1, <2>2, <1>3
<1>4. ReachInv => RunningIsReachable
  BY DEF ReachInv, RunningIsReachable, Active
<1> QED BY <1>1, <1>2, <1>3, <1>4, PTL DEF Spec
=============================================================================
