------------------------ MODULE PlanExecutionProofs ------------------------
(***************************************************************************)
(* Proofs about PlanExecution: a key names one row and a row is dispatched *)
(* once, a batch runs what the revision it names pins, and the SQL         *)
(* repositories implement TestPlanRepository, for any plans, keys and      *)
(* threads.                                                                *)
(***************************************************************************)
EXTENDS PlanExecution, FiniteSetTheorems, TLAPS

-----------------------------------------------------------------------------
(* The inductive invariant *)

\* What References and HostSourced say of assets `as`.
Refs(as, pins) ==
    /\ pins["script"] \in 1..Len(as["script"]) /\ as["script"][pins["script"]].status = "ACTIVE"
    /\ \/ pins["environment"] = 0
       \/ /\ pins["environment"] \in 1..Len(as["environment"])
          /\ as["environment"][pins["environment"]].status = "ACTIVE"
OnHost(as, pins) == as["script"][pins["script"]].source = "host"

\* Every revision of a plan pins revisions that were active when they were written.
TablesInv ==
    /\ assets \in [Assets -> Seq(Repository!AssetRevision)]
    /\ revisions \in [Plans -> Seq(Repository!PlanRevision)]
    /\ \A a \in Assets : Len(assets[a]) \in 1..MaxRevision
    /\ \A p \in Plans : Version(p) \in 0..MaxRevision
    /\ \A p \in Plans : \A n \in 1..Version(p) : Refs(assets, revisions[p][n].pins)

BatchRow(b) ==
    /\ b.key \in Keys /\ b.body \in Plans \X Nat /\ b.source \in {"pinned", "host"}
    /\ b.body[2] \in 1..Version(b.body[1]) /\ b.checked \in 0..Version(b.body[1])
    /\ revisions[b.body[1]][b.body[2]].status = "ACTIVE"
    /\ b.pins = revisions[b.body[1]][b.body[2]].pins
    /\ b.checked # 0 /\ b.source = "pinned" => ~OnHost(assets, revisions[b.body[1]][b.checked].pins)

Numbered(table) == IsFiniteSet(table) /\ \A row \in table : row.id \in 1..Cardinality(table)

RowsInv ==
    /\ Numbered(batches) /\ Numbered(runs)
    /\ \A b \in batches : BatchRow(b)
    /\ OneRowPerKey

\* The requests that threads serve, and where.
Creates == [op : {"create"}, plan : Plans]
Updates == [op : {"update"}, plan : Plans, expected : Nat]
Flushed == [op : {"update"}, plan : Plans, new : Repository!PlanRevision]
Executes == [op : {"execute"}, plan : Plans, key : Keys, target : Targets,
             source : {"pinned", "host"}, checked : Nat, seen : Plans \X Nat]
RunRequests == [op : {"run"}, key : Keys \cup {NoKey}, body : Fingerprints]

Shape(r, l) ==
    \/ r = NoRequest /\ l = "idle"
    \/ r \in Creates /\ l = "write"
    \/ r \in Updates /\ l = "write"
    \/ r \in Flushed /\ l = "commit"
    \/ r \in Executes /\ l \in {"override", "lookup", "insert", "commit", "resolve", "dispatch"}
    \/ r \in RunRequests /\ l \in {"lookup", "insert", "commit", "resolve", "dispatch"}

Spoken(a) ==
    \/ \E w \in {"none", "saved", "conflict", "refused"} : a = <<w, 0>>
    \/ \E w \in {"replayed", "created"}, id \in 1..MaxRequests : a = <<w, id>>

\* What a thread has read stays true while others write: versions only grow.
Reader(u) ==
    LET r == req[u] IN
    /\ r.op = "update" /\ pc[u] = "write" => r.expected \in 1..Version(r.plan)
    /\ r.op = "execute" =>
          /\ Version(r.plan) >= 1 /\ r.checked \in 0..Version(r.plan)
          /\ pc[u] = "override" => r.target # "none"
          /\ r.checked # 0 /\ r.source = "pinned" =>
                ~OnHost(assets, revisions[r.plan][r.checked].pins)

\* A thread that will write what it has read of a plan holds the plan's row.
Updating(u) == req[u].op = "update" /\ pc[u] = "commit"
Executing(u) == req[u].op = "execute" /\ pc[u] \in {"insert", "commit"}

Writer(u) ==
    LET r == req[u] IN
    /\ Updating(u) =>
          /\ locks[r.plan] = u /\ Version(r.plan) \in 1..(MaxRevision - 1)
          /\ r.new.base = Version(r.plan) /\ Refs(assets, r.new.pins)
          /\ Repository!PlanTransition(revisions[r.plan][Version(r.plan)].status, r.new.status)
    /\ Executing(u) =>
          /\ locks[r.plan] = u /\ r.seen = <<r.plan, Version(r.plan)>>
          /\ revisions[r.plan][Version(r.plan)].status = "ACTIVE"

Owner(u) ==
    \A p \in Plans : locks[p] = u => (Updating(u) \/ Executing(u)) /\ req[u].plan = p

\* A thread that has inserted a row is the only one with its key, and no such row
\* is committed.
Inserted(u) == req[u].op \in {"execute", "run"} /\ pc[u] = "commit"
Rowset == {"execute", "run"} \X (Keys \cup {NoKey}) \X Threads

Inserter(u) ==
    /\ Inserted(u) => /\ <<req[u].op, req[u].key, u>> \in pending
                      /\ \A x \in Table(req[u].op) : x.key = req[u].key => req[u].key = NoKey
    /\ \A row \in pending : row[3] = u =>
          Inserted(u) /\ row[1] = req[u].op /\ row[2] = req[u].key

PendingInv ==
    /\ pending \subseteq Rowset
    /\ \A x, y \in pending : x[1] = y[1] /\ x[2] = y[2] /\ x[2] # NoKey => x[3] = y[3]

\* A thread that will dispatch a row is the only one, and the row has not been.
Dispatcher(u) ==
    pc[u] = "dispatch" => /\ answer[u][2] \in 1..Cardinality(Table(req[u].op))
                          /\ dispatched[<<req[u].op, answer[u][2]>>] = 0

DispatchInv ==
    /\ dispatched \in [{"execute", "run"} \X (1..MaxRequests) -> {0, 1}]
    /\ \A op \in {"execute", "run"}, id \in 1..MaxRequests :
          id > Cardinality(Table(op)) => dispatched[<<op, id>>] = 0
    /\ \A t, u \in Threads : pc[t] = "dispatch" /\ pc[u] = "dispatch" /\ req[t].op = req[u].op
                             /\ answer[t][2] = answer[u][2] => t = u

Thread(u) ==
    /\ Shape(req[u], pc[u]) /\ Spoken(answer[u])
    /\ Reader(u) /\ Writer(u) /\ Owner(u) /\ Inserter(u) /\ Dispatcher(u)

\* Every row has been asked for by a request of its own.
Serving == {t \in Threads : pc[t] \notin {"idle", "dispatch"}}

Budget ==
    /\ requests \in 0..MaxRequests /\ faults \in 0..MaxFaults /\ IsFiniteSet(Serving)
    /\ Cardinality(batches) + Cardinality(runs) + Cardinality(Serving) <= requests

PoolInv ==
    /\ DOMAIN pc = Threads /\ DOMAIN req = Threads /\ DOMAIN answer = Threads
    /\ locks \in [Plans -> Threads \cup {Nobody}]

PlanInv ==
    /\ TablesInv /\ RowsInv /\ PoolInv /\ PendingInv /\ DispatchInv /\ Budget
    /\ \A u \in Threads : Thread(u)

-----------------------------------------------------------------------------
(* Tables only grow *)

GrownAssets ==
    \A a \in Assets : /\ Len(assets'[a]) >= Len(assets[a])
                      /\ \A n \in 1..Len(assets[a]) : assets'[a][n] = assets[a][n]
GrownPlans ==
    \A p \in Plans : /\ Version(p)' >= Version(p)
                     /\ \A n \in 1..Version(p) : revisions'[p][n] = revisions[p][n]

\* A revision that was active when it was referred to stays what it was.
LEMMA RefsGrow ==
    ASSUME \A a \in Assets : Len(assets[a]) \in Nat /\ Len(assets'[a]) \in Nat,
           GrownAssets, NEW pins, Refs(assets, pins)
    PROVE  Refs(assets', pins) /\ (OnHost(assets', pins) <=> OnHost(assets, pins))
<1>1. /\ "script" \in Assets /\ "environment" \in Assets
  BY DEF Assets, Repository!Assets
<1> QED BY <1>1 DEF Refs, OnHost, GrownAssets

LEMMA RefsStay ==
    ASSUME TablesInv, TablesInv', GrownAssets, NEW pins, Refs(assets, pins)
    PROVE  Refs(assets', pins) /\ (OnHost(assets', pins) <=> OnHost(assets, pins))
<1>1. \A a \in Assets : Len(assets[a]) \in Nat /\ Len(assets'[a]) \in Nat
  BY BoundsAssumption DEF TablesInv
<1> QED BY <1>1, RefsGrow

\* Pinned revisions, and what they say of their source, stay.
LEMMA PinsStay ==
    ASSUME TablesInv, TablesInv', GrownAssets, GrownPlans, NEW p \in Plans, NEW n \in 1..Version(p)
    PROVE  /\ n \in 1..Version(p)' /\ revisions'[p][n] = revisions[p][n]
           /\ OnHost(assets', revisions'[p][n].pins) <=> OnHost(assets, revisions[p][n].pins)
<1>1. Version(p) \in Nat /\ Version(p)' \in Nat
  BY DEF TablesInv
<1>2. n \in 1..Version(p)' /\ revisions'[p][n] = revisions[p][n]
  BY <1>1 DEF GrownPlans
<1>3. Refs(assets, revisions[p][n].pins)
  BY DEF TablesInv
<1> QED BY <1>2, <1>3, RefsStay

\* What thread t does leaves the rest of the pool as it is.
Apart(t) ==
    /\ TablesInv' /\ GrownAssets /\ GrownPlans /\ PoolInv'
    /\ \A u \in Threads \ {t} : pc'[u] = pc[u] /\ req'[u] = req[u] /\ answer'[u] = answer[u]
    /\ \A p \in Plans : locks'[p] = locks[p] \/ {locks[p], locks'[p]} \subseteq {Nobody, t}
    /\ \A p \in Plans : locks[p] \notin {Nobody, t} => revisions'[p] = revisions[p]
    /\ \A row \in Rowset : row[3] # t => (row \in pending' <=> row \in pending)
    /\ pending' \subseteq Rowset

\* The rows that are new are those that thread t has inserted.
Commits(t, op, old, new) ==
    /\ IsFiniteSet(new) /\ Cardinality(old) <= Cardinality(new)
    /\ \A row \in new \ old : Inserted(t) /\ req[t].op = op /\ row.key = req[t].key

Dispatches(t) ==
    \A op \in {"execute", "run"}, id \in 1..MaxRequests :
        \/ dispatched'[<<op, id>>] = dispatched[<<op, id>>]
        \/ pc[t] = "dispatch" /\ req[t].op = op /\ answer[t][2] = id

LEMMA ReadersKeep ==
    ASSUME PlanInv, NEW t, Apart(t), NEW u \in Threads, u # t
    PROVE  Reader(u)'
<1>1. Reader(u) /\ Shape(req[u], pc[u]) /\ pc'[u] = pc[u] /\ req'[u] = req[u]
  BY DEF PlanInv, Thread, Apart
<1>2. \A p \in Plans : Version(p) \in Nat /\ Version(p)' \in Nat /\ Version(p)' >= Version(p)
  BY DEF PlanInv, TablesInv, Apart, GrownPlans
<1>3. CASE req[u] \in Updates
  BY <1>1, <1>2, <1>3 DEF Reader, Updates
<1>4. CASE req[u] \in Executes
  <2>1. req[u].plan \in Plans /\ req[u].op = "execute" /\ req[u].checked \in 0..Version(req[u].plan)
    BY <1>1, <1>4 DEF Executes, Reader
  <2>2. req[u].checked # 0 =>
          (OnHost(assets', revisions'[req[u].plan][req[u].checked].pins)
             <=> OnHost(assets, revisions[req[u].plan][req[u].checked].pins))
    BY <2>1, <1>2, PinsStay DEF PlanInv, Apart
  <2>3. Version(req[u].plan)' = Len(revisions'[req'[u].plan])
    BY <1>1 DEF Version
  <2> QED BY <1>1, <1>2, <2>1, <2>2, <2>3 DEF Reader, Version
<1>5. CASE req[u] = NoRequest \/ req[u] \in Creates \/ req[u] \in Flushed \/ req[u] \in RunRequests
  BY <1>1, <1>5 DEF Reader, NoRequest, Creates, Flushed, RunRequests, Shape, Updates, Executes
<1> QED BY <1>1, <1>3, <1>4, <1>5 DEF Shape

LEMMA WritersKeep ==
    ASSUME PlanInv, NEW t, Apart(t), NEW u \in Threads, u # t
    PROVE  Writer(u)' /\ Owner(u)'
<1>1. Writer(u) /\ Owner(u) /\ Shape(req[u], pc[u]) /\ pc'[u] = pc[u] /\ req'[u] = req[u] /\ u # Nobody
  BY ThreadsAssumption DEF PlanInv, Thread, Apart
<1>2. \A p \in Plans : (locks'[p] = u <=> locks[p] = u) /\ (locks[p] = u => revisions'[p] = revisions[p])
  BY <1>1 DEF Apart
<1>3. Owner(u)'
  BY <1>1, <1>2 DEF Owner, Updating, Executing
<1>4. Updating(u) \/ Executing(u) => req[u].plan \in Plans
  BY <1>1 DEF Updating, Executing, Shape, NoRequest, Creates, Updates, Flushed, Executes, RunRequests
<1>5. ASSUME Updating(u) PROVE Writer(u)'
  <2>1. Refs(assets, req[u].new.pins)
    BY <1>1, <1>5 DEF Writer
  <2>2. Refs(assets', req[u].new.pins)
    BY <2>1, RefsStay DEF PlanInv, Apart
  <2>3. locks[req[u].plan] = u
    BY <1>1, <1>5 DEF Writer
  <2>4. revisions'[req[u].plan] = revisions[req[u].plan] /\ locks'[req[u].plan] = u
    BY <1>2, <1>4, <1>5, <2>3
  <2> QED BY <1>1, <1>5, <2>2, <2>4 DEF Writer, Updating, Executing, Version, Repository!PlanTransition
<1>6. ASSUME Executing(u) PROVE Writer(u)'
  <2>1. locks[req[u].plan] = u
    BY <1>1, <1>6 DEF Writer
  <2>2. revisions'[req[u].plan] = revisions[req[u].plan] /\ locks'[req[u].plan] = u
    BY <1>2, <1>4, <1>6, <2>1
  <2> QED BY <1>1, <1>6, <2>2 DEF Writer, Updating, Executing, Version
<1>7. ~Updating(u) /\ ~Executing(u) => Writer(u)'
  BY <1>1 DEF Writer, Updating, Executing
<1> QED BY <1>3, <1>5, <1>6, <1>7

LEMMA InsertersKeep ==
    ASSUME PlanInv, NEW t \in Threads, Apart(t), NEW u \in Threads, u # t,
           Commits(t, "execute", batches, batches'), Commits(t, "run", runs, runs')
    PROVE  Inserter(u)'
<1>1. Inserter(u) /\ Shape(req[u], pc[u]) /\ pc'[u] = pc[u] /\ req'[u] = req[u]
  BY DEF PlanInv, Thread, Apart
<1>2. ASSUME Inserted(u)
      PROVE  \A x \in Table(req[u].op)' : x.key = req[u].key => req[u].key = NoKey
  <2>1. <<req[u].op, req[u].key, u>> \in pending
    BY <1>1, <1>2 DEF Inserter
  <2>2. Inserted(t) => <<req[t].op, req[t].key, t>> \in pending
    BY DEF PlanInv, Thread, Inserter
  <2>3. Inserted(t) /\ req[t].op = req[u].op /\ req[t].key = req[u].key => req[u].key = NoKey
    BY <2>1, <2>2 DEF PlanInv, PendingInv
  <2>4. CASE req[u].op = "execute"
    <3>1. \A x \in batches : x.key = req[u].key => req[u].key = NoKey
      BY <1>1, <1>2, <2>4 DEF Inserter, Table
    <3>2. \A x \in batches' : x.key = req[u].key => req[u].key = NoKey
      BY <2>3, <2>4, <3>1 DEF Commits
    <3> QED BY <1>1, <2>4, <3>2 DEF Table
  <2>5. CASE req[u].op = "run"
    <3>1. \A x \in runs : x.key = req[u].key => req[u].key = NoKey
      BY <1>1, <1>2, <2>5 DEF Inserter, Table
    <3>2. \A x \in runs' : x.key = req[u].key => req[u].key = NoKey
      BY <2>3, <2>5, <3>1 DEF Commits
    <3> QED BY <1>1, <2>5, <3>2 DEF Table
  <2> QED BY <1>2, <2>4, <2>5 DEF Inserted
<1>3. Inserted(u) => <<req[u].op, req[u].key, u>> \in pending'
  <2> SUFFICES ASSUME Inserted(u) PROVE <<req[u].op, req[u].key, u>> \in pending'
    OBVIOUS
  <2>1. <<req[u].op, req[u].key, u>> \in pending
    BY <1>1 DEF Inserter
  <2>2. <<req[u].op, req[u].key, u>> \in Rowset
    BY <2>1 DEF PlanInv, PendingInv
  <2> QED BY <2>1, <2>2 DEF Apart
<1>4. ASSUME NEW row \in pending', row[3] = u
      PROVE  Inserted(u) /\ row[1] = req[u].op /\ row[2] = req[u].key
  <2>1. row \in pending
    BY <1>4 DEF Apart
  <2> QED BY <1>1, <1>4, <2>1 DEF Inserter
<1>5. Inserted(u)' <=> Inserted(u)
  BY <1>1 DEF Inserted
<1> QED BY <1>1, <1>2, <1>3, <1>4, <1>5 DEF Inserter, Table

LEMMA DispatchersKeep ==
    ASSUME PlanInv, NEW t \in Threads, Apart(t), NEW u \in Threads, u # t, Dispatches(t),
           Commits(t, "execute", batches, batches'), Commits(t, "run", runs, runs')
    PROVE  Dispatcher(u)'
<1>1. /\ Dispatcher(u) /\ pc'[u] = pc[u] /\ req'[u] = req[u] /\ answer'[u] = answer[u]
      /\ Shape(req[u], pc[u])
  BY DEF PlanInv, Thread, Apart
<1> SUFFICES ASSUME pc[u] = "dispatch"
             PROVE  /\ answer[u][2] \in 1..Cardinality(Table(req[u].op)')
                    /\ dispatched'[<<req[u].op, answer[u][2]>>] = 0
  BY <1>1 DEF Dispatcher, Table
<1>2. req[u].op \in {"execute", "run"}
  BY <1>1 DEF Shape, NoRequest, Creates, Updates, Flushed, Executes, RunRequests
<1>3. /\ Cardinality(batches) \in Nat /\ Cardinality(runs) \in Nat
      /\ Cardinality(batches') \in Nat /\ Cardinality(runs') \in Nat
      /\ Cardinality(batches) <= Cardinality(batches') /\ Cardinality(runs) <= Cardinality(runs')
      /\ Cardinality(batches) <= MaxRequests /\ Cardinality(runs) <= MaxRequests
  <2>1. /\ Cardinality(batches) \in Nat /\ Cardinality(runs) \in Nat
        /\ Cardinality(batches') \in Nat /\ Cardinality(runs') \in Nat /\ Cardinality(Serving) \in Nat
    BY FS_CardinalityType DEF PlanInv, RowsInv, Numbered, Commits, Budget
  <2> QED BY <2>1, BoundsAssumption DEF PlanInv, Budget, Commits
<1>4. Table(req[u].op)' = IF req[u].op = "execute" THEN batches' ELSE runs'
  BY <1>1 DEF Table
<1>5. answer[u][2] \in 1..Cardinality(Table(req[u].op)) /\ dispatched[<<req[u].op, answer[u][2]>>] = 0
  BY <1>1 DEF Dispatcher
<1>6. answer[u][2] \in 1..Cardinality(Table(req[u].op)') /\ answer[u][2] \in 1..MaxRequests
  <2>1. CASE req[u].op = "execute"
    <3>1. Table(req[u].op) = batches
      BY <2>1 DEF Table
    <3>2. Table(req[u].op)' = batches'
      BY <2>1, <1>4
    <3> QED BY <3>1, <3>2, <1>3, <1>5, BoundsAssumption
  <2>2. CASE req[u].op = "run"
    <3>1. Table(req[u].op) = runs
      BY <2>2 DEF Table
    <3>2. Table(req[u].op)' = runs'
      BY <2>2, <1>4
    <3> QED BY <3>1, <3>2, <1>3, <1>5, BoundsAssumption
  <2> QED BY <1>2, <2>1, <2>2
<1>7. ~(pc[t] = "dispatch" /\ req[t].op = req[u].op /\ answer[t][2] = answer[u][2])
  BY DEF PlanInv, DispatchInv
<1>8. dispatched'[<<req[u].op, answer[u][2]>>] = dispatched[<<req[u].op, answer[u][2]>>]
  BY <1>2, <1>6, <1>7 DEF Dispatches
<1> QED BY <1>5, <1>6, <1>8

LEMMA OthersKeep ==
    ASSUME PlanInv, NEW t \in Threads, Apart(t), Dispatches(t),
           Commits(t, "execute", batches, batches'), Commits(t, "run", runs, runs')
    PROVE  \A u \in Threads \ {t} : Thread(u)'
<1> SUFFICES ASSUME NEW u \in Threads, u # t PROVE Thread(u)'
  OBVIOUS
<1>1. Shape(req[u], pc[u])' /\ Spoken(answer[u])'
  <2>1. pc'[u] = pc[u] /\ req'[u] = req[u] /\ answer'[u] = answer[u]
    BY DEF Apart
  <2> QED BY <2>1 DEF PlanInv, Thread, Shape, NoRequest, Creates, Updates, Flushed, Executes, RunRequests, Spoken
<1> QED BY <1>1, ReadersKeep, WritersKeep, InsertersKeep, DispatchersKeep DEF Thread

LEMMA Assemble ==
    ASSUME PlanInv, NEW t \in Threads, Apart(t), Dispatches(t),
           Commits(t, "execute", batches, batches'), Commits(t, "run", runs, runs'),
           RowsInv', PendingInv', DispatchInv', Budget', Thread(t)'
    PROVE  PlanInv'
<1>1. \A u \in Threads : Thread(u)'
  BY OthersKeep
<1> QED BY <1>1 DEF PlanInv, Apart

-----------------------------------------------------------------------------
(* Parts of steps *)

LEMMA CurrentIs == \A p \in Plans : Repository!Current(p) = revisions[p][Version(p)]
BY DEF Repository!Current, Repository!Last, Version

LEMMA PinsAre ==
    ASSUME TablesInv, NEW pins \in Repository!Pins
    PROVE  pins \in [Assets -> Nat] /\ Refs(assets, pins)
<1>1. assets["script"] \in Seq(Repository!AssetRevision) /\ assets["environment"] \in Seq(Repository!AssetRevision)
  BY DEF TablesInv, Assets, Repository!Assets
<1>2. Repository!References(pins) /\ pins \in [Assets -> Nat]
  <2> DEFINE most == Len(assets["script"]) + Len(assets["environment"])
  <2>1. most \in Nat
    <3>1. Len(assets["script"]) \in Nat /\ Len(assets["environment"]) \in Nat
      BY <1>1
    <3>2. \A m, n \in Nat : m + n \in Nat
      OBVIOUS
    <3> QED BY <3>1, <3>2, Zenon
  <2>2. Repository!References(pins) /\ pins \in [Assets -> 0..most]
    BY DEF Repository!Pins, Assets
  <2> HIDE DEF most
  <2> QED BY <2>1, <2>2
<1> QED BY <1>1, <1>2 DEF Repository!References, Repository!ActiveRevision, Refs

LEMMA SameTables ==
    ASSUME PlanInv, UNCHANGED <<assets, revisions>>
    PROVE  TablesInv' /\ GrownAssets /\ GrownPlans
<1>1. (\A a \in Assets : Len(assets[a]) \in Nat) /\ (\A p \in Plans : Version(p) \in Nat /\ Version(p)' = Version(p))
  BY DEF PlanInv, TablesInv, Version
<1>2. GrownAssets /\ GrownPlans
  BY <1>1 DEF GrownAssets, GrownPlans
<1>3. TablesInv'
  BY DEF PlanInv, TablesInv, Version
<1> QED BY <1>2, <1>3

LEMMA SameRows ==
    ASSUME PlanInv, TablesInv', GrownAssets, GrownPlans, UNCHANGED <<batches, runs>>, NEW t
    PROVE  /\ RowsInv'
           /\ Commits(t, "execute", batches, batches') /\ Commits(t, "run", runs, runs')
<1>1. ASSUME NEW b \in batches PROVE BatchRow(b)'
  <2>1. BatchRow(b) /\ b.body[1] \in Plans
    BY DEF PlanInv, RowsInv, BatchRow
  <2>2. /\ b.body[2] \in 1..Version(b.body[1])'
        /\ revisions'[b.body[1]][b.body[2]] = revisions[b.body[1]][b.body[2]]
    BY <2>1, PinsStay DEF PlanInv, BatchRow
  <2>3. Version(b.body[1]) \in Nat /\ Version(b.body[1])' \in Nat /\ Version(b.body[1])' >= Version(b.body[1])
    BY <2>1 DEF PlanInv, TablesInv, GrownPlans
  <2>4. b.checked \in 0..Version(b.body[1])'
    BY <2>1, <2>3 DEF BatchRow
  <2>5. b.checked # 0 =>
          (OnHost(assets', revisions'[b.body[1]][b.checked].pins)
             <=> OnHost(assets, revisions[b.body[1]][b.checked].pins))
    BY <2>1, <2>3, PinsStay DEF PlanInv, BatchRow
  <2> QED BY <2>1, <2>2, <2>4, <2>5 DEF BatchRow
<1>2. RowsInv'
  BY <1>1 DEF PlanInv, RowsInv, Numbered, OneRowPerKey
<1>3. Cardinality(batches) \in Nat /\ Cardinality(runs) \in Nat
  BY FS_CardinalityType DEF PlanInv, RowsInv, Numbered
<1> QED BY <1>2, <1>3 DEF Commits, PlanInv, RowsInv, Numbered

\* Thread t goes to another place.
Moves(t) ==
    /\ DOMAIN pc' = Threads /\ DOMAIN req' = Threads /\ DOMAIN answer' = Threads
    /\ \A u \in Threads \ {t} : pc'[u] = pc[u] /\ req'[u] = req[u] /\ answer'[u] = answer[u]

Fails == faults' = faults \/ (faults < MaxFaults /\ faults' = faults + 1)

LEMMA BudgetKeeps ==
    ASSUME PlanInv, NEW t \in Threads, Moves(t), UNCHANGED <<batches, runs>>, Fails,
           \/ /\ requests' = requests
              /\ pc[t] \notin {"idle", "dispatch"} \/ pc'[t] \in {"idle", "dispatch"}
           \/ requests < MaxRequests /\ requests' = requests + 1
    PROVE  Budget'
<1>1. /\ Cardinality(batches) \in Nat /\ Cardinality(runs) \in Nat
      /\ IsFiniteSet(Serving) /\ Cardinality(Serving) \in Nat
      /\ requests \in Nat /\ faults \in Nat
  BY FS_CardinalityType DEF PlanInv, RowsInv, Numbered, Budget
<1>2. faults' \in 0..MaxFaults /\ requests' \in 0..MaxRequests
  BY <1>1, BoundsAssumption DEF PlanInv, Budget, Fails
<1>3. CASE requests' = requests /\ (pc[t] \notin {"idle", "dispatch"} \/ pc'[t] \in {"idle", "dispatch"})
  <2>1. Serving' \subseteq Serving
    BY <1>3 DEF Serving, Moves
  <2>2. IsFiniteSet(Serving') /\ Cardinality(Serving') <= Cardinality(Serving) /\ Cardinality(Serving') \in Nat
    BY <1>1, <2>1, FS_Subset, FS_CardinalityType
  <2> QED BY <1>1, <1>2, <1>3, <2>2 DEF PlanInv, Budget
<1>4. CASE requests' = requests + 1
  <2>1. Serving' \subseteq Serving \cup {t}
    BY DEF Serving, Moves
  <2>2. IsFiniteSet(Serving \cup {t}) /\ Cardinality(Serving \cup {t}) <= Cardinality(Serving) + 1
    BY <1>1, FS_AddElement
  <2>3. /\ IsFiniteSet(Serving') /\ Cardinality(Serving') <= Cardinality(Serving \cup {t})
        /\ Cardinality(Serving') \in Nat /\ Cardinality(Serving \cup {t}) \in Nat
    BY <2>1, <2>2, FS_Subset, FS_CardinalityType
  <2> QED BY <1>1, <1>2, <1>4, <2>2, <2>3 DEF PlanInv, Budget
<1> QED BY <1>3, <1>4

\* What a thread does to the locks of plans and to the rows not yet committed.
Locking(t) ==
    \/ locks' = locks
    \/ Unlock(t)
    \/ \E p \in Plans : ~Held(p) /\ locks' = [locks EXCEPT ![p] = t]
Inserts(t) ==
    \/ pending' = pending
    \/ Committed(t)
    \/ \E op \in {"execute", "run"}, k \in Keys \cup {NoKey} :
          /\ \A row \in pending : row[1] = op /\ row[2] = k => k = NoKey
          /\ pending' = pending \cup {<<op, k, t>>}

LEMMA PendingKeeps ==
    ASSUME PlanInv, NEW t \in Threads, Inserts(t)
    PROVE  /\ PendingInv'
           /\ \A row \in Rowset : row[3] # t => (row \in pending' <=> row \in pending)
<1>1. CASE pending' = pending
  BY <1>1 DEF PlanInv, PendingInv, Rowset
<1>2. CASE Committed(t)
  BY <1>2 DEF PlanInv, PendingInv, Rowset, Committed
<1>3. ASSUME NEW op \in {"execute", "run"}, NEW k \in Keys \cup {NoKey},
             \A row \in pending : row[1] = op /\ row[2] = k => k = NoKey,
             pending' = pending \cup {<<op, k, t>>}
      PROVE  /\ PendingInv'
             /\ \A row \in Rowset : row[3] # t => (row \in pending' <=> row \in pending)
  <2> DEFINE new == <<op, k, t>>
  <2>1. new \in Rowset /\ new[1] = op /\ new[2] = k /\ new[3] = t
    BY DEF Rowset
  <2> HIDE DEF new
  <2>2. pending' = pending \cup {new}
    BY <1>3 DEF new
  <2>3. pending' \subseteq Rowset
    BY <2>1, <2>2 DEF PlanInv, PendingInv
  <2>4. \A x, y \in pending' : x[1] = y[1] /\ x[2] = y[2] /\ x[2] # NoKey => x[3] = y[3]
    BY <1>3, <2>1, <2>2 DEF PlanInv, PendingInv
  <2> QED BY <2>1, <2>2, <2>3, <2>4 DEF PendingInv, Rowset
<1> QED BY <1>1, <1>2, <1>3 DEF Inserts

LEMMA LocksKeep ==
    ASSUME PlanInv, NEW t \in Threads, Locking(t)
    PROVE  /\ locks' \in [Plans -> Threads \cup {Nobody}]
           /\ \A p \in Plans : locks'[p] = locks[p] \/ {locks[p], locks'[p]} \subseteq {Nobody, t}
BY DEF PlanInv, PoolInv, Locking, Unlock, Held

\* A thread does something with the tables' rows left alone.
LEMMA RowlessStep ==
    ASSUME PlanInv, NEW t \in Threads, Moves(t), Locking(t), Inserts(t), Fails,
           TablesInv', GrownAssets, GrownPlans, UNCHANGED <<batches, runs, dispatched>>,
           \A p \in Plans : locks[p] \notin {Nobody, t} => revisions'[p] = revisions[p],
           \/ requests' = requests /\ (pc[t] \notin {"idle", "dispatch"} \/ pc'[t] \in {"idle", "dispatch"})
           \/ requests < MaxRequests /\ requests' = requests + 1,
           pc'[t] # "dispatch", Thread(t)'
    PROVE  PlanInv'
<1>1. Apart(t)
  <2>1. PoolInv'
    BY LocksKeep DEF PoolInv, Moves
  <2> QED BY <2>1, LocksKeep, PendingKeeps DEF Apart, Moves, PendingInv
<1>2. RowsInv' /\ Commits(t, "execute", batches, batches') /\ Commits(t, "run", runs, runs')
  BY SameRows
<1>3. Dispatches(t)
  BY DEF Dispatches
<1>4. DispatchInv'
  <2>1. \A op : Table(op)' = Table(op)
    BY DEF Table
  <2>2. \A u \in Threads : pc'[u] = "dispatch" => u # t /\ pc[u] = "dispatch" /\ req'[u] = req[u] /\ answer'[u] = answer[u]
    BY DEF Moves
  <2> QED BY <2>1, <2>2 DEF PlanInv, DispatchInv, Table
<1>5. Budget'
  BY BudgetKeeps
<1> QED BY <1>1, <1>2, <1>3, <1>4, <1>5, PendingKeeps, Assemble

\* A thread answers and is free.
LEMMA ReturnStep ==
    ASSUME PlanInv, NEW t \in Threads, NEW a, Spoken(a), Return(t, a), Fails,
           TablesInv', GrownAssets, GrownPlans, UNCHANGED <<batches, runs, dispatched, requests>>,
           \A p \in Plans : locks[p] \notin {Nobody, t} => revisions'[p] = revisions[p],
           (locks' = locks /\ ~Updating(t) /\ ~Executing(t)) \/ Unlock(t),
           (pending' = pending /\ ~Inserted(t)) \/ Committed(t)
    PROVE  PlanInv'
<1>1. Moves(t) /\ pc'[t] = "idle" /\ req'[t] = NoRequest /\ answer'[t] = a
  BY DEF PlanInv, PoolInv, Return, Answer, Goto, Moves
<1>2. Locking(t) /\ Inserts(t)
  BY DEF Locking, Inserts
<1>3. \A p \in Plans : locks'[p] # t
  BY ThreadsAssumption DEF PlanInv, Thread, Owner, Unlock
<1>4. \A row \in pending' : row[3] # t
  BY DEF PlanInv, Thread, Inserter, Committed
<1>5. NoRequest.op = "none"
  BY DEF NoRequest
<1>6. Shape(req[t], pc[t])' /\ Spoken(answer[t])'
  <2>1. Shape(NoRequest, "idle")
    BY DEF Shape
  <2> QED BY <1>1, <2>1 DEF Shape, Spoken, NoRequest, Creates, Updates, Flushed, Executes, RunRequests
<1>7. Reader(t)' /\ Writer(t)' /\ Dispatcher(t)'
  BY <1>1, <1>5 DEF Reader, Writer, Dispatcher, Updating, Executing
<1>8. Owner(t)' /\ Inserter(t)'
  BY <1>1, <1>3, <1>4, <1>5 DEF Owner, Inserter, Inserted
<1>9. Thread(t)'
  BY <1>6, <1>7, <1>8 DEF Thread
<1>10. pc'[t] \in {"idle", "dispatch"} /\ pc'[t] # "dispatch"
  BY <1>1
<1> QED BY <1>1, <1>2, <1>9, <1>10, RowlessStep

LEMMA QuietReturn ==
    ASSUME PlanInv, NEW t \in Threads, NEW a, Spoken(a), Return(t, a), Fails,
           UNCHANGED <<tables, dispatched, requests>>,
           (locks' = locks /\ ~Updating(t) /\ ~Executing(t)) \/ Unlock(t),
           (pending' = pending /\ ~Inserted(t)) \/ Committed(t)
    PROVE  PlanInv'
<1>1. UNCHANGED <<assets, revisions, batches, runs>>
  BY DEF tables
<1> QED BY <1>1, SameTables, ReturnStep

-----------------------------------------------------------------------------
(* The steps *)

LEMMA Words ==
    /\ \A w \in {"none", "saved", "conflict", "refused"} : Spoken(Repository!Says(w))
    /\ \A row, body : row.id \in 1..MaxRequests => Spoken(Repository!Replayed(row, body))
<1>1. \A w : Repository!Says(w) = <<w, 0>>
  BY DEF Repository!Says
<1> QED BY <1>1 DEF Spoken, Repository!Replayed

LEMMA FewRows ==
    ASSUME PlanInv
    PROVE  /\ Cardinality(batches) \in 0..MaxRequests /\ Cardinality(runs) \in 0..MaxRequests
           /\ \A row \in batches \cup runs : row.id \in 1..MaxRequests
<1>1. /\ Cardinality(batches) \in Nat /\ Cardinality(runs) \in Nat /\ Cardinality(Serving) \in Nat
  BY FS_CardinalityType DEF PlanInv, RowsInv, Numbered, Budget
<1>2. Cardinality(batches) \in 0..MaxRequests /\ Cardinality(runs) \in 0..MaxRequests
  BY <1>1, BoundsAssumption DEF PlanInv, Budget
<1> QED BY <1>2, BoundsAssumption DEF PlanInv, RowsInv, Numbered

\* A new request: the thread has read, holds and has inserted nothing.
LEMMA ReceiveStep ==
    ASSUME PlanInv, NEW t \in Threads, NEW r, NEW l, Receive(t, r, l), Shape(r, l),
           l \in {"write", "lookup", "override"},
           r \in Updates => r.expected \in 1..Version(r.plan),
           r \in Executes => /\ Version(r.plan) >= 1 /\ r.checked = 0
                             /\ l = "override" => r.target # "none"
    PROVE  PlanInv'
<1>1. /\ Moves(t) /\ pc'[t] = l /\ req'[t] = r /\ answer'[t] = Repository!Says("none") /\ pc[t] = "idle"
      /\ UNCHANGED <<assets, revisions, batches, runs, locks, pending, dispatched, faults>>
      /\ requests < MaxRequests /\ requests' = requests + 1
  BY DEF PlanInv, PoolInv, Receive, Answer, Goto, Moves, tables, transactions
<1>2. Locking(t) /\ Inserts(t) /\ Fails
  BY <1>1 DEF Locking, Inserts, Fails
<1>3. TablesInv' /\ GrownAssets /\ GrownPlans
  BY <1>1, SameTables
<1>4. Thread(t)'
  <2>1. Shape(req[t], pc[t])' /\ Spoken(answer[t])'
    <3>1. Spoken(answer'[t])
      BY <1>1, Words
    <3> QED BY <1>1, <3>1 DEF Shape, NoRequest, Creates, Updates, Flushed, Executes, RunRequests, Spoken
  <2>2. Reader(t)'
    <3>1. r.op = "update" => r \in Updates
      BY DEF Shape, NoRequest, Creates, Updates, Flushed, Executes, RunRequests
    <3>2. r.op = "execute" => r \in Executes
      BY DEF Shape, NoRequest, Creates, Updates, Flushed, Executes, RunRequests
    <3>3. r \in Executes => r.plan \in Plans /\ r.checked \in 0..Version(r.plan)
      BY DEF PlanInv, TablesInv, Executes
    <3> QED BY <1>1, <3>1, <3>2, <3>3 DEF Reader, Version
  <2>3. ~Updating(t) /\ ~Executing(t) /\ ~Inserted(t)
    BY <1>1 DEF Updating, Executing, Inserted
  <2>4. Owner(t)' /\ Inserter(t)'
    <3>1. (\A p \in Plans : locks[p] # t) /\ \A row \in pending : row[3] # t
      BY <2>3 DEF PlanInv, Thread, Owner, Inserter
    <3> QED BY <1>1, <3>1 DEF Owner, Inserter, Inserted
  <2>5. Writer(t)' /\ Dispatcher(t)'
    BY <1>1 DEF Writer, Dispatcher, Updating, Executing
  <2> QED BY <2>1, <2>2, <2>4, <2>5 DEF Thread
<1> QED BY <1>1, <1>2, <1>3, <1>4, RowlessStep

LEMMA RequestSteps ==
    ASSUME PlanInv, NEW t \in Threads,
           CreatePlanRequest(t) \/ UpdatePlanRequest(t) \/ ExecuteRequest(t) \/ CreateRunRequest(t)
    PROVE  PlanInv'
<1>0. \A p \in Plans : Version(p) \in Nat /\ (revisions[p] # <<>> => Version(p) >= 1)
  BY DEF PlanInv, TablesInv, Version
<1>1. ASSUME NEW p \in Plans, Receive(t, [op |-> "create", plan |-> p], "write") PROVE PlanInv'
  <2> DEFINE r == [op |-> "create", plan |-> p]
  <2>1. r \in Creates /\ r.op = "create"
    BY DEF Creates
  <2> HIDE DEF r
  <2>2. Shape(r, "write") /\ r \notin Updates /\ r \notin Executes
    BY <2>1 DEF Shape, Updates, Executes
  <2> QED BY <1>1, <2>2, ReceiveStep DEF r
<1>2. ASSUME NEW p \in Plans, revisions[p] # <<>>,
             Receive(t, [op |-> "update", plan |-> p, expected |-> Version(p)], "write")
      PROVE  PlanInv'
  <2> DEFINE r == [op |-> "update", plan |-> p, expected |-> Version(p)]
  <2>1. r \in Updates /\ r.op = "update" /\ r.expected \in 1..Version(r.plan)
    BY <1>0, <1>2 DEF Updates
  <2> HIDE DEF r
  <2>2. Shape(r, "write") /\ r \notin Executes
    BY <2>1 DEF Shape, Executes
  <2> QED BY <1>2, <2>1, <2>2, ReceiveStep DEF r
<1>3. ASSUME NEW p \in Plans, NEW k \in Keys, NEW target \in Targets, revisions[p] # <<>>,
             Receive(t, [op |-> "execute", plan |-> p, key |-> k, target |-> target,
                         source |-> "pinned", checked |-> 0, seen |-> <<p, 0>>],
                     IF target = "none" THEN "lookup" ELSE "override")
      PROVE  PlanInv'
  <2> DEFINE r == [op |-> "execute", plan |-> p, key |-> k, target |-> target,
                   source |-> "pinned", checked |-> 0, seen |-> <<p, 0>>]
             l == IF target = "none" THEN "lookup" ELSE "override"
  <2>1. r \in Executes /\ r.op = "execute" /\ Version(r.plan) >= 1 /\ r.checked = 0
    BY <1>0, <1>3 DEF Executes
  <2>2. l \in {"lookup", "override"} /\ Receive(t, r, l) /\ (l = "override" => r.target # "none")
    BY <1>3
  <2> HIDE DEF r, l
  <2>3. Shape(r, l) /\ r \notin Updates
    BY <2>1, <2>2 DEF Shape, Updates
  <2> QED BY <2>1, <2>2, <2>3, ReceiveStep
<1>4. ASSUME NEW k \in Keys \cup {NoKey}, NEW f \in Fingerprints,
             Receive(t, [op |-> "run", key |-> k, body |-> f], "lookup")
      PROVE  PlanInv'
  <2> DEFINE r == [op |-> "run", key |-> k, body |-> f]
  <2>1. r \in RunRequests /\ r.op = "run"
    BY DEF RunRequests
  <2> HIDE DEF r
  <2>2. Shape(r, "lookup") /\ r \notin Updates /\ r \notin Executes
    BY <2>1 DEF Shape, Updates, Executes
  <2> QED BY <1>4, <2>2, ReceiveStep DEF r
<1> QED BY <1>1, <1>2, <1>3, <1>4
        DEF CreatePlanRequest, UpdatePlanRequest, ExecuteRequest, CreateRunRequest

\* What a thread serves, from where it is.
LEMMA Serves ==
    ASSUME PlanInv, NEW t \in Threads
    PROVE  /\ req[t].op = "create" => req[t] \in Creates
           /\ req[t].op = "update" /\ pc[t] = "write" => req[t] \in Updates
           /\ req[t].op = "update" /\ pc[t] = "commit" => req[t] \in Flushed
           /\ req[t].op = "execute" => req[t] \in Executes
           /\ req[t].op = "run" => req[t] \in RunRequests
           /\ pc[t] \in {"insert", "resolve", "dispatch"} => req[t].op \in {"execute", "run"}
BY DEF PlanInv, Thread, Shape, NoRequest, Creates, Updates, Flushed, Executes, RunRequests

LEMMA PlanGrows ==
    ASSUME PlanInv, NEW p \in Plans, NEW v \in Repository!PlanRevision, Refs(assets, v.pins),
           Version(p) < MaxRevision, assets' = assets,
           revisions' = [revisions EXCEPT ![p] = Append(@, v)]
    PROVE  TablesInv' /\ GrownAssets /\ GrownPlans
<1>1. revisions[p] \in Seq(Repository!PlanRevision) /\ Version(p) \in Nat
  BY DEF PlanInv, TablesInv
<1>2. /\ revisions'[p] = Append(revisions[p], v) /\ revisions'[p] \in Seq(Repository!PlanRevision)
      /\ Version(p)' = Version(p) + 1 /\ revisions'[p][Version(p) + 1] = v
      /\ \A n \in 1..Version(p) : revisions'[p][n] = revisions[p][n]
  BY <1>1 DEF PlanInv, TablesInv, Version
<1>3. \A q \in Plans \ {p} : revisions'[q] = revisions[q] /\ Version(q)' = Version(q) /\ Version(q) \in Nat
  BY DEF PlanInv, TablesInv, Version
<1>4. GrownAssets
  BY DEF GrownAssets, PlanInv, TablesInv
<1>5. GrownPlans
  <2>1. ASSUME NEW q \in Plans
        PROVE  Version(q)' >= Version(q) /\ \A n \in 1..Version(q) : revisions'[q][n] = revisions[q][n]
    <3>1. CASE q = p
      BY <1>1, <1>2, <3>1 DEF Version
    <3>2. CASE q # p
      BY <1>3, <3>2
    <3> QED BY <3>1, <3>2
  <2> QED BY <2>1 DEF GrownPlans
<1>6. revisions' \in [Plans -> Seq(Repository!PlanRevision)]
  BY <1>2 DEF PlanInv, TablesInv
<1>7. \A q \in Plans : Version(q)' \in 0..MaxRevision
  BY <1>1, <1>2, <1>3, BoundsAssumption DEF PlanInv, TablesInv
<1>8. ASSUME NEW q \in Plans, NEW n \in 1..Version(q)' PROVE Refs(assets, revisions'[q][n].pins)
  <2>1. CASE q = p
    <3>1. n = Version(p) + 1 \/ n \in 1..Version(p)
      BY <1>1, <1>2, <2>1
    <3> QED BY <2>1, <3>1, <1>2 DEF PlanInv, TablesInv
  <2>2. CASE q # p
    BY <2>2, <1>3 DEF PlanInv, TablesInv
  <2> QED BY <2>1, <2>2
<1> QED BY <1>4, <1>5, <1>6, <1>7, <1>8 DEF PlanInv, TablesInv

LEMMA CreatePlanStep ==
    ASSUME PlanInv, NEW t \in Threads, CreatePlan(t)
    PROVE  PlanInv'
<1> DEFINE p == req[t].plan
<1>1. p \in Plans /\ req[t].op = "create" /\ pc[t] = "write" /\ revisions[p] = <<>>
  BY Serves DEF CreatePlan, At, Creates
<1>2. PICK pins \in Repository!Pins :
        revisions' = [revisions EXCEPT ![p] = <<[status |-> "DRAFT", pins |-> pins, base |-> 0]>>]
  BY DEF CreatePlan
<1> DEFINE v == [status |-> "DRAFT", pins |-> pins, base |-> 0]
<1>3. v \in Repository!PlanRevision /\ Refs(assets, v.pins)
  BY PinsAre DEF PlanInv, Repository!PlanRevision, Assets
<1>4. Version(p) = 0 /\ <<v>> = Append(revisions[p], v)
  BY <1>1 DEF Version
<1>5. revisions' = [revisions EXCEPT ![p] = Append(@, v)]
  BY <1>2, <1>4
<1> HIDE DEF p, v
<1>6. TablesInv' /\ GrownAssets /\ GrownPlans
  <2>1. Version(p) < MaxRevision /\ assets' = assets
    BY <1>4, BoundsAssumption DEF CreatePlan
  <2> QED BY <2>1, <1>1, <1>3, <1>5, PlanGrows
<1>7. ASSUME NEW q \in Plans, locks[q] \notin {Nobody, t} PROVE revisions'[q] = revisions[q]
  <2>1. locks[q] \in Threads
    BY <1>7 DEF PlanInv, PoolInv
  <2>2. PICK u \in Threads : u = locks[q]
    BY <2>1
  <2>3. req[u].plan = q /\ (Updating(u) \/ Executing(u))
    BY <2>2 DEF PlanInv, Thread, Owner
  <2>4. Version(q) >= 1
    <3>1. CASE Updating(u)
      BY <2>3, <3>1 DEF PlanInv, Thread, Writer, TablesInv
    <3>2. CASE Executing(u)
      BY <2>3, <3>2 DEF PlanInv, Thread, Reader, Executing
    <3> QED BY <2>3, <3>1, <3>2
  <2>5. q # p
    BY <2>4, <1>4
  <2> QED BY <1>5, <2>5 DEF PlanInv, TablesInv
<1>8. ~Updating(t) /\ ~Executing(t) /\ ~Inserted(t)
  BY <1>1 DEF Updating, Executing, Inserted
<1>9. /\ Return(t, Repository!Says("saved")) /\ Spoken(Repository!Says("saved"))
      /\ UNCHANGED <<batches, runs, locks, pending, dispatched, requests, faults>>
  BY Words DEF CreatePlan, transactions
<1> QED BY <1>6, <1>7, <1>8, <1>9, ReturnStep DEF Fails

LEMMA CommitUpdateStep ==
    ASSUME PlanInv, NEW t \in Threads, CommitUpdate(t)
    PROVE  PlanInv'
<1>1. Updating(t) /\ req[t] \in Flushed
  BY Serves DEF CommitUpdate, At, Updating
<1>2. PICK p \in Plans, v \in Repository!PlanRevision : p = req[t].plan /\ v = req[t].new
  BY <1>1 DEF Flushed
<1>3. /\ locks[p] = t /\ Version(p) \in 1..(MaxRevision - 1) /\ Refs(assets, v.pins)
  BY <1>1, <1>2 DEF PlanInv, Thread, Writer
<1>4. revisions' = [revisions EXCEPT ![p] = Append(@, v)] /\ assets' = assets
  BY <1>2 DEF CommitUpdate
<1>5. TablesInv' /\ GrownAssets /\ GrownPlans
  <2>1. Version(p) < MaxRevision
    BY <1>3, BoundsAssumption
  <2> QED BY <2>1, <1>3, <1>4, PlanGrows
<1>6. \A q \in Plans : locks[q] \notin {Nobody, t} => revisions'[q] = revisions[q]
  BY <1>3, <1>4 DEF PlanInv, TablesInv
<1>7. ~Inserted(t)
  BY <1>1 DEF Updating, Inserted
<1>8. /\ Return(t, Repository!Says("saved")) /\ Spoken(Repository!Says("saved")) /\ Unlock(t)
      /\ UNCHANGED <<batches, runs, pending, dispatched, requests, faults>>
  BY Words DEF CommitUpdate
<1> QED BY <1>5, <1>6, <1>7, <1>8, ReturnStep DEF Fails

\* Answers that write nothing: refusals, conflicts, replays and a thread that dies.
LEMMA Replays ==
    ASSUME PlanInv, NEW t \in Threads, req[t].op \in {"execute", "run"}, Resolved(t)
    PROVE  \E a : Spoken(a) /\ Return(t, a)
<1>1. PICK row \in Existing(t) : Return(t, Repository!Replayed(row, Body(t)))
  BY DEF Resolved
<1>2. row.id \in 1..MaxRequests
  BY FewRows DEF Existing, Repository!Rows, Table
<1> QED BY <1>1, <1>2, Words

LEMMA RefusedStep ==
    ASSUME PlanInv, NEW t \in Threads, Refused(t)
    PROVE  PlanInv'
<1>1. ~Updating(t) /\ ~Executing(t) /\ ~Inserted(t)
  BY DEF Refused, Updating, Executing, Inserted
<1>2. Spoken(Repository!Says("refused"))
  BY Words
<1> QED BY <1>1, <1>2, QuietReturn DEF Refused, transactions, Fails

LEMMA ExpandFailsStep ==
    ASSUME PlanInv, NEW t \in Threads, ExpandFails(t)
    PROVE  PlanInv'
<1>1. ~Inserted(t)
  BY DEF ExpandFails, At, Inserted
<1>2. Spoken(Repository!Says("refused"))
  BY Words
<1> QED BY <1>1, <1>2, QuietReturn DEF ExpandFails, Fails

LEMMA DieStep ==
    ASSUME PlanInv, NEW t \in Threads, Die(t)
    PROVE  PlanInv'
<1>1. Spoken(Repository!Says("refused"))
  BY Words
<1> QED BY <1>1, QuietReturn DEF Die, Fails

LEMMA ResolveConflictStep ==
    ASSUME PlanInv, NEW t \in Threads, ResolveConflict(t)
    PROVE  PlanInv'
<1>1. ~Updating(t) /\ ~Executing(t) /\ ~Inserted(t)
  BY DEF ResolveConflict, Updating, Executing, Inserted
<1>2. PICK a : Spoken(a) /\ Return(t, a)
  BY Serves, Replays DEF ResolveConflict
<1> QED BY <1>1, <1>2, QuietReturn DEF ResolveConflict, transactions, Fails

\* A thread goes on with a request, all tables left alone.
LEMMA QuietMove ==
    ASSUME PlanInv, NEW t \in Threads, Moves(t), Locking(t), Inserts(t),
           UNCHANGED <<tables, dispatched, requests, faults>>,
           pc[t] \notin {"idle", "dispatch"}, pc'[t] # "dispatch", Thread(t)'
    PROVE  PlanInv'
<1>1. UNCHANGED <<assets, revisions, batches, runs>> /\ Fails
  BY DEF tables, Fails
<1>2. TablesInv' /\ GrownAssets /\ GrownPlans
  BY <1>1, SameTables
<1> QED BY <1>1, <1>2, RowlessStep

LEMMA LockForUpdateStep ==
    ASSUME PlanInv, NEW t \in Threads, LockForUpdate(t)
    PROVE  PlanInv'
<1>1. req[t] \in Updates /\ req[t].op = "update" /\ pc[t] = "write"
  BY Serves DEF LockForUpdate, At
<1>2. PICK p \in Plans : p = req[t].plan
  BY <1>1 DEF Updates
<1>3. ~Updating(t) /\ ~Executing(t) /\ ~Inserted(t)
  BY <1>1 DEF Updating, Executing, Inserted
<1>4. CASE Return(t, Repository!Says("conflict")) /\ UNCHANGED locks
  <2>1. Spoken(Repository!Says("conflict"))
    BY Words
  <2> QED BY <1>3, <1>4, <2>1, QuietReturn DEF LockForUpdate, Fails
<1>5. CASE req[t].expected = Version(p) /\ Flush(t, p)
  <2>1. PICK pins \in Repository!Pins, status \in Status :
          /\ ValidTransition(p, status)
          /\ req' = [req EXCEPT ![t] = [op |-> "update", plan |-> p,
                 new |-> [status |-> status, pins |-> pins, base |-> req[t].expected]]]
    BY <1>5 DEF Flush
  <2> DEFINE v == [status |-> status, pins |-> pins, base |-> req[t].expected]
             r == [op |-> "update", plan |-> p, new |-> v]
  <2>2. pins \in [Assets -> Nat] /\ Refs(assets, pins)
    BY PinsAre DEF PlanInv
  <2>3. v \in Repository!PlanRevision /\ v.pins = pins /\ v.status = status /\ v.base = Version(p)
    BY <1>1, <1>5, <2>2 DEF Repository!PlanRevision, Status, Updates, Assets
  <2>4. r \in Flushed /\ r.op = "update" /\ r.plan = p /\ r.new = v
    BY <2>3 DEF Flushed
  <2> HIDE DEF v, r
  <2>5. req' = [req EXCEPT ![t] = r]
    BY <2>1 DEF v, r
  <2>6. Moves(t) /\ pc'[t] = "commit" /\ req'[t] = r /\ answer'[t] = answer[t]
    BY <1>5, <2>5 DEF Flush, Goto, PlanInv, PoolInv, Moves
  <2>7. ~Held(p) /\ locks' = [locks EXCEPT ![p] = t] /\ UNCHANGED <<tables, pending>>
    BY <1>2, <1>5 DEF LockForUpdate, Flush
  <2>8. Locking(t) /\ Inserts(t)
    BY <2>7 DEF Locking, Inserts
  <2>9. Version(p) \in 1..(MaxRevision - 1) /\ UNCHANGED <<assets, revisions>>
    <3>1. Version(p) < MaxRevision /\ req[t].expected \in 1..Version(p) /\ Version(p) \in Nat
      BY <1>1, <1>2, <1>5 DEF Flush, PlanInv, Thread, Reader, TablesInv
    <3> QED BY <3>1, <2>7, BoundsAssumption DEF tables
  <2>10. Repository!PlanTransition(revisions[p][Version(p)].status, status)
    BY <2>1, CurrentIs DEF ValidTransition
  <2>11. Shape(req[t], pc[t])' /\ Spoken(answer[t])'
    <3>1. Shape(r, "commit") /\ Spoken(answer[t])
      BY <2>4 DEF Shape, PlanInv, Thread
    <3> QED BY <2>6, <3>1 DEF Shape, NoRequest, Creates, Updates, Flushed, Executes, RunRequests, Spoken
  <2>12. Reader(t)' /\ Dispatcher(t)'
    BY <2>4, <2>6 DEF Reader, Dispatcher
  <2>13. Updating(t)' /\ ~Executing(t)' /\ ~Inserted(t)'
    BY <2>4, <2>6 DEF Updating, Executing, Inserted
  <2>14. locks'[p] = t /\ \A q \in Plans : locks'[q] = t => q = p
    BY <1>3, <2>7 DEF PlanInv, PoolInv, Thread, Owner
  <2>15. Owner(t)'
    BY <2>4, <2>6, <2>13, <2>14 DEF Owner
  <2>16. Writer(t)'
    BY <2>2, <2>3, <2>4, <2>6, <2>9, <2>10, <2>13, <2>14 DEF Writer, Version, Repository!PlanTransition
  <2>17. Inserter(t)'
    BY <1>3, <2>7, <2>13 DEF PlanInv, Thread, Inserter
  <2>18. Thread(t)'
    BY <2>11, <2>12, <2>15, <2>16, <2>17 DEF Thread
  <2> QED BY <1>1, <2>6, <2>8, <2>18, QuietMove DEF LockForUpdate
<1> QED BY <1>2, <1>4, <1>5 DEF LockForUpdate

LEMMA SourceOverrideStep ==
    ASSUME PlanInv, NEW t \in Threads, SourceOverride(t)
    PROVE  PlanInv'
<1>1. req[t] \in Executes /\ req[t].op = "execute" /\ pc[t] = "override"
  BY Serves DEF SourceOverride, At
<1>2. PICK p \in Plans, target \in Targets : p = req[t].plan /\ target = req[t].target
  BY <1>1 DEF Executes
<1>3. ~Updating(t) /\ ~Executing(t) /\ ~Inserted(t)
  BY <1>1 DEF Updating, Executing, Inserted
<1>4. CASE Return(t, Repository!Says("refused"))
  <2>1. Spoken(Repository!Says("refused"))
    BY Words
  <2> QED BY <1>3, <1>4, <2>1, QuietReturn DEF SourceOverride, transactions, Fails
<1>5. CASE /\ TargetFits(target, Repository!Current(p))
           /\ req' = [req EXCEPT ![t] = [@ EXCEPT !.checked = Version(p),
                               !.source = IF target = "host" THEN "host" ELSE "pinned"]]
           /\ Goto(t, "lookup") /\ UNCHANGED answer
  <2> DEFINE r == [req[t] EXCEPT !.checked = Version(p),
                                 !.source = IF target = "host" THEN "host" ELSE "pinned"]
  <2>1. Version(p) \in Nat /\ Version(p) >= 1
    BY <1>1, <1>2 DEF PlanInv, TablesInv, Thread, Reader
  <2>2. /\ r \in Executes /\ r.op = "execute" /\ r.plan = p /\ r.checked = Version(p)
        /\ r.source = "pinned" => target # "host"
    BY <1>1, <1>2, <2>1 DEF Executes
  <2> HIDE DEF r
  <2>3. Moves(t) /\ pc'[t] = "lookup" /\ req'[t] = r /\ answer'[t] = answer[t]
    BY <1>5 DEF Goto, PlanInv, PoolInv, Moves, r
  <2>4. UNCHANGED <<assets, revisions, batches, runs, locks, pending>>
    BY DEF SourceOverride, tables, transactions
  <2>5. Locking(t) /\ Inserts(t)
    BY <2>4 DEF Locking, Inserts
  <2>6. r.source = "pinned" => ~OnHost(assets, revisions[p][Version(p)].pins)
    <3> SUFFICES ASSUME r.source = "pinned" PROVE ~OnHost(assets, revisions[p][Version(p)].pins)
      OBVIOUS
    <3>1. target # "host" /\ target # "none"
      BY <1>1, <1>2, <2>2 DEF PlanInv, Thread, Reader
    <3> QED BY <1>5, <3>1, CurrentIs DEF Targets, TargetFits, Fits, HostSourced, OnHost
  <2>7. Shape(req[t], pc[t])' /\ Spoken(answer[t])'
    <3>1. Shape(r, "lookup") /\ Spoken(answer[t])
      BY <2>2 DEF Shape, PlanInv, Thread
    <3> QED BY <2>3, <3>1 DEF Shape, NoRequest, Creates, Updates, Flushed, Executes, RunRequests, Spoken
  <2>8. Reader(t)'
    BY <2>1, <2>2, <2>3, <2>4, <2>6 DEF Reader, Version
  <2>9. ~Updating(t)' /\ ~Executing(t)' /\ ~Inserted(t)'
    BY <2>2, <2>3 DEF Updating, Executing, Inserted
  <2>10. Writer(t)' /\ Owner(t)' /\ Inserter(t)' /\ Dispatcher(t)'
    BY <1>3, <2>3, <2>4, <2>9 DEF PlanInv, Thread, Writer, Owner, Inserter, Dispatcher
  <2>11. Thread(t)'
    BY <2>7, <2>8, <2>10 DEF Thread
  <2> QED BY <1>1, <2>3, <2>5, <2>11, QuietMove DEF SourceOverride
<1> QED BY <1>2, <1>4, <1>5 DEF SourceOverride

LEMMA LookupBatchStep ==
    ASSUME PlanInv, NEW t \in Threads, LookupBatch(t)
    PROVE  PlanInv'
<1>1. req[t] \in Executes /\ req[t].op = "execute" /\ pc[t] = "lookup"
  BY Serves DEF LookupBatch, At
<1>2. PICK p \in Plans : p = req[t].plan
  BY <1>1 DEF Executes
<1>3. ~Updating(t) /\ ~Executing(t) /\ ~Inserted(t)
  BY <1>1 DEF Updating, Executing, Inserted
<1>4. CASE (Resolved(t) \/ Return(t, Repository!Says("conflict"))) /\ UNCHANGED locks
  <2>1. PICK a : Spoken(a) /\ Return(t, a)
    BY <1>1, <1>4, Replays, Words
  <2> QED BY <1>3, <1>4, <2>1, QuietReturn DEF LookupBatch, Fails
<1>5. CASE /\ Repository!Current(p).status = "ACTIVE"
           /\ req' = [req EXCEPT ![t] = [@ EXCEPT !.seen = Repository!BatchOf(p)]]
           /\ locks' = [locks EXCEPT ![p] = t]
           /\ Goto(t, "insert") /\ UNCHANGED answer
  <2> DEFINE r == [req[t] EXCEPT !.seen = Repository!BatchOf(p)]
  <2>1. Repository!BatchOf(p) = <<p, Version(p)>> /\ Version(p) \in Nat
    BY DEF Repository!BatchOf, Version, PlanInv, TablesInv
  <2>2. /\ r \in Executes /\ r.op = "execute" /\ r.plan = p /\ r.checked = req[t].checked
        /\ r.source = req[t].source /\ r.seen = <<p, Version(p)>>
    BY <1>1, <1>2, <2>1 DEF Executes
  <2> HIDE DEF r
  <2>3. Moves(t) /\ pc'[t] = "insert" /\ req'[t] = r /\ answer'[t] = answer[t]
    BY <1>5 DEF Goto, PlanInv, PoolInv, Moves, r
  <2>4. UNCHANGED <<assets, revisions, batches, runs, pending>> /\ ~Held(p)
    BY <1>2 DEF LookupBatch, tables
  <2>5. Locking(t) /\ Inserts(t)
    BY <1>5, <2>4 DEF Locking, Inserts
  <2>6. Shape(req[t], pc[t])' /\ Spoken(answer[t])'
    <3>1. Shape(r, "insert") /\ Spoken(answer[t])
      BY <2>2 DEF Shape, PlanInv, Thread
    <3> QED BY <2>3, <3>1 DEF Shape, NoRequest, Creates, Updates, Flushed, Executes, RunRequests, Spoken
  <2>7. Reader(t)'
    BY <1>1, <1>2, <2>2, <2>3, <2>4 DEF PlanInv, Thread, Reader, Version
  <2>8. ~Updating(t)' /\ Executing(t)' /\ ~Inserted(t)'
    BY <2>2, <2>3 DEF Updating, Executing, Inserted
  <2>9. locks'[p] = t /\ \A q \in Plans : locks'[q] = t => q = p
    BY <1>3, <1>5 DEF PlanInv, PoolInv, Thread, Owner
  <2>10. Owner(t)'
    BY <2>2, <2>3, <2>8, <2>9 DEF Owner
  <2>11. revisions[p][Version(p)].status = "ACTIVE"
    BY <1>5, CurrentIs
  <2>12. Writer(t)'
    BY <2>2, <2>3, <2>4, <2>8, <2>9, <2>11 DEF Writer, Version
  <2>13. Inserter(t)' /\ Dispatcher(t)'
    BY <1>3, <2>3, <2>4, <2>8 DEF PlanInv, Thread, Inserter, Dispatcher
  <2>14. Thread(t)'
    BY <2>6, <2>7, <2>10, <2>12, <2>13 DEF Thread
  <2> QED BY <1>1, <2>3, <2>5, <2>14, QuietMove DEF LookupBatch
<1> QED BY <1>2, <1>4, <1>5 DEF LookupBatch

\* The thread keeps its request and goes to l, holding nothing of a plan.
LEMMA Onward ==
    ASSUME PlanInv, NEW t \in Threads, NEW l \in {"insert", "commit", "resolve"}, Goto(t, l),
           UNCHANGED <<tables, req, answer, dispatched, requests, faults>>, Locking(t), Inserts(t),
           pc[t] \notin {"idle", "dispatch"}, req[t].op \in {"execute", "run"},
           Writer(t)', Owner(t)', Inserter(t)'
    PROVE  PlanInv'
<1>1. Moves(t) /\ pc'[t] = l /\ req'[t] = req[t] /\ answer'[t] = answer[t]
  BY DEF PlanInv, PoolInv, Goto, Moves
<1>2. Shape(req[t], l) /\ Spoken(answer[t])
  BY Serves DEF Shape, PlanInv, Thread
<1>3. Shape(req[t], pc[t])' /\ Spoken(answer[t])'
  BY <1>1, <1>2 DEF Shape, NoRequest, Creates, Updates, Flushed, Executes, RunRequests, Spoken
<1>4. Reader(t)' /\ Dispatcher(t)'
  BY <1>1 DEF PlanInv, Thread, Reader, Dispatcher, tables, Version
<1>5. Thread(t)'
  BY <1>3, <1>4 DEF Thread
<1> QED BY <1>1, <1>5, QuietMove

LEMMA LookupRunStep ==
    ASSUME PlanInv, NEW t \in Threads, LookupRun(t)
    PROVE  PlanInv'
<1>1. req[t].op = "run" /\ pc[t] = "lookup" /\ UNCHANGED <<tables, locks, pending, dispatched, requests, faults>>
  BY DEF LookupRun, At, transactions
<1>2. ~Updating(t) /\ ~Executing(t) /\ ~Inserted(t)
  BY <1>1 DEF Updating, Executing, Inserted
<1>3. CASE Resolved(t)
  <2>1. PICK a : Spoken(a) /\ Return(t, a)
    BY <1>1, <1>3, Replays
  <2> QED BY <1>1, <1>2, <2>1, QuietReturn DEF Fails
<1>4. CASE Goto(t, "insert") /\ UNCHANGED <<answer, req>>
  <2>1. ~Updating(t)' /\ ~Executing(t)' /\ ~Inserted(t)'
    BY <1>1, <1>4 DEF Updating, Executing, Inserted, Goto, PlanInv, PoolInv
  <2>2. Writer(t)' /\ Owner(t)' /\ Inserter(t)'
    BY <1>1, <1>2, <2>1 DEF PlanInv, Thread, Writer, Owner, Inserter
  <2>3. Locking(t) /\ Inserts(t)
    BY <1>1 DEF Locking, Inserts
  <2> QED BY <1>1, <1>4, <2>2, <2>3, Onward
<1> QED BY <1>3, <1>4 DEF LookupRun

LEMMA InsertStep ==
    ASSUME PlanInv, NEW t \in Threads, Insert(t)
    PROVE  PlanInv'
<1>1. /\ pc[t] = "insert" /\ req[t].op \in {"execute", "run"} /\ req[t].key \in Keys \cup {NoKey}
      /\ UNCHANGED <<tables, answer, req, dispatched, requests, faults>>
      /\ UNCHANGED <<assets, revisions, batches, runs>>
  BY Serves DEF Insert, Executes, RunRequests, tables
<1>2. ~Updating(t) /\ ~Inserted(t)
  BY <1>1 DEF Updating, Inserted
<1>3. CASE /\ Existing(t) = {} /\ pending' = pending \cup {<<req[t].op, req[t].key, t>>}
           /\ Goto(t, "commit") /\ UNCHANGED locks
  <2>1. pc'[t] = "commit" /\ req'[t] = req[t]
    BY <1>1, <1>3 DEF Goto, PlanInv, PoolInv
  <2>2. Inserts(t) /\ Locking(t)
    <3>1. \A row \in pending : row[1] = req[t].op /\ row[2] = req[t].key => req[t].key = NoKey
      BY DEF Insert, Inserting
    <3> QED BY <1>1, <1>3, <3>1 DEF Inserts, Locking
  <2>3. Writer(t)' /\ Owner(t)'
    <3>1. (Executing(t)' <=> Executing(t)) /\ ~Updating(t)'
      BY <1>1, <2>1 DEF Executing, Updating
    <3> QED BY <1>1, <1>2, <1>3, <2>1, <3>1 DEF PlanInv, Thread, Writer, Owner, Version
  <2>4. Inserter(t)'
    <3>1. \A row \in pending : row[3] # t
      BY <1>2 DEF PlanInv, Thread, Inserter
    <3>2. \A x \in Table(req[t].op) : x.key = req[t].key => req[t].key = NoKey
      BY <1>3 DEF Existing, Repository!Rows
    <3>3. \A row \in pending' : row[3] = t => row[1] = req[t].op /\ row[2] = req[t].key
      BY <1>3, <3>1
    <3> QED BY <1>1, <1>3, <2>1, <3>2, <3>3 DEF Inserter, Inserted, Table
  <2> QED BY <1>1, <1>3, <2>2, <2>3, <2>4, Onward
<1>4. CASE Goto(t, "resolve") /\ Unlock(t) /\ UNCHANGED pending
  <2>1. pc'[t] = "resolve" /\ req'[t] = req[t]
    BY <1>1, <1>4 DEF Goto, PlanInv, PoolInv
  <2>2. ~Updating(t)' /\ ~Executing(t)' /\ ~Inserted(t)'
    BY <2>1 DEF Updating, Executing, Inserted
  <2>3. \A p \in Plans : locks'[p] # t
    BY <1>4, ThreadsAssumption DEF Unlock
  <2>4. Writer(t)' /\ Owner(t)' /\ Inserter(t)'
    BY <1>2, <1>4, <2>2, <2>3 DEF PlanInv, Thread, Writer, Owner, Inserter
  <2>5. Locking(t) /\ Inserts(t)
    BY <1>4 DEF Locking, Inserts
  <2> QED BY <1>1, <1>4, <2>4, <2>5, Onward
<1> QED BY <1>3, <1>4 DEF Insert

-----------------------------------------------------------------------------
(* Commits and dispatches *)

LEMMA NumberedAdd ==
    ASSUME NEW T, Numbered(T), NEW row, row.id = Cardinality(T) + 1
    PROVE  /\ Numbered(T \cup {row}) /\ row \notin T
           /\ Cardinality(T) \in Nat /\ Cardinality(T \cup {row}) = Cardinality(T) + 1
<1>1. Cardinality(T) \in Nat /\ row \notin T
  BY FS_CardinalityType DEF Numbered
<1>2. IsFiniteSet(T \cup {row}) /\ Cardinality(T \cup {row}) = Cardinality(T) + 1
  BY <1>1, FS_AddElement DEF Numbered
<1> QED BY <1>1, <1>2 DEF Numbered

LEMMA BudgetCommits ==
    ASSUME PlanInv, NEW t \in Threads, Moves(t), pc[t] = "commit",
           UNCHANGED <<requests, faults>>
    PROVE  /\ Cardinality(batches) + Cardinality(runs) + 1 <= requests
           /\ pc'[t] = "dispatch" => IsFiniteSet(Serving') /\ Cardinality(Serving') = Cardinality(Serving) - 1
<1>1. /\ IsFiniteSet(Serving) /\ Cardinality(Serving) \in Nat
      /\ Cardinality(batches) \in Nat /\ Cardinality(runs) \in Nat /\ requests \in Nat
  BY FS_CardinalityType DEF PlanInv, RowsInv, Numbered, Budget
<1>2. t \in Serving
  BY DEF Serving
<1>3. IsFiniteSet(Serving \ {t}) /\ Cardinality(Serving \ {t}) = Cardinality(Serving) - 1
  BY <1>1, <1>2, FS_RemoveElement
<1>4. Cardinality(Serving \ {t}) \in Nat
  BY <1>3, FS_CardinalityType
<1>5. pc'[t] = "dispatch" => Serving' = Serving \ {t}
  BY DEF Serving, Moves
<1>6. Cardinality(batches) + Cardinality(runs) + Cardinality(Serving) <= requests
  BY DEF PlanInv, Budget
<1>7. Cardinality(Serving) >= 1
  BY <1>1, <1>3, <1>4
<1>8. Cardinality(batches) + Cardinality(runs) + 1 <= requests
  BY <1>1, <1>6, <1>7
<1> QED BY <1>3, <1>5, <1>8

\* A row that is committed is new, and only its thread may dispatch it.
LEMMA CommitStep ==
    ASSUME PlanInv, NEW t \in Threads, Inserted(t), NEW row,
           row.id = Cardinality(Table(req[t].op)) + 1, row.key = req[t].key,
           Answer(t, Repository!Created(row)), Goto(t, "dispatch"), Committed(t), UNCHANGED req,
           UNCHANGED <<assets, revisions, dispatched, requests, faults>>,
           \/ /\ req[t].op = "execute" /\ BatchRow(row) /\ Unlock(t)
              /\ batches' = batches \cup {row} /\ runs' = runs
           \/ /\ req[t].op = "run" /\ locks' = locks
              /\ runs' = runs \cup {row} /\ batches' = batches
    PROVE  PlanInv'
<1> DEFINE op == req[t].op
           old == Table(op)
           id == row.id
<1>1. /\ op \in {"execute", "run"} /\ pc[t] = "commit" /\ pc'[t] = "dispatch" /\ req'[t] = req[t]
      /\ answer'[t] = <<"created", id>> /\ Moves(t)
  BY DEF Inserted, PlanInv, PoolInv, Moves, Answer, Goto, Repository!Created
<1>2. old = (IF op = "execute" THEN batches ELSE runs) /\ Table(op)' = (IF op = "execute" THEN batches' ELSE runs')
  BY <1>1 DEF Table
<1>3. Numbered(old) /\ Numbered(old \cup {row}) /\ Cardinality(old) \in Nat
      /\ Cardinality(old \cup {row}) = Cardinality(old) + 1
  BY <1>2, NumberedAdd DEF PlanInv, RowsInv
<1>4. /\ Cardinality(batches) \in Nat /\ Cardinality(runs) \in Nat /\ Cardinality(Serving) \in Nat
      /\ Cardinality(batches) + Cardinality(runs) + 1 <= requests /\ requests \in 0..MaxRequests
      /\ IsFiniteSet(Serving') /\ Cardinality(Serving') = Cardinality(Serving) - 1
      /\ Cardinality(batches) + Cardinality(runs) + Cardinality(Serving) <= requests
  BY <1>1, BudgetCommits, FS_CardinalityType DEF PlanInv, RowsInv, Numbered, Budget
<1>5. id = Cardinality(old) + 1 /\ id \in 1..MaxRequests
  <2>1. Cardinality(old) = Cardinality(batches) \/ Cardinality(old) = Cardinality(runs)
    BY <1>2
  <2> QED BY <2>1, <1>3, <1>4, BoundsAssumption
<1>6. TablesInv' /\ GrownAssets /\ GrownPlans
  BY SameTables
<1>7. \A p \in Plans : locks'[p] # t
  <2>1. op = "run" => ~Updating(t) /\ ~Executing(t)
    BY DEF Updating, Executing
  <2> QED BY <2>1, ThreadsAssumption DEF PlanInv, Thread, Owner, Unlock
<1>8. Locking(t) /\ Inserts(t)
  BY DEF Locking, Inserts
<1>9. Apart(t)
  <2>1. PoolInv'
    BY <1>1, <1>8, LocksKeep DEF PoolInv, Moves
  <2> QED BY <2>1, <1>1, <1>6, <1>8, LocksKeep, PendingKeeps DEF Apart, Moves, PendingInv
<1>10. Commits(t, "execute", batches, batches') /\ Commits(t, "run", runs, runs')
  <2>1. CASE op = "execute"
    <3>1. IsFiniteSet(batches') /\ Cardinality(batches') = Cardinality(batches) + 1
      BY <1>2, <1>3, <2>1 DEF Numbered
    <3>2. runs' = runs /\ IsFiniteSet(runs) /\ batches' = batches \cup {row}
      BY <2>1 DEF PlanInv, RowsInv, Numbered
    <3> QED BY <1>4, <2>1, <3>1, <3>2 DEF Commits
  <2>2. CASE op = "run"
    <3>1. IsFiniteSet(runs') /\ Cardinality(runs') = Cardinality(runs) + 1
      BY <1>2, <1>3, <2>2 DEF Numbered
    <3>2. batches' = batches /\ IsFiniteSet(batches) /\ runs' = runs \cup {row}
      BY <2>2 DEF PlanInv, RowsInv, Numbered
    <3> QED BY <1>4, <2>2, <3>1, <3>2 DEF Commits
  <2> QED BY <1>1, <2>1, <2>2
<1>11. \A x \in old : x.key = row.key => row.key = NoKey
  BY DEF PlanInv, Thread, Inserter
<1>12. RowsInv'
  <2>1. \A b \in batches' : BatchRow(b)'
    BY DEF PlanInv, RowsInv, BatchRow, Version
  <2>2. Numbered(batches') /\ Numbered(runs')
    BY <1>1, <1>2, <1>3 DEF PlanInv, RowsInv
  <2>3. OneRowPerKey'
    <3>1. CASE op = "execute"
      <4>1. row.key # NoKey
        BY <3>1, KeyAssumption DEF BatchRow
      <4>2. batches' = batches \cup {row} /\ runs' = runs /\ \A x \in batches : x.key # row.key
        BY <1>2, <1>11, <3>1, <4>1
      <4> QED BY <4>2 DEF PlanInv, RowsInv, OneRowPerKey
    <3>2. CASE op = "run"
      <4>1. batches' = batches /\ runs' = runs \cup {row} /\ \A x \in runs : x.key = row.key => row.key = NoKey
        BY <1>2, <1>11, <3>2
      <4> QED BY <4>1 DEF PlanInv, RowsInv, OneRowPerKey
    <3> QED BY <1>1, <3>1, <3>2
  <2> QED BY <2>1, <2>2, <2>3 DEF RowsInv, Numbered
<1>13. Budget'
  <2>1. Cardinality(batches') + Cardinality(runs') = Cardinality(batches) + Cardinality(runs) + 1
    <3>1. \/ batches' = old \cup {row} /\ old = batches /\ runs' = runs
          \/ runs' = old \cup {row} /\ old = runs /\ batches' = batches
      BY <1>2
    <3>2. CASE batches' = old \cup {row} /\ old = batches /\ runs' = runs
      BY <1>3, <1>4, <3>2
    <3>3. CASE runs' = old \cup {row} /\ old = runs /\ batches' = batches
      BY <1>3, <1>4, <3>3
    <3> QED BY <3>1, <3>2, <3>3
  <2>2. Cardinality(batches') + Cardinality(runs') + Cardinality(Serving') <= requests
    BY <1>4, <2>1
  <2> QED BY <1>4, <2>2 DEF PlanInv, Budget
<1>14. DispatchInv'
  <2>1. ASSUME NEW o \in {"execute", "run"}, NEW n \in 1..MaxRequests, n > Cardinality(Table(o)')
        PROVE  dispatched[<<o, n>>] = 0
    <3>1. Cardinality(Table(o)') >= Cardinality(Table(o)) /\ Cardinality(Table(o)) \in Nat
          /\ Cardinality(Table(o)') \in Nat
      BY <1>10, FS_CardinalityType DEF Table, Commits, PlanInv, RowsInv, Numbered
    <3>2. n > Cardinality(Table(o))
      BY <2>1, <3>1
    <3> QED BY <3>2 DEF PlanInv, DispatchInv
  <2>2. ASSUME NEW u \in Threads \ {t}, pc'[u] = "dispatch", req'[u].op = op, answer'[u][2] = id
        PROVE  FALSE
    <3>1. pc[u] = "dispatch" /\ req[u].op = op /\ answer[u][2] = id
      BY <2>2, <1>1 DEF Moves
    <3>2. id \in 1..Cardinality(old)
      BY <3>1 DEF PlanInv, Thread, Dispatcher
    <3> QED BY <3>2, <1>3, <1>5
  <2>3. \A u, v \in Threads : pc'[u] = "dispatch" /\ pc'[v] = "dispatch" /\ req'[u].op = req'[v].op
                             /\ answer'[u][2] = answer'[v][2] => u = v
    <3> SUFFICES ASSUME NEW u \in Threads, NEW v \in Threads, pc'[u] = "dispatch", pc'[v] = "dispatch",
                        req'[u].op = req'[v].op, answer'[u][2] = answer'[v][2], u # v
                 PROVE  FALSE
      OBVIOUS
    <3>0. req'[t].op = op /\ answer'[t][2] = id
      BY <1>1
    <3>1. CASE u # t /\ v # t
      BY <3>1, <1>1 DEF Moves, PlanInv, DispatchInv
    <3>2. CASE u = t
      BY <3>0, <3>2, <2>2
    <3>3. CASE v = t
      BY <3>0, <3>3, <2>2
    <3> QED BY <3>1, <3>2, <3>3
  <2> QED BY <2>1, <2>3 DEF DispatchInv, PlanInv, Table
<1>15. Dispatches(t)
  BY DEF Dispatches
<1>16. Thread(t)'
  <2>1. Shape(req[t], "dispatch") /\ Spoken(<<"created", id>>)
    BY <1>1, <1>5, Serves DEF Shape, Spoken
  <2>2. Shape(req[t], pc[t])' /\ Spoken(answer[t])'
    BY <1>1, <2>1 DEF Shape, NoRequest, Creates, Updates, Flushed, Executes, RunRequests, Spoken
  <2>3. Reader(t)'
    BY <1>1 DEF PlanInv, Thread, Reader, Version
  <2>4. Writer(t)' /\ Owner(t)'
    BY <1>1, <1>7 DEF Writer, Owner, Updating, Executing
  <2>5. Inserter(t)'
    BY <1>1 DEF Inserter, Inserted, Committed
  <2>6. Dispatcher(t)'
    <3>1. dispatched[<<op, id>>] = 0
      BY <1>1, <1>3, <1>5 DEF PlanInv, DispatchInv
    <3>2. Table(op)' = old \cup {row}
      BY <1>2
    <3>3. id \in 1..Cardinality(Table(op)')
      BY <1>3, <1>5, <3>2
    <3>4. answer'[t][2] = id
      BY <1>1
    <3> QED BY <1>1, <3>1, <3>3, <3>4 DEF Dispatcher, Table
  <2> QED BY <2>2, <2>3, <2>4, <2>5, <2>6 DEF Thread
<1> QED BY <1>8, <1>9, <1>10, <1>12, <1>13, <1>14, <1>15, <1>16, PendingKeeps, Assemble

LEMMA CommitBatchStep ==
    ASSUME PlanInv, NEW t \in Threads, CommitBatch(t)
    PROVE  PlanInv'
<1>1. req[t] \in Executes /\ req[t].op = "execute" /\ pc[t] = "commit" /\ Inserted(t) /\ Executing(t)
  BY Serves DEF CommitBatch, At, Inserted, Executing
<1>2. PICK p \in Plans : p = req[t].plan
  BY <1>1 DEF Executes
<1> DEFINE row == [id |-> Cardinality(batches) + 1, key |-> req[t].key, body |-> req[t].seen,
                   pins |-> Repository!Current(p).pins, source |-> req[t].source,
                   checked |-> req[t].checked]
<1>3. /\ row.id = Cardinality(batches) + 1 /\ row.key = req[t].key /\ row.body = req[t].seen
      /\ row.pins = revisions[p][Version(p)].pins /\ row.source = req[t].source
      /\ row.checked = req[t].checked
  BY CurrentIs
<1>4. /\ batches' = batches \cup {row} /\ Answer(t, Repository!Created(row)) /\ Committed(t)
      /\ Unlock(t) /\ Goto(t, "dispatch")
      /\ UNCHANGED <<assets, revisions, runs, req, dispatched, requests, faults>>
  BY <1>2 DEF CommitBatch
<1> HIDE DEF row
<1>5. /\ req[t].seen = <<p, Version(p)>> /\ revisions[p][Version(p)].status = "ACTIVE"
  BY <1>1, <1>2 DEF PlanInv, Thread, Writer
<1>6. /\ Version(p) \in Nat /\ Version(p) >= 1 /\ req[t].checked \in 0..Version(p)
      /\ req[t].checked # 0 /\ req[t].source = "pinned" =>
             ~OnHost(assets, revisions[p][req[t].checked].pins)
  BY <1>1, <1>2 DEF PlanInv, Thread, Reader, TablesInv
<1>7. row.body[1] = p /\ row.body[2] = Version(p) /\ row.body \in Plans \X Nat
  BY <1>3, <1>5, <1>6
<1>8. BatchRow(row)
  <2>1. row.key \in Keys /\ row.source \in {"pinned", "host"}
    BY <1>1, <1>3 DEF Executes
  <2>2. row.body[2] \in 1..Version(p)
    BY <1>6, <1>7
  <2> QED BY <1>3, <1>5, <1>6, <1>7, <2>1, <2>2 DEF BatchRow
<1>9. Table(req[t].op) = batches
  BY <1>1 DEF Table
<1> QED BY <1>1, <1>3, <1>4, <1>8, <1>9, CommitStep

LEMMA CommitRunStep ==
    ASSUME PlanInv, NEW t \in Threads, CommitRun(t)
    PROVE  PlanInv'
<1>1. req[t].op = "run" /\ Inserted(t)
  BY DEF CommitRun, At, Inserted
<1> DEFINE row == [id |-> Cardinality(runs) + 1, key |-> req[t].key, body |-> req[t].body]
<1>2. row.id = Cardinality(runs) + 1 /\ row.key = req[t].key
  OBVIOUS
<1>3. /\ runs' = runs \cup {row} /\ Answer(t, Repository!Created(row)) /\ Committed(t)
      /\ Goto(t, "dispatch")
      /\ UNCHANGED <<assets, revisions, batches, locks, req, dispatched, requests, faults>>
  BY DEF CommitRun
<1> HIDE DEF row
<1>4. Table(req[t].op) = runs
  BY <1>1 DEF Table
<1> QED BY <1>1, <1>2, <1>3, <1>4, CommitStep

LEMMA DispatchStep ==
    ASSUME PlanInv, NEW t \in Threads, Dispatch(t)
    PROVE  PlanInv'
<1> DEFINE op == req[t].op
           id == answer[t][2]
<1>1. /\ op \in {"execute", "run"} /\ pc[t] = "dispatch" /\ Moves(t)
      /\ pc'[t] = "idle" /\ req'[t] = NoRequest /\ answer'[t] = answer[t]
      /\ UNCHANGED <<assets, revisions, batches, runs, answer, locks, pending, requests, faults>>
  BY Serves DEF Dispatch, PlanInv, PoolInv, Moves, Goto, tables, transactions
<1>2. id \in 1..Cardinality(Table(op)) /\ dispatched[<<op, id>>] = 0
  BY <1>1 DEF PlanInv, Thread, Dispatcher
<1>3. id \in 1..MaxRequests
  <2>1. Cardinality(Table(op)) \in 0..MaxRequests
    BY FewRows DEF Table
  <2> QED BY <1>2, <2>1, BoundsAssumption
<1>4. dispatched' = [dispatched EXCEPT ![<<op, id>>] = 1]
  BY <1>2 DEF Dispatch
<1>5. /\ dispatched' \in [{"execute", "run"} \X (1..MaxRequests) -> {0, 1}]
      /\ \A o \in {"execute", "run"}, n \in 1..MaxRequests :
            \/ dispatched'[<<o, n>>] = dispatched[<<o, n>>]
            \/ o = op /\ n = id
  BY <1>1, <1>3, <1>4 DEF PlanInv, DispatchInv
<1>6. TablesInv' /\ GrownAssets /\ GrownPlans
  BY <1>1, SameTables
<1>7. RowsInv' /\ Commits(t, "execute", batches, batches') /\ Commits(t, "run", runs, runs')
  BY <1>1, <1>6, SameRows
<1>8. Locking(t) /\ Inserts(t)
  BY <1>1 DEF Locking, Inserts
<1>9. Apart(t)
  <2>1. PoolInv'
    BY <1>1, <1>8, LocksKeep DEF PoolInv, Moves
  <2> QED BY <2>1, <1>1, <1>6, <1>8, LocksKeep, PendingKeeps DEF Apart, Moves, PendingInv
<1>10. Dispatches(t)
  BY <1>1, <1>5 DEF Dispatches
<1>11. Budget'
  <2>1. pc'[t] \in {"idle", "dispatch"}
    BY <1>1
  <2> QED BY <1>1, <2>1, BudgetKeeps DEF Fails
<1>12. DispatchInv'
  <2>1. ASSUME NEW o \in {"execute", "run"}, NEW n \in 1..MaxRequests, n > Cardinality(Table(o)')
        PROVE  dispatched'[<<o, n>>] = 0
    <3>1. Table(o)' = Table(o)
      BY <1>1 DEF Table
    <3>2. Cardinality(Table(o)) \in 0..MaxRequests /\ n > Cardinality(Table(o))
      BY <2>1, <3>1, FewRows DEF Table
    <3>3. ~(o = op /\ n = id)
      BY <1>2, <3>2
    <3> QED BY <1>5, <3>2, <3>3 DEF PlanInv, DispatchInv
  <2>2. \A u \in Threads : pc'[u] = "dispatch" =>
          u # t /\ pc[u] = "dispatch" /\ req'[u] = req[u] /\ answer'[u] = answer[u]
    BY <1>1 DEF Moves
  <2>3. \A u, v \in Threads : pc'[u] = "dispatch" /\ pc'[v] = "dispatch" /\ req'[u].op = req'[v].op
                             /\ answer'[u][2] = answer'[v][2] => u = v
    BY <2>2 DEF PlanInv, DispatchInv
  <2> QED BY <1>5, <2>1, <2>3 DEF DispatchInv, Table
<1>13. Thread(t)'
  <2>1. ~Updating(t) /\ ~Executing(t) /\ ~Inserted(t)
    BY <1>1 DEF Updating, Executing, Inserted
  <2>2. (\A p \in Plans : locks[p] # t) /\ \A row \in pending : row[3] # t
    BY <2>1 DEF PlanInv, Thread, Owner, Inserter
  <2>3. NoRequest.op = "none" /\ Shape(NoRequest, "idle") /\ Spoken(answer[t])
    BY DEF NoRequest, Shape, PlanInv, Thread
  <2>4. Shape(req[t], pc[t])' /\ Spoken(answer[t])'
    BY <1>1, <2>3 DEF Shape, NoRequest, Creates, Updates, Flushed, Executes, RunRequests, Spoken
  <2>5. Reader(t)' /\ Writer(t)' /\ Owner(t)' /\ Inserter(t)' /\ Dispatcher(t)'
    BY <1>1, <2>2, <2>3 DEF Reader, Writer, Owner, Inserter, Dispatcher, Updating, Executing, Inserted
  <2> QED BY <2>4, <2>5 DEF Thread
<1> QED BY <1>7, <1>8, <1>9, <1>10, <1>11, <1>12, <1>13, PendingKeeps, Assemble

-----------------------------------------------------------------------------
(* Assets, and the invariant *)

LEMMA UpdateAssetStep ==
    ASSUME PlanInv, NEW a \in Assets, UpdateAsset(a)
    PROVE  PlanInv'
<1>1. PICK new \in Repository!AssetRevision : assets' = [assets EXCEPT ![a] = Append(@, new)]
  BY DEF UpdateAsset
<1>2. /\ UNCHANGED <<revisions, batches, runs, answer, locks, pending, pc, req, dispatched, faults>>
      /\ Len(assets[a]) < MaxRevision /\ requests < MaxRequests /\ requests' = requests + 1
  BY DEF UpdateAsset, transactions
<1>3. assets[a] \in Seq(Repository!AssetRevision) /\ Len(assets[a]) \in Nat
  BY DEF PlanInv, TablesInv
<1>4. /\ assets'[a] \in Seq(Repository!AssetRevision) /\ Len(assets'[a]) = Len(assets[a]) + 1
      /\ \A n \in 1..Len(assets[a]) : assets'[a][n] = assets[a][n]
  BY <1>1, <1>3 DEF PlanInv, TablesInv
<1>5. \A b \in Assets \ {a} : assets'[b] = assets[b] /\ Len(assets[b]) \in Nat
  BY <1>1 DEF PlanInv, TablesInv
<1>6. GrownAssets
  <2>1. ASSUME NEW b \in Assets
        PROVE  Len(assets'[b]) >= Len(assets[b]) /\ \A n \in 1..Len(assets[b]) : assets'[b][n] = assets[b][n]
    <3>1. CASE b = a
      BY <1>3, <1>4, <3>1
    <3>2. CASE b # a
      BY <1>5, <3>2
    <3> QED BY <3>1, <3>2
  <2> QED BY <2>1 DEF GrownAssets
<1>7. \A b \in Assets : Len(assets'[b]) \in 1..MaxRevision
  BY <1>2, <1>3, <1>4, <1>5, BoundsAssumption DEF PlanInv, TablesInv
<1>8. \A p \in Plans : Version(p)' = Version(p) /\ Version(p) \in Nat
  BY <1>2 DEF PlanInv, TablesInv, Version
<1>9. GrownPlans
  BY <1>2, <1>8 DEF GrownPlans
<1>10. TablesInv'
  <2>1. assets' \in [Assets -> Seq(Repository!AssetRevision)]
    BY <1>1, <1>4 DEF PlanInv, TablesInv
  <2>2. ASSUME NEW p \in Plans, NEW n \in 1..Version(p) PROVE Refs(assets', revisions[p][n].pins)
    <3>1. Refs(assets, revisions[p][n].pins)
      BY DEF PlanInv, TablesInv
    <3>2. \A b \in Assets : Len(assets[b]) \in Nat /\ Len(assets'[b]) \in Nat
      BY <1>3, <1>4, <1>5
    <3> QED BY <1>6, <3>1, <3>2, RefsGrow
  <2> QED BY <1>2, <1>7, <1>8, <2>1, <2>2 DEF PlanInv, TablesInv
<1>11. RowsInv'
  BY <1>2, <1>6, <1>9, <1>10, SameRows
<1>12. Apart(Nobody)
  <2>1. PoolInv'
    BY <1>2 DEF PlanInv, PoolInv
  <2> QED BY <2>1, <1>2, <1>6, <1>9, <1>10 DEF Apart, PlanInv, PendingInv
<1>13. ASSUME NEW u \in Threads PROVE Thread(u)'
  <2>1. Reader(u)' /\ Writer(u)' /\ Owner(u)'
    BY <1>12, ReadersKeep, WritersKeep, ThreadsAssumption
  <2>2. Shape(req[u], pc[u])' /\ Spoken(answer[u])'
    BY <1>2 DEF PlanInv, Thread, Shape, NoRequest, Creates, Updates, Flushed, Executes, RunRequests, Spoken
  <2>3. Inserter(u)' /\ Dispatcher(u)'
    BY <1>2 DEF PlanInv, Thread, Inserter, Inserted, Dispatcher, Table
  <2> QED BY <2>1, <2>2, <2>3 DEF Thread
<1>14. PoolInv' /\ PendingInv' /\ DispatchInv'
  BY <1>2 DEF PlanInv, PoolInv, PendingInv, Rowset, DispatchInv, Table
<1>15. Budget'
  <2>1. Serving' = Serving
    BY <1>2 DEF Serving
  <2>2. /\ Cardinality(batches) \in Nat /\ Cardinality(runs) \in Nat /\ Cardinality(Serving) \in Nat
    BY FS_CardinalityType DEF PlanInv, RowsInv, Numbered, Budget
  <2> QED BY <1>2, <2>1, <2>2, BoundsAssumption DEF PlanInv, Budget
<1> QED BY <1>10, <1>11, <1>13, <1>14, <1>15 DEF PlanInv

LEMMA InitTables == Init => TablesInv
<1> SUFFICES ASSUME Init PROVE TablesInv
  OBVIOUS
<1> DEFINE draft == [status |-> "DRAFT", source |-> "sealed"]
           active == [status |-> "ACTIVE", source |-> "sealed"]
           archived == [status |-> "ARCHIVED", source |-> "sealed"]
           pins == [a \in Assets |-> IF a = "script" THEN 2 ELSE 0]
           first == [status |-> "DRAFT", pins |-> pins, base |-> 0]
           second == [status |-> "ACTIVE", pins |-> pins, base |-> 1]
<1>1. {draft, active, archived} \subseteq Repository!AssetRevision
  BY DEF Repository!AssetRevision, Repository!Sources
<1>2. pins \in [Assets -> Nat] /\ pins["script"] = 2 /\ pins["environment"] = 0
  BY DEF Assets, Repository!Assets
<1> HIDE DEF pins
<1>3. {first, second} \subseteq Repository!PlanRevision /\ first.pins = pins /\ second.pins = pins
  BY <1>2 DEF Repository!PlanRevision, Assets
<1>4. active.status = "ACTIVE"
  OBVIOUS
<1>5. assets = [a \in Assets |-> IF a = "script" THEN <<draft, active>> ELSE <<draft, active, archived>>]
  BY DEF Init
<1>6. PICK drafted \in SUBSET Plans :
        revisions = [p \in Plans |-> IF p \notin drafted THEN <<>> ELSE <<first, second>>]
  BY DEF Init, pins
<1> HIDE DEF draft, active, archived, first, second
<1>7. /\ <<draft, active>> \in Seq(Repository!AssetRevision) /\ Len(<<draft, active>>) = 2
      /\ <<draft, active, archived>> \in Seq(Repository!AssetRevision)
      /\ Len(<<draft, active, archived>>) = 3 /\ <<draft, active>>[2] = active
  BY <1>1
<1>8. /\ assets \in [Assets -> Seq(Repository!AssetRevision)]
      /\ \A a \in Assets : Len(assets[a]) \in {2, 3}
  BY <1>5, <1>7
<1>9. assets["script"] = <<draft, active>>
  BY <1>5 DEF Assets, Repository!Assets
<1>10. /\ <<first, second>> \in Seq(Repository!PlanRevision) /\ <<>> \in Seq(Repository!PlanRevision)
       /\ Len(<<first, second>>) = 2
       /\ \A n \in 1..2 : <<first, second>>[n].pins = pins
  BY <1>3
<1>11. revisions \in [Plans -> Seq(Repository!PlanRevision)]
  BY <1>6, <1>10
<1>12. Refs(assets, pins)
  BY <1>2, <1>4, <1>7, <1>9 DEF Refs
<1>13. \A p \in Plans : revisions[p] = <<>> \/ revisions[p] = <<first, second>>
  BY <1>6
<1>14. \A p \in Plans : Version(p) \in {0, 2} /\ (Version(p) = 2 => revisions[p] = <<first, second>>)
  <2> SUFFICES ASSUME NEW p \in Plans
               PROVE  Version(p) \in {0, 2} /\ (Version(p) = 2 => revisions[p] = <<first, second>>)
    OBVIOUS
  <2>1. CASE revisions[p] = <<>>
    <3>1. Version(p) = 0
      BY <2>1 DEF Version
    <3> QED BY <3>1
  <2>2. CASE revisions[p] = <<first, second>>
    <3>1. Version(p) = 2
      BY <2>2, <1>10 DEF Version
    <3> QED BY <2>2, <3>1
  <2> QED BY <1>13, <2>1, <2>2
<1>15. ASSUME NEW p \in Plans, NEW n \in 1..Version(p) PROVE Refs(assets, revisions[p][n].pins)
  <2>1. Version(p) = 2
    BY <1>14
  <2>2. revisions[p] = <<first, second>> /\ n \in 1..2
    BY <2>1, <1>14
  <2>3. revisions[p][n].pins = pins
    BY <2>2, <1>10
  <2> QED BY <2>3, <1>12
<1>16. /\ \A a \in Assets : Len(assets[a]) \in 1..MaxRevision
       /\ \A p \in Plans : Version(p) \in 0..MaxRevision
  <2>1. {2, 3} \subseteq 1..MaxRevision /\ {0, 2} \subseteq 0..MaxRevision
    BY BoundsAssumption
  <2> QED BY <2>1, <1>8, <1>14
<1> QED BY <1>8, <1>11, <1>15, <1>16 DEF TablesInv

LEMMA PlanInit == Init => PlanInv
<1> SUFFICES ASSUME Init PROVE PlanInv
  OBVIOUS
<1>1. /\ batches = {} /\ runs = {} /\ pending = {} /\ requests = 0 /\ faults = 0
      /\ answer = [t \in Threads |-> Repository!Says("none")] /\ locks = [p \in Plans |-> Nobody]
      /\ pc = [t \in Threads |-> "idle"] /\ req = [t \in Threads |-> NoRequest]
      /\ dispatched = [row \in {"execute", "run"} \X (1..MaxRequests) |-> 0]
  BY DEF Init
<1>2. RowsInv /\ Cardinality({}) = 0
  BY <1>1, FS_EmptySet DEF RowsInv, Numbered, OneRowPerKey
<1>3. PoolInv /\ PendingInv
  BY <1>1 DEF PoolInv, PendingInv
<1>4. DispatchInv
  BY <1>1 DEF DispatchInv
<1>5. Budget
  <2>1. Serving = {}
    BY <1>1 DEF Serving
  <2> QED BY <1>1, <1>2, <2>1, FS_EmptySet, BoundsAssumption DEF Budget
<1>6. ASSUME NEW u \in Threads PROVE Thread(u)
  <2>1. pc[u] = "idle" /\ req[u] = NoRequest /\ NoRequest.op = "none" /\ answer[u] = Repository!Says("none")
    BY <1>1 DEF NoRequest
  <2>2. Shape(req[u], pc[u]) /\ Spoken(answer[u])
    BY <2>1, Words DEF Shape
  <2>3. Reader(u) /\ Writer(u) /\ Owner(u) /\ Inserter(u) /\ Dispatcher(u)
    BY <1>1, <2>1, ThreadsAssumption DEF Reader, Writer, Owner, Inserter, Dispatcher, Updating, Executing, Inserted
  <2> QED BY <2>2, <2>3 DEF Thread
<1> QED BY <1>2, <1>3, <1>4, <1>5, <1>6, InitTables DEF PlanInv

LEMMA PlanStutter == PlanInv /\ UNCHANGED vars => PlanInv'
<1> SUFFICES ASSUME PlanInv, UNCHANGED vars PROVE PlanInv'
  OBVIOUS
<1>1. UNCHANGED <<assets, revisions, batches, runs, answer, locks, pending, pc, req, dispatched, requests, faults>>
  BY DEF vars, tables, transactions
<1>2. TablesInv' /\ RowsInv'
  BY <1>1, SameTables, SameRows
<1>3. PoolInv' /\ PendingInv' /\ DispatchInv' /\ Budget'
  BY <1>1 DEF PlanInv, PoolInv, PendingInv, Rowset, DispatchInv, Table, Budget, Serving
<1>4. ASSUME NEW u \in Threads PROVE Thread(u)'
  <2>1. Shape(req[u], pc[u])' /\ Spoken(answer[u])'
    BY <1>1 DEF PlanInv, Thread, Shape, NoRequest, Creates, Updates, Flushed, Executes, RunRequests, Spoken
  <2>2. Reader(u)' /\ Owner(u)' /\ Inserter(u)' /\ Dispatcher(u)'
    BY <1>1 DEF PlanInv, Thread, Reader, Owner, Inserter, Inserted, Dispatcher, Table, Version, Updating, Executing
  <2>3. Writer(u)'
    BY <1>1 DEF PlanInv, Thread, Writer, Version, Updating, Executing, Repository!PlanTransition
  <2> QED BY <2>1, <2>2, <2>3 DEF Thread
<1> QED BY <1>2, <1>3, <1>4 DEF PlanInv

LEMMA PlanStep == PlanInv /\ [Next]_vars => PlanInv'
<1> SUFFICES ASSUME PlanInv, Next PROVE PlanInv'
  BY PlanStutter
<1>1. ASSUME NEW t \in Threads, Serve(t) PROVE PlanInv'
  BY <1>1, CreatePlanStep, LockForUpdateStep, RefusedStep, CommitUpdateStep, SourceOverrideStep,
     LookupBatchStep, LookupRunStep, InsertStep, ExpandFailsStep, CommitBatchStep, CommitRunStep,
     ResolveConflictStep, DispatchStep DEF Serve
<1> QED BY <1>1, RequestSteps, DieStep, UpdateAssetStep DEF Next

LEMMA PlanInvHolds == Spec => []PlanInv
BY PlanInit, PlanStep, PTL DEF Spec

-----------------------------------------------------------------------------
(* What the invariant says *)

\* However requests with one key interleave, are sent again, lose the race to
\* insert or die, the key names one row, and a row is dispatched at most once, by
\* the request that created it.
THEOREM RequestsStayIdempotent == Spec => []RequestsAreIdempotent
<1>1. PlanInv => RequestsAreIdempotent
  <2> SUFFICES ASSUME PlanInv PROVE RequestsAreIdempotent
    OBVIOUS
  <2>1. TypeOK
    <3>1. \A a \in Assets : assets[a] \in Seq(Repository!AssetRevision) /\ Len(assets[a]) <= MaxRevision
      BY DEF PlanInv, TablesInv
    <3>2. \A p \in Plans : revisions[p] \in Seq(Repository!PlanRevision) /\ Len(revisions[p]) <= MaxRevision
      BY DEF PlanInv, TablesInv, Version
    <3>3. \A t \in Threads :
            \/ answer[t] \in {Repository!Says(w) : w \in {"none", "saved", "conflict", "refused"}}
            \/ answer[t] \in {"replayed", "created"} \X (1..MaxRequests)
      BY DEF PlanInv, Thread, Spoken, Repository!Says
    <3>4. \A row \in pending : pc[row[3]] = "commit" /\ req[row[3]].op = row[1]
      <4> SUFFICES ASSUME NEW row \in pending PROVE pc[row[3]] = "commit" /\ req[row[3]].op = row[1]
        OBVIOUS
      <4>1. row[3] \in Threads
        BY DEF PlanInv, PendingInv, Rowset
      <4> QED BY <4>1 DEF PlanInv, Thread, Inserter, Inserted
    <3>5. \A p \in Plans : Held(p) => pc[locks[p]] \in {"insert", "commit"}
      BY DEF PlanInv, PoolInv, Held, Thread, Owner, Updating, Executing
    <3> QED BY <3>1, <3>2, <3>3, <3>4, <3>5 DEF TypeOK, PlanInv, PoolInv, Budget
  <2>2. OneRowPerKey
    BY DEF PlanInv, RowsInv
  <2>3. DispatchedOnce
    BY DEF PlanInv, DispatchInv, DispatchedOnce
  <2> QED BY <2>1, <2>2, <2>3 DEF RequestsAreIdempotent
<1> QED BY <1>1, PlanInvHolds, PTL

\* A batch runs exactly what the active revision it names pins, on a target that
\* was compared with that revision if the two are the same, and what any plan pins
\* stays there, active when it was pinned, whatever authors do meanwhile.
THEOREM BatchesRunTheirPins == Spec => []BatchRunsItsPins
<1>1. PlanInv => BatchRunsItsPins
  <2> SUFFICES ASSUME PlanInv PROVE BatchRunsItsPins
    OBVIOUS
  <2>1. BatchIsPinned
    BY DEF PlanInv, RowsInv, BatchRow, BatchIsPinned
  <2>2. TargetWasFit
    <3> SUFFICES ASSUME NEW b \in batches, b.checked = b.body[2], b.source = "pinned"
                 PROVE  ~HostSourced(b.pins)
      BY DEF TargetWasFit
    <3>1. BatchRow(b) /\ b.body[1] \in Plans
      BY DEF PlanInv, RowsInv, BatchRow
    <3>2. b.checked # 0
      BY <3>1 DEF BatchRow, PlanInv, TablesInv
    <3> QED BY <3>1, <3>2 DEF BatchRow, OnHost, HostSourced
  <2>3. PlansStayRunnable
    <3> SUFFICES ASSUME NEW p \in Plans, revisions[p] # <<>>
                 PROVE  Repository!References(Repository!Current(p).pins)
      BY DEF PlansStayRunnable
    <3>1. Version(p) \in Nat /\ Version(p) # 0
      BY DEF PlanInv, TablesInv, Version
    <3>2. Refs(assets, Repository!Current(p).pins)
      BY <3>1, CurrentIs DEF PlanInv, TablesInv
    <3>3. assets["script"] \in Seq(Repository!AssetRevision) /\ assets["environment"] \in Seq(Repository!AssetRevision)
      BY DEF PlanInv, TablesInv, Assets, Repository!Assets
    <3> QED BY <3>2, <3>3 DEF Refs, Repository!References, Repository!ActiveRevision
  <2> QED BY <2>1, <2>2, <2>3 DEF BatchRunsItsPins
<1> QED BY <1>1, PlanInvHolds, PTL

-----------------------------------------------------------------------------
(* The one-lock repository *)

RepositoryStep == Repository!Next \/ UNCHANGED <<Repository!Tables, answer>>

LEMMA SameCount == \A S : Repository!Cardinality(S) = Cardinality(S)
BY DEF Repository!Cardinality, Cardinality

LEMMA Quiet ==
    ASSUME UNCHANGED <<tables, answer>>
    PROVE  RepositoryStep
BY DEF RepositoryStep, Repository!Tables, tables

\* A refusal concludes nothing about the tables.
LEMMA Refuses ==
    ASSUME NEW t \in Threads, Return(t, Repository!Says("refused")), UNCHANGED tables
    PROVE  RepositoryStep
<1>1. Repository!Refuse(t)
  BY DEF Return, Answer, Repository!Refuse, Repository!Tables, tables
<1> QED BY <1>1 DEF RepositoryStep, Repository!Next

LEMMA RequestsImplement ==
    ASSUME NEW t \in Threads,
           CreatePlanRequest(t) \/ UpdatePlanRequest(t) \/ ExecuteRequest(t) \/ CreateRunRequest(t)
    PROVE  RepositoryStep
<1>1. Answer(t, Repository!Says("none")) /\ UNCHANGED tables
  BY DEF CreatePlanRequest, UpdatePlanRequest, ExecuteRequest, CreateRunRequest, Receive
<1>2. Repository!Ask(t)
  BY <1>1 DEF Answer, Repository!Ask, Repository!Tables, tables
<1> QED BY <1>2 DEF RepositoryStep, Repository!Next

LEMMA CreatePlanImplements ==
    ASSUME PlanInv, NEW t \in Threads, CreatePlan(t)
    PROVE  RepositoryStep
<1>1. PICK p \in Plans : p = req[t].plan
  BY Serves DEF CreatePlan, At, Creates
<1>2. Repository!CreatePlan(t, p)
  BY <1>1 DEF CreatePlan, Return, Answer, Repository!CreatePlan
<1> QED BY <1>2 DEF RepositoryStep, Repository!Next

LEMMA LockForUpdateImplements ==
    ASSUME PlanInv, NEW t \in Threads, LockForUpdate(t)
    PROVE  RepositoryStep
<1>1. req[t] \in Updates /\ req[t].op = "update" /\ pc[t] = "write" /\ UNCHANGED tables
  BY Serves DEF LockForUpdate, At
<1>2. PICK p \in Plans, n \in Nat : p = req[t].plan /\ n = req[t].expected
  BY <1>1 DEF Updates
<1>3. CASE n # Version(p) /\ Return(t, Repository!Says("conflict"))
  <2>1. n \in 1..Version(p) /\ Version(p) \in Nat
    BY <1>1, <1>2 DEF PlanInv, Thread, Reader, TablesInv
  <2>2. revisions[p] # <<>> /\ Len(revisions[p]) # n /\ n \in 0..Len(revisions[p])
    BY <1>3, <2>1 DEF Version
  <2>3. Repository!UpdatePlan(t, p, n)
    BY <1>1, <1>3, <2>2 DEF Return, Answer, Repository!UpdatePlan, tables
  <2> QED BY <2>2, <2>3 DEF RepositoryStep, Repository!Next
<1>4. CASE UNCHANGED answer
  BY <1>1, <1>4, Quiet
<1> QED BY <1>2, <1>3, <1>4 DEF LockForUpdate, Flush

LEMMA CommitUpdateImplements ==
    ASSUME PlanInv, NEW t \in Threads, CommitUpdate(t)
    PROVE  RepositoryStep
<1>1. Updating(t) /\ req[t] \in Flushed
  BY Serves DEF CommitUpdate, At, Updating
<1>2. PICK p \in Plans, v \in Repository!PlanRevision : p = req[t].plan /\ v = req[t].new
  BY <1>1 DEF Flushed
<1>3. /\ Version(p) \in 1..(MaxRevision - 1) /\ Refs(assets, v.pins) /\ v.base = Version(p)
      /\ Repository!PlanTransition(Repository!Current(p).status, v.status)
  BY <1>1, <1>2, CurrentIs DEF PlanInv, Thread, Writer
<1>4. PICK n \in Nat : n = Version(p)
  BY <1>2 DEF PlanInv, TablesInv
<1>5. revisions[p] # <<>> /\ Len(revisions[p]) = n /\ n \in 0..Len(revisions[p])
  BY <1>3, <1>4 DEF Version
<1>6. v = [status |-> v.status, pins |-> v.pins, base |-> n] /\ v.status \in {"DRAFT", "ACTIVE", "ARCHIVED"}
      /\ v.pins \in [Assets -> Nat]
  BY <1>3, <1>4 DEF Repository!PlanRevision, Assets
<1>7. v.pins \in Repository!Pins
  <2>1. assets["script"] \in Seq(Repository!AssetRevision) /\ assets["environment"] \in Seq(Repository!AssetRevision)
    BY DEF PlanInv, TablesInv, Assets, Repository!Assets
  <2>2. Repository!References(v.pins)
    BY <1>3, <2>1 DEF Refs, Repository!References, Repository!ActiveRevision
  <2>3. PICK s \in Nat, e \in Nat : s = Len(assets["script"]) /\ e = Len(assets["environment"])
    BY <2>1
  <2>4. v.pins["script"] \in 0..(s + e) /\ v.pins["environment"] \in 0..(s + e)
    <3>1. v.pins["script"] \in 1..s /\ v.pins["environment"] \in 0..e
      BY <1>3, <2>3 DEF Refs
    <3>2. 1..s \subseteq 0..(s + e) /\ 0..e \subseteq 0..(s + e)
      OBVIOUS
    <3> QED BY <3>1, <3>2, Zenon
  <2>5. v.pins \in [Assets -> 0..(s + e)]
    BY <1>6, <2>4 DEF Assets, Repository!Assets
  <2> QED BY <2>2, <2>3, <2>5 DEF Repository!Pins, Assets
<1>8. /\ revisions' = [revisions EXCEPT ![p] = Append(@, v)] /\ UNCHANGED <<assets, batches, runs>>
      /\ answer' = [answer EXCEPT ![t] = Repository!Says("saved")]
  BY <1>2 DEF CommitUpdate, Return, Answer
<1>9. Repository!UpdatePlan(t, p, n)
  BY <1>3, <1>5, <1>6, <1>7, <1>8 DEF Repository!UpdatePlan
<1> QED BY <1>5, <1>9 DEF RepositoryStep, Repository!Next

LEMMA SourceOverrideImplements ==
    ASSUME PlanInv, NEW t \in Threads, SourceOverride(t)
    PROVE  RepositoryStep
BY Refuses, Quiet DEF SourceOverride

\* A replay or a conflict is the answer of an execution or of a creation of a run.
LEMMA ResolvedImplements ==
    ASSUME PlanInv, NEW t \in Threads, req[t].op \in {"execute", "run"}, Resolved(t), UNCHANGED tables
    PROVE  RepositoryStep
<1>1. PICK row \in Existing(t) : answer' = [answer EXCEPT ![t] = Repository!Replayed(row, Body(t))]
  BY DEF Resolved, Return, Answer
<1>2. CASE req[t].op = "execute"
  <2>1. req[t] \in Executes
    BY <1>2, Serves
  <2>2. PICK p \in Plans, k \in Keys : p = req[t].plan /\ k = req[t].key
    BY <2>1 DEF Executes
  <2>3. revisions[p] # <<>>
    BY <1>2, <2>2 DEF PlanInv, Thread, Reader, TablesInv, Version
  <2>4. row \in Repository!Rows(batches, k) /\ Body(t) = Repository!BatchOf(p)
    BY <1>2, <2>2 DEF Existing, Table, Body
  <2>5. Repository!Execute(t, p, k)
    BY <1>1, <2>3, <2>4 DEF Repository!Execute, tables
  <2> QED BY <2>5 DEF RepositoryStep, Repository!Next
<1>3. CASE req[t].op = "run"
  <2>1. req[t] \in RunRequests
    BY <1>3, Serves
  <2>2. PICK k \in Keys \cup {NoKey}, f \in Fingerprints : k = req[t].key /\ f = req[t].body
    BY <2>1 DEF RunRequests
  <2>3. row \in Repository!Rows(runs, k) /\ Body(t) = f
    BY <1>3, <2>2 DEF Existing, Table, Body
  <2>4. Repository!CreateRun(t, k, f)
    BY <1>1, <2>3 DEF Repository!CreateRun, tables
  <2> QED BY <2>4 DEF RepositoryStep, Repository!Next
<1> QED BY <1>2, <1>3

LEMMA LookupBatchImplements ==
    ASSUME PlanInv, NEW t \in Threads, LookupBatch(t)
    PROVE  RepositoryStep
<1>1. req[t] \in Executes /\ req[t].op = "execute" /\ UNCHANGED tables
  BY Serves DEF LookupBatch, At
<1>2. PICK p \in Plans, k \in Keys : p = req[t].plan /\ k = req[t].key
  BY <1>1 DEF Executes
<1>3. CASE Resolved(t)
  BY <1>1, <1>3, ResolvedImplements
<1>4. CASE /\ Existing(t) = {} /\ Repository!Current(p).status # "ACTIVE"
           /\ Return(t, Repository!Says("conflict"))
  <2>1. revisions[p] # <<>>
    BY <1>1, <1>2 DEF PlanInv, Thread, Reader, TablesInv, Version
  <2>2. Repository!Rows(batches, k) = {}
    BY <1>1, <1>2, <1>4 DEF Existing, Table
  <2>3. Repository!Execute(t, p, k)
    BY <1>1, <1>4, <2>1, <2>2 DEF Repository!Execute, Return, Answer, tables
  <2> QED BY <2>3 DEF RepositoryStep, Repository!Next
<1>5. CASE UNCHANGED answer
  BY <1>1, <1>5, Quiet
<1> QED BY <1>2, <1>3, <1>4, <1>5 DEF LookupBatch

LEMMA LookupRunImplements ==
    ASSUME PlanInv, NEW t \in Threads, LookupRun(t)
    PROVE  RepositoryStep
BY ResolvedImplements, Quiet DEF LookupRun, At

LEMMA CommitBatchImplements ==
    ASSUME PlanInv, NEW t \in Threads, CommitBatch(t)
    PROVE  RepositoryStep
<1>1. req[t] \in Executes /\ req[t].op = "execute" /\ pc[t] = "commit" /\ Inserted(t) /\ Executing(t)
  BY Serves DEF CommitBatch, At, Inserted, Executing
<1>2. PICK p \in Plans, k \in Keys : p = req[t].plan /\ k = req[t].key
  BY <1>1 DEF Executes
<1> DEFINE row == [id |-> Cardinality(batches) + 1, key |-> k, body |-> req[t].seen,
                   pins |-> Repository!Current(p).pins, source |-> req[t].source,
                   checked |-> req[t].checked]
           new == [id : {Repository!Cardinality(batches) + 1}, key : {k}, body : {Repository!BatchOf(p)},
                   pins : {Repository!Current(p).pins}, source : {"pinned", "host"},
                   checked : 0..Len(revisions[p])]
<1>3. /\ batches' = batches \cup {row} /\ answer' = [answer EXCEPT ![t] = Repository!Created(row)]
      /\ UNCHANGED <<assets, revisions, runs>>
  BY <1>2 DEF CommitBatch, Answer
<1>4. /\ req[t].seen = Repository!BatchOf(p) /\ Repository!Current(p).status = "ACTIVE"
  BY <1>1, <1>2, CurrentIs DEF PlanInv, Thread, Writer, Repository!BatchOf, Version
<1>5. /\ Version(p) \in Nat /\ Version(p) >= 1 /\ req[t].checked \in 0..Version(p)
  BY <1>1, <1>2 DEF PlanInv, Thread, Reader, TablesInv
<1>6. revisions[p] # <<>> /\ req[t].checked \in 0..Len(revisions[p]) /\ req[t].source \in {"pinned", "host"}
  BY <1>1, <1>5 DEF Version, Executes
<1>7. row \in new
  BY <1>4, <1>6, SameCount
<1>8. Repository!Rows(batches, k) = {}
  <2>1. \A x \in batches : x.key = k => k = NoKey
    BY <1>1, <1>2 DEF PlanInv, Thread, Inserter, Table
  <2> QED BY <2>1, KeyAssumption DEF Repository!Rows
<1> HIDE DEF row
<1>9. Repository!Execute(t, p, k)
  BY <1>3, <1>4, <1>6, <1>7, <1>8 DEF Repository!Execute
<1> QED BY <1>9 DEF RepositoryStep, Repository!Next

LEMMA CommitRunImplements ==
    ASSUME PlanInv, NEW t \in Threads, CommitRun(t)
    PROVE  RepositoryStep
<1>1. req[t] \in RunRequests /\ req[t].op = "run" /\ Inserted(t)
  BY Serves DEF CommitRun, At, Inserted
<1>2. PICK k \in Keys \cup {NoKey}, f \in Fingerprints : k = req[t].key /\ f = req[t].body
  BY <1>1 DEF RunRequests
<1>3. Repository!Rows(runs, k) = {}
  <2>1. \A x \in runs : x.key = k => k = NoKey
    BY <1>1, <1>2 DEF PlanInv, Thread, Inserter, Table
  <2> QED BY <2>1 DEF Repository!Rows
<1>4. Repository!CreateRun(t, k, f)
  BY <1>2, <1>3, SameCount DEF CommitRun, Answer, Repository!CreateRun
<1> QED BY <1>4 DEF RepositoryStep, Repository!Next

LEMMA UpdateAssetImplements ==
    ASSUME NEW a \in Assets, UpdateAsset(a)
    PROVE  RepositoryStep
<1>1. Repository!UpdateAsset(a)
  BY DEF UpdateAsset, Last, Repository!UpdateAsset, Repository!Last, Repository!AssetTransition
<1> QED BY <1>1 DEF RepositoryStep, Repository!Next, Assets

LEMMA StepImplements == PlanInv /\ [Next]_vars => RepositoryStep
<1> SUFFICES ASSUME PlanInv, [Next]_vars PROVE RepositoryStep
  OBVIOUS
<1>1. CASE UNCHANGED vars
  BY <1>1, Quiet DEF vars
<1>2. ASSUME NEW t \in Threads, Serve(t) PROVE RepositoryStep
  <2>1. CASE Refused(t) \/ ExpandFails(t)
    BY <2>1, Refuses DEF Refused, ExpandFails
  <2>2. CASE Insert(t) \/ Dispatch(t)
    BY <2>2, Quiet DEF Insert, Dispatch
  <2>3. CASE ResolveConflict(t)
    BY <2>3, ResolvedImplements, Serves DEF ResolveConflict
  <2> QED BY <1>2, <2>1, <2>2, <2>3, CreatePlanImplements, LockForUpdateImplements,
             CommitUpdateImplements, SourceOverrideImplements, LookupBatchImplements,
             LookupRunImplements, CommitBatchImplements, CommitRunImplements DEF Serve
<1>3. ASSUME NEW t \in Threads, Die(t) PROVE RepositoryStep
  BY <1>3, Refuses DEF Die
<1> QED BY <1>1, <1>2, <1>3, RequestsImplement, UpdateAssetImplements DEF Next

\* The SQL repositories, whose requests run in several transactions of several
\* threads, give the answers and keep the tables of the repository with one lock.
THEOREM ImplementsRepository == Spec => RepositorySpec
<1>1. Init => PlanInv /\ Repository!Init
  BY PlanInit DEF Init, PlanInv, TablesInv, Repository!Init, Assets
<1>2. PlanInv /\ [Next]_vars => PlanInv' /\ [Repository!Next]_(<<Repository!Tables, answer>>)
  BY PlanStep, StepImplements DEF RepositoryStep
<1> QED BY <1>1, <1>2, PTL DEF Spec, RepositorySpec, Repository!Spec
=============================================================================
