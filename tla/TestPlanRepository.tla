------------------------- MODULE TestPlanRepository -------------------------
(***************************************************************************)
(* What the in-memory repositories for test plans, executions and runs     *)
(* promise: each takes one lock (test_plan_repository.py, repository.py),  *)
(* so every operation, answer included, is one step.  PlanExecution models *)
(* the SQL repositories that run in production and implements this.        *)
(*                                                                         *)
(* A plan is the sequence of its revisions.  An item pins a revision of a  *)
(* script and may pin one of an environment (0: none); asset revisions are *)
(* never changed once written.  A batch or a run is a row with the         *)
(* idempotency key it was asked for with and what it was asked for.        *)
(***************************************************************************)
EXTENDS Naturals, Sequences, SequencesExt, FiniteSets

CONSTANTS Plans, Keys, Fingerprints, Threads, NoKey

VARIABLES assets,       \* revisions of the script and of the environment
          revisions,    \* revisions of each plan
          batches,      \* execution batches
          runs,         \* runs created on their own
          answer        \* the answer to each thread's last request

Assets == {"script", "environment"}
Sources == {"sealed", "host"}

AssetRevision == [status : {"DRAFT", "ACTIVE", "ARCHIVED"}, source : Sources]
PlanRevision == [status : {"DRAFT", "ACTIVE", "ARCHIVED"}, pins : [Assets -> Nat],
                 base : Nat]     \* the revision its author had read

\* PLAN_TRANSITIONS and SCRIPT_TRANSITIONS: an archived plan is final, an
\* archived script can be activated again
PlanTransition(from, to) ==
    from # "ARCHIVED" /\ (to = from \/ <<from, to>> \in {<<"DRAFT", "ACTIVE">>,
                                                       <<"ACTIVE", "ARCHIVED">>})
AssetTransition(from, to) ==
    \/ to = from /\ from # "ARCHIVED"
    \/ <<from, to>> \in {<<"DRAFT", "ACTIVE">>, <<"ACTIVE", "ARCHIVED">>, <<"ARCHIVED", "ACTIVE">>}

\* a reference is good when the revision exists and was active when written
ActiveRevision(a, n) == n \in DOMAIN assets[a] /\ assets[a][n].status = "ACTIVE"

\* _validate_references
References(pins) ==
    /\ ActiveRevision("script", pins["script"])
    /\ pins["environment"] = 0 \/ ActiveRevision("environment", pins["environment"])

Pins == {pins \in [Assets -> 0..(Len(assets["script"]) + Len(assets["environment"]))] : References(pins)}

Current(p) == Last(revisions[p])

\* what a batch of plan p's current revision is identified by, and its content
BatchOf(p) == <<p, Len(revisions[p])>>

Tables == <<assets, revisions, batches, runs>>

Rows(table, k) == {row \in table : k # NoKey /\ row.key = k}

\* execute and create_or_get: a known key answers with its row or a conflict,
\* a new one with a new row
Says(word) == <<word, 0>>
Replayed(row, body) == IF row.body = body THEN <<"replayed", row.id>> ELSE Says("conflict")
Created(row) == <<"created", row.id>>

Init ==
    /\ assets \in [Assets -> Seq(AssetRevision)]
    /\ revisions \in [Plans -> Seq(PlanRevision)]
    /\ batches = {} /\ runs = {}
    /\ answer = [t \in Threads |-> Says("none")]

Ask(t) == answer' = [answer EXCEPT ![t] = Says("none")] /\ UNCHANGED Tables

\* every error that reaches no conclusion about the tables
Refuse(t) == answer' = [answer EXCEPT ![t] = Says("refused")] /\ UNCHANGED Tables

CreatePlan(t, p) ==
    /\ revisions[p] = <<>>
    /\ \E pins \in Pins :
          revisions' = [revisions EXCEPT ![p] = <<[status |-> "DRAFT", pins |-> pins, base |-> 0]>>]
    /\ answer' = [answer EXCEPT ![t] = Says("saved")]
    /\ UNCHANGED <<assets, batches, runs>>

UpdatePlan(t, p, expected) ==
    /\ revisions[p] # <<>>
    /\ \/ /\ Len(revisions[p]) # expected
          /\ answer' = [answer EXCEPT ![t] = Says("conflict")] /\ UNCHANGED revisions
       \/ /\ Len(revisions[p]) = expected
          /\ \E pins \in Pins, status \in {"DRAFT", "ACTIVE", "ARCHIVED"} :
                /\ PlanTransition(Current(p).status, status)
                /\ revisions' = [revisions EXCEPT ![p] = Append(@,
                                   [status |-> status, pins |-> pins, base |-> expected])]
          /\ answer' = [answer EXCEPT ![t] = Says("saved")]
    /\ UNCHANGED <<assets, batches, runs>>

UpdateAsset(a) ==
    /\ \E new \in AssetRevision :
          /\ AssetTransition(Last(assets[a]).status, new.status)
          /\ assets' = [assets EXCEPT ![a] = Append(@, new)]
    /\ UNCHANGED <<revisions, batches, runs, answer>>

Execute(t, p, k) ==
    /\ revisions[p] # <<>>
    /\ \/ \E row \in Rows(batches, k) :
             /\ answer' = [answer EXCEPT ![t] = Replayed(row, BatchOf(p))]
             /\ UNCHANGED batches
       \/ /\ Rows(batches, k) = {} /\ Current(p).status # "ACTIVE"
          /\ answer' = [answer EXCEPT ![t] = Says("conflict")] /\ UNCHANGED batches
       \/ /\ Rows(batches, k) = {} /\ Current(p).status = "ACTIVE"
          /\ \E row \in [id : {Cardinality(batches) + 1}, key : {k}, body : {BatchOf(p)},
                         pins : {Current(p).pins}, source : {"pinned", "host"},
                         checked : 0..Len(revisions[p])] :
                batches' = batches \union {row} /\ answer' = [answer EXCEPT ![t] = Created(row)]
    /\ UNCHANGED <<assets, revisions, runs>>

CreateRun(t, k, f) ==
    /\ \/ \E row \in Rows(runs, k) :
             answer' = [answer EXCEPT ![t] = Replayed(row, f)] /\ UNCHANGED runs
       \/ /\ Rows(runs, k) = {}
          /\ LET row == [id |-> Cardinality(runs) + 1, key |-> k, body |-> f]
             IN  runs' = runs \union {row} /\ answer' = [answer EXCEPT ![t] = Created(row)]
    /\ UNCHANGED <<assets, revisions, batches>>

Next ==
    \/ \E t \in Threads :
          \/ Ask(t) \/ Refuse(t)
          \/ \E p \in Plans : CreatePlan(t, p) \/ \E n \in 0..Len(revisions[p]) : UpdatePlan(t, p, n)
          \/ \E p \in Plans, k \in Keys : Execute(t, p, k)
          \/ \E k \in Keys \union {NoKey}, f \in Fingerprints : CreateRun(t, k, f)
    \/ \E a \in Assets : UpdateAsset(a)

Spec == Init /\ [][Next]_<<Tables, answer>>
=============================================================================
