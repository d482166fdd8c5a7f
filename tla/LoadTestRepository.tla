------------------------- MODULE LoadTestRepository -------------------------
(***************************************************************************)
(* What a load test repository promises: load_test_repository.py, where    *)
(* every operation holds one lock.  One load test, its runs and the        *)
(* numbers of the responses kept for each run.  An operation that raises   *)
(* changes nothing, and is a stuttering step.                              *)
(***************************************************************************)
EXTENDS Naturals

CONSTANTS
    RunIds,       \* identities of runs
    Plans,        \* settings a definition can have: records with a field mode
    NoPlan,       \* the definition before it is created and after it is deleted
    MaxTotal,     \* bound: requests one run makes
    Errors        \* values of error_message

VARIABLES
    plan,         \* the definition's settings, or NoPlan
    row,          \* per run: the row in load_test_runs
    responses     \* per run: the numbers of the responses stored for it

repositoryVars == <<plan, row, responses>>

RunStatus == {"RUNNING", "SUCCEEDED", "FAILED"}
NoRow == [status |-> "ABSENT", mode |-> "NONE", total |-> 0, error |-> "none"]
Rows == {NoRow} \cup
        [status : RunStatus, mode : {p.mode : p \in Plans}, total : 0..MaxTotal, error : Errors]

Init ==
    /\ plan = NoPlan
    /\ row = [r \in RunIds |-> NoRow]
    /\ responses = [r \in RunIds |-> {}]

ActiveRun == {r \in RunIds : row[r].status = "RUNNING"}

CreateLoadTest ==
    /\ plan = NoPlan /\ row = [r \in RunIds |-> NoRow]
    /\ plan' \in Plans
    /\ UNCHANGED <<row, responses>>

UpdateLoadTest ==
    /\ plan # NoPlan
    /\ plan' \in Plans
    /\ UNCHANGED <<row, responses>>

DeleteLoadTest ==
    /\ plan # NoPlan /\ ActiveRun = {}
    /\ plan' = NoPlan
    /\ row' = [r \in RunIds |-> NoRow]
    /\ responses' = [r \in RunIds |-> {}]

CreateRun(r) ==
    /\ plan # NoPlan /\ ActiveRun = {} /\ row[r] = NoRow
    /\ row' = [row EXCEPT ![r] = [status |-> "RUNNING", mode |-> plan.mode,
                                  total |-> 0, error |-> "none"]]
    /\ UNCHANGED <<plan, responses>>

AddRunResponses(r) ==
    /\ row[r] # NoRow
    /\ \E numbers \in SUBSET (1..MaxTotal) :
          responses' = [responses EXCEPT ![r] = @ \cup numbers]
    /\ UNCHANGED <<plan, row>>

UpdateRun(r) ==
    /\ row[r].status = "RUNNING"
    /\ \E new \in Rows \ {NoRow} :
          /\ new.mode = row[r].mode
          /\ row' = [row EXCEPT ![r] = new]
    /\ UNCHANGED <<plan, responses>>

RecoverRunningRuns ==
    /\ row' = [r \in RunIds |->
          IF row[r].status = "RUNNING"
          THEN [row[r] EXCEPT !.status = "FAILED", !.error = "interrupted"] ELSE row[r]]
    /\ UNCHANGED <<plan, responses>>

Next ==
    \/ CreateLoadTest \/ UpdateLoadTest \/ DeleteLoadTest \/ RecoverRunningRuns
    \/ \E r \in RunIds : CreateRun(r) \/ AddRunResponses(r) \/ UpdateRun(r)

Spec == Init /\ [][Next]_repositoryVars
=============================================================================
