----------------------------- MODULE HttpAdapter -----------------------------
(***************************************************************************)
(* HTTPAdapter of runner/adapters/http.py, which executes an HTTP task:    *)
(* its before steps, the main request and its after steps, one after the   *)
(* other, each with the values earlier ones extracted.  The adapter checks *)
(* what a host name resolves to and then connects by name; it leaves       *)
(* egress control to the network it runs in, so that a URL is accepted or  *)
(* refused here and where the connection goes is not modelled.             *)
(***************************************************************************)
EXTENDS Naturals, Sequences, FiniteSets

CONSTANTS Plans   \* bound: the steps of a task, in order

\* The names that templates need, extractions must give, and may offer.
Steps ==
    [phase : {"before", "main", "after"}, required : BOOLEAN,
     needs : SUBSET STRING, gives : SUBSET STRING, offers : SUBSET STRING]

\* The before steps of a task come first, then its one main request.
ASSUME PlansAssumption ==
    \A p \in Plans :
        /\ p \in Seq(Steps)
        /\ \E m \in DOMAIN p : \A i \in DOMAIN p :
              p[i].phase = IF i < m THEN "before" ELSE IF i = m THEN "main" ELSE "after"

VARIABLES
    plan,      \* steps: phase, required, and the names their templates need,
               \* their extractions give, or offer (extractions not required)
    at,        \* the step under way; 0 before the first, beyond the last at the end
    asking,    \* the request of the step has been sent and is being answered
    expired,   \* the task's deadline has passed
    context,   \* names that have a value
    primary,   \* the result so far, or "none"
    outcomes   \* of every step, or "skipped"; "raised" if an exception left run

adapterVars == <<plan, at, asking, expired, context, primary, outcomes>>

Outcomes == {"SUCCEEDED", "FAILED", "TIMED_OUT", "INFRA_ERROR"}
PhaseSteps(ph) == {i \in DOMAIN plan : plan[i].phase = ph}

AdapterInit ==
    /\ at = 0 /\ asking = FALSE /\ expired = FALSE /\ context = {} /\ primary = "none"
    /\ outcomes = [i \in DOMAIN plan |-> "skipped"]

AdapterEnded == at > Len(plan)
Running == at \in DOMAIN plan

DeadlinePasses ==
    /\ ~expired /\ ~AdapterEnded
    /\ expired' = TRUE
    /\ UNCHANGED <<plan, at, asking, context, primary, outcomes>>

\* A task whose deadline has passed executes no step, not even its after steps.
StartTask ==
    /\ at = 0 /\ plan # <<>>
    /\ IF expired THEN at' = Len(plan) + 1 /\ primary' = "TIMED_OUT"
                  ELSE at' = 1 /\ UNCHANGED primary
    /\ UNCHANGED <<plan, asking, expired, context, outcomes>>

-----------------------------------------------------------------------------
Decides(i) == plan[i].phase = "main" \/ plan[i].required
Failed(outcome) == Decides(at) /\ outcome # "SUCCEEDED"

FirstAfterStep == Len(plan) + 1 - Cardinality(PhaseSteps("after"))

\* Mutant: a required before step that fails ends the task.
StopAtFailure(outcome) ==
    IF plan[at].phase = "before" /\ Failed(outcome) THEN Len(plan) + 1 ELSE at + 1

\* A required before step that fails leads to the after steps.
NextStep(outcome) ==
    IF plan[at].phase = "before" /\ Failed(outcome) THEN FirstAfterStep ELSE at + 1

\* What run makes of a step's outcome: the first failure that decides is kept.
Primary(outcome) ==
    CASE plan[at].phase = "before" -> IF Failed(outcome) THEN outcome ELSE primary
      [] plan[at].phase = "main" -> outcome
      [] plan[at].phase = "after" ->
            IF Failed(outcome) /\ primary = "SUCCEEDED" THEN outcome ELSE primary

EndStep(outcome, extracted) ==
    /\ outcomes' = [outcomes EXCEPT ![at] = outcome]
    /\ context' = context \cup extracted
    /\ primary' = Primary(outcome)
    /\ at' = NextStep(outcome) /\ asking' = FALSE
    /\ UNCHANGED <<plan, expired>>

\* _substitute: every template of the request has a value.
Substituted == plan[at].needs \subseteq context

\* A template without a value; or the URL, its addresses, a header, the timeout
\* or a status code is refused.
InvalidStep == Running /\ ~asking /\ EndStep("FAILED", {})

\* deadline_remaining raises once the request has been found valid.
DeadlineExceeded == Running /\ ~asking /\ Substituted /\ expired /\ EndStep("TIMED_OUT", {})

SendRequest ==
    /\ Running /\ ~asking /\ Substituted /\ ~expired
    /\ asking' = TRUE
    /\ UNCHANGED <<plan, at, expired, context, primary, outcomes>>

RequestFails ==
    /\ asking
    /\ \E outcome \in {"TIMED_OUT", "INFRA_ERROR"} : EndStep(outcome, {})

\* A required extraction finds nothing: none of the step's values is kept.
ExtractionFails == asking /\ plan[at].gives # {} /\ EndStep("FAILED", {})

\* The assertions pass or fail, and the values are extracted either way.
StepAnswered ==
    /\ asking
    /\ \E passed \in BOOLEAN, found \in SUBSET plan[at].offers :
          EndStep(IF passed THEN "SUCCEEDED" ELSE "FAILED", plan[at].gives \cup found)

\* An exception that no handler of _execute names leaves run: the IndexError of a
\* JSON path beyond the end of a list, required or not, in an assertion or in an
\* extraction; a number that float or int finds too large; an argument that requests
\* refuses with anything but a RequestException.  The agent makes it a result.
StepRaises ==
    /\ Running /\ Substituted
    /\ outcomes' = [outcomes EXCEPT ![at] = "raised"]
    /\ primary' = "INFRA_ERROR"
    /\ at' = Len(plan) + 1 /\ asking' = FALSE
    /\ UNCHANGED <<plan, expired, context>>

AdapterStep ==
    \/ StartTask \/ InvalidStep \/ DeadlineExceeded \/ SendRequest \/ RequestFails
    \/ ExtractionFails \/ StepAnswered \/ StepRaises

-----------------------------------------------------------------------------
AdapterTypeOK ==
    /\ at \in 0..(Len(plan) + 1) /\ (asking => Running)
    /\ primary \in Outcomes \cup {"none"} /\ (AdapterEnded => primary # "none")

\* Once a task has begun, each of its after steps is executed, whatever failed
\* or timed out before it: they undo what the steps before them set up.  Those
\* behind a step that raised are the only ones that are not.
AfterStepsRun ==
    AdapterEnded /\ outcomes[1] # "skipped" =>
        \A i \in PhaseSteps("after") :
            outcomes[i] = "skipped" => \E j \in DOMAIN plan : j < i /\ outcomes[j] = "raised"

\* The task's outcome is that of the first step that failed among the main
\* request and the required steps, and success if none of them did; or
\* INFRA_ERROR if a step raised, whatever failed before it.
OutcomeIsFirstFailure ==
    AdapterEnded /\ outcomes[1] # "skipped" =>
        LET failures == {i \in DOMAIN plan : Decides(i) /\ outcomes[i] \notin {"SUCCEEDED", "skipped"}}
        IN  IF \E i \in DOMAIN plan : outcomes[i] = "raised" THEN primary = "INFRA_ERROR"
            ELSE \/ failures = {} /\ primary = "SUCCEEDED"
                 \/ \E i \in failures : primary = outcomes[i] /\ \A j \in failures : i <= j
=============================================================================
