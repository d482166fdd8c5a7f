---------------------------- MODULE RunRepository ----------------------------
(***************************************************************************)
(* The rows of the runs and attempts tables and the transactions of        *)
(* services/api/sql_repository.py.  Every operation below is one database  *)
(* transaction on rows it has locked, so it is one atomic step; a caller   *)
(* that issues several of them takes several steps.                        *)
(*                                                                         *)
(* An attempt is the pair <<r, n>>: the n-th row inserted for run r.  The  *)
(* lease deadline lease_expires_at is kept as the time left until it, so   *)
(* that "lease_expires_at <= now" is "lease = 0" and time needs no bound.  *)
(***************************************************************************)
EXTENDS RunDomain, Naturals, FiniteSets

CONSTANTS
    Runs,          \* the runs of one execution batch, numbered by position
    AttemptBound,  \* bound: attempt rows a run may have in the model
    LeaseSeconds   \* how long a claim or a heartbeat keeps the lease

ASSUME RepositoryAssumption ==
    /\ Runs \subseteq Nat /\ IsFiniteSet(Runs)
    /\ AttemptBound \in Nat \ {0}
    /\ LeaseSeconds \in Nat \ {0}

VARIABLES
    run,      \* state column of each run
    made,     \* number of attempt rows of each run (len(list_attempts))
    attempt,  \* state column of each attempt, "ABSENT" before it is inserted
    lease     \* time left until lease_expires_at

repoVars == <<run, made, attempt, lease>>

Attempts == Runs \X (1..AttemptBound)

RepositoryTypeOK ==
    /\ run \in [Runs -> RunState]
    /\ made \in [Runs -> 0..AttemptBound]
    /\ attempt \in [Attempts -> AttemptState \cup {"ABSENT"}]
    /\ lease \in [Attempts -> 0..LeaseSeconds]

RepositoryInit ==
    /\ run = [r \in Runs |-> "CREATED"]
    /\ made = [r \in Runs |-> 0]
    /\ attempt = [a \in Attempts |-> "ABSENT"]
    /\ lease = [a \in Attempts |-> 0]

Leased(a) == attempt[a] \in ATTEMPT_LEASED
Terminal(r) == run[r] \in RUN_TERMINAL

-----------------------------------------------------------------------------
CanTransition(r, target) == target \in RUN_TRANSITIONS(run[r])

Transition(r, target) ==
    /\ CanTransition(r, target)
    /\ run' = [run EXCEPT ![r] = target]
    /\ UNCHANGED <<made, attempt, lease>>

\* A cancel of a terminal run is refused and of a cancelling run changes nothing.
Cancel(r) ==
    /\ ~Terminal(r)
    /\ run[r] # "CANCELLING"
    /\ Transition(r, "CANCELLING")

\* Mutant: the row is inserted whatever state the run is in.
BeginAttemptUnchecked(r) ==
    /\ made[r] < AttemptBound
    /\ run' = [run EXCEPT ![r] = "RUNNING"]
    /\ made' = [made EXCEPT ![r] = @ + 1]
    /\ attempt' = [attempt EXCEPT ![<<r, made[r] + 1>>] = "CLAIMED"]
    /\ lease' = [lease EXCEPT ![<<r, made[r] + 1>>] = LeaseSeconds]

\* The run becomes RUNNING and its next attempt row appears, already CLAIMED.
BeginAttempt(r) ==
    /\ CanTransition(r, "RUNNING")
    /\ made[r] < AttemptBound
    /\ run' = [run EXCEPT ![r] = "RUNNING"]
    /\ made' = [made EXCEPT ![r] = @ + 1]
    /\ attempt' = [attempt EXCEPT ![<<r, made[r] + 1>>] = "CLAIMED"]
    /\ lease' = [lease EXCEPT ![<<r, made[r] + 1>>] = LeaseSeconds]

CanTransitionAttempt(a, target) == target \in ATTEMPT_TRANSITIONS(attempt[a])

\* Mutant: the new state is written without looking at the old one.
TransitionAttemptUnchecked(a, target) ==
    /\ attempt' = [attempt EXCEPT ![a] = target]
    /\ UNCHANGED <<run, made, lease>>

TransitionAttempt(a, target) ==
    /\ CanTransitionAttempt(a, target)
    /\ attempt' = [attempt EXCEPT ![a] = target]
    /\ UNCHANGED <<run, made, lease>>

\* The row's outcome, summary and completion time are functions of the state.
CompleteAttempt(a, outcome) == TransitionAttempt(a, outcome)

CanRenew(a) == Leased(a) /\ lease[a] > 0

RenewAttemptLease(a) ==
    /\ CanRenew(a)
    /\ lease' = [lease EXCEPT ![a] = LeaseSeconds]
    /\ UNCHANGED <<run, made, attempt>>

Expired == {a \in Attempts : Leased(a) /\ lease[a] = 0}

\* Mutant: the run of a lost attempt is left alone.
ExpireKeepsRun(S) ==
    /\ S \subseteq Expired /\ S # {}
    /\ attempt' = [a \in Attempts |-> IF a \in S THEN "LOST" ELSE attempt[a]]
    /\ UNCHANGED <<run, made, lease>>

\* Mutant: the run gets the attempt's state.
ExpireLosesRun(S) ==
    /\ S \subseteq Expired /\ S # {}
    /\ attempt' = [a \in Attempts |-> IF a \in S THEN "LOST" ELSE attempt[a]]
    /\ run' = [r \in Runs |-> IF \E a \in S : a[1] = r THEN "LOST" ELSE run[r]]
    /\ UNCHANGED <<made, lease>>

\* One reaper transaction over the expired rows it could lock (skip_locked).
\* with_state raises, and rolls everything back, on a run that may not fail.
ExpireAttemptLeases(S) ==
    LET hit == {r \in Runs : ~Terminal(r) /\ \E a \in S : a[1] = r}
    IN  /\ S \subseteq Expired /\ S # {}
        /\ \A r \in hit : CanTransition(r, "INFRA_ERROR")
        /\ attempt' = [a \in Attempts |-> IF a \in S THEN "LOST" ELSE attempt[a]]
        /\ run' = [r \in Runs |-> IF r \in hit THEN "INFRA_ERROR" ELSE run[r]]
        /\ UNCHANGED <<made, lease>>

\* Time passes towards every lease deadline.
Tick ==
    /\ \E a \in Attempts : CanRenew(a)
    /\ lease' = [a \in Attempts |-> IF lease[a] > 0 THEN lease[a] - 1 ELSE 0]
    /\ UNCHANGED <<run, made, attempt>>
-----------------------------------------------------------------------------
(* What every composition of the repository's callers must keep.          *)

\* An attempt holds a lease only while its run is RUNNING or CANCELLING: no
\* path of the manager, the convergence of errors or the reaper settles a run
\* under a live attempt, and none leaves an attempt live that a later poll,
\* retry or batch claim would run beside.
LeaseHasLiveRun ==
    \A a \in Attempts : Leased(a) => run[a[1]] \in {"RUNNING", "CANCELLING"}

\* The verdict of a run is the verdict of its attempt: a final state other
\* than INFRA_ERROR was reported by the last attempt, and a lost attempt
\* always means INFRA_ERROR, even if its worker reports a result later.
VerdictIsBacked ==
    \A r \in Runs :
        /\ Terminal(r) /\ run[r] # "INFRA_ERROR" =>
              made[r] > 0 /\ attempt[<<r, made[r]>>] = run[r]
        /\ \A n \in 1..AttemptBound : attempt[<<r, n>>] = "LOST" => run[r] = "INFRA_ERROR"

\* Terminal states are irreversible, for runs and for attempts, whatever a
\* late worker, a cancel, a refill or the reaper still tries to write.
TerminalIsFinal ==
    [][/\ \A r \in Runs : Terminal(r) => run'[r] = run[r]
       /\ \A a \in Attempts : attempt[a] \in ATTEMPT_TERMINAL => attempt'[a] = attempt[a]]_repoVars
=============================================================================
