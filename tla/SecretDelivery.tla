--------------------------- MODULE SecretDelivery ---------------------------
(***************************************************************************)
(* A secret from the form of an environment to the container of a run.     *)
(* Revisions of one environment keep it encrypted (environment_repository, *)
(* environment_sql_repository, environment_crypto); an attempt of a run    *)
(* that is pinned to a revision gets it by a capability that is good once  *)
(* (secret_broker, secret_grant_sql_repository), as files that exist while *)
(* its container does (secret_files, docker_executor).  In the meantime    *)
(* the environment is edited, attempts end, leases and grants expire, and  *)
(* databases, disks, docker and executors fail.                            *)
(***************************************************************************)
EXTENDS Naturals, Sequences, FiniteSets

CONSTANTS
    Names,         \* names of secrets
    Values,        \* what they may be set to
    Inputs,        \* forms: functions from Names to {"keep", "drop"} or a value
    Editors,
    MaxAttempts,   \* attempts of the run
    MaxRevision,
    MaxFaults      \* failed calls, crashes and changes of the key

ASSUME SecretAssumption ==
    /\ Inputs \subseteq [Names -> {"keep", "drop"} \cup Values]
    /\ MaxFaults \in Nat /\ {MaxRevision, MaxAttempts} \subseteq Nat \ {0}

Attempts == 1..MaxAttempts
Statuses == {"DRAFT", "ACTIVE", "ARCHIVED"}
Keys == {"old key", "new key"}
Absent == "absent"
NoFiles == [n \in Names |-> Absent]

VARIABLES
    revisions,    \* of the environment, in order
    seen,         \* per editor: the revision on its page, 0 if none
    key,          \* the key the API and the executors are configured with
    pin,          \* the revision the run is pinned to, 0 before it exists
    attempt,      \* per attempt: "none", "active" (PREPARING, RUNNING) or "ended"
    lease,        \* per attempt: its lease has not expired
    grant,        \* per attempt: what has become of its capability
    pc, values,   \* per attempt: its executor, and the values it holds
    files,        \* per attempt: what is in its secret directory
    container,    \* per attempt: its container is running
    faults

environment == <<revisions, seen, key>>
run == <<pin, attempt, lease>>
vars == <<environment, run, grant, pc, values, files, container, faults>>

Init ==
    /\ revisions = <<>> /\ seen = [e \in Editors |-> 0] /\ key = "old key"
    /\ pin = 0 /\ attempt = [a \in Attempts |-> "none"] /\ lease = [a \in Attempts |-> FALSE]
    /\ grant = [a \in Attempts |-> {}] /\ pc = [a \in Attempts |-> "idle"]
    /\ values = [a \in Attempts |-> NoFiles] /\ files = [a \in Attempts |-> NoFiles]
    /\ container = [a \in Attempts |-> FALSE] /\ faults = 0

Fault == faults < MaxFaults /\ faults' = faults + 1

-----------------------------------------------------------------------------
(* SecretEncryptor: a sealed value opens only with its key and with the    *)
(* revision and the name it was sealed for                                 *)

Seal(value, revision, name) ==
    [value |-> value, revision |-> revision, name |-> name, key |-> key]
Opens(sealed, revision, name) ==
    sealed.key = key /\ sealed.revision = revision /\ sealed.name = name

-----------------------------------------------------------------------------
(* The environment: create_environment, update_environment                 *)

Current == Len(revisions)
Secrets(r) == DOMAIN revisions[r].sealed

\* A secret is kept by the reference of the revision that the form came from.
Accepted(form, from) ==
    \A n \in Names : form[n] = "keep" =>
        Current > 0 /\ from = Current /\ n \in Secrets(Current)
        /\ Opens(revisions[Current].sealed[n], Current, n)

Plain(form, n) == IF form[n] = "keep" THEN revisions[Current].plain[n] ELSE form[n]

\* build_configuration_values: what is kept is sealed again for the new revision.
BuildConfigurationValues(form) ==
    [n \in {m \in Names : form[m] # "drop"} |-> Seal(Plain(form, n), Current + 1, n)]

Revision(form, status, from) ==
    [status |-> status, basis |-> from, sealed |-> BuildConfigurationValues(form),
     plain |-> [n \in Names |-> IF form[n] = "drop" THEN Absent ELSE Plain(form, n)]]

EnvironmentOnly ==
    UNCHANGED <<key, run, grant, pc, values, files, container, faults>>

CreateEnvironment(form) ==
    /\ Current = 0 /\ Accepted(form, 0)
    /\ revisions' = <<Revision(form, "DRAFT", 0)>>
    /\ UNCHANGED seen /\ EnvironmentOnly

GetEnvironment(e) ==
    /\ Current > 0 /\ seen' = [seen EXCEPT ![e] = Current]
    /\ UNCHANGED revisions /\ EnvironmentOnly

\* validate_environment_transition
Transition(from, to) == from # "ARCHIVED" /\ (to = from \/ <<from, to>> \in
    {<<"DRAFT", "ACTIVE">>, <<"ACTIVE", "ARCHIVED">>})

UpdateEnvironment(e, form, status) ==
    /\ seen[e] > 0 /\ Current < MaxRevision
    /\ seen[e] = Current                          \* expected_version
    /\ Transition(revisions[Current].status, status) /\ Accepted(form, seen[e])
    /\ revisions' = Append(revisions, Revision(form, status, seen[e]))
    /\ UNCHANGED seen /\ EnvironmentOnly

\* The API and the executors are started again with another key.
RotateKey ==
    /\ Fault /\ key' \in Keys \ {key}
    /\ UNCHANGED <<revisions, seen, run, grant, pc, values, files, container>>

-----------------------------------------------------------------------------
(* The run and its attempts, as far as the broker looks at them            *)

RunOnly == UNCHANGED <<environment, pc, values, files, container, faults>>

CreateRun ==
    /\ pin = 0 /\ Current > 0 /\ Secrets(Current) # {}
    /\ pin' = Current /\ attempt' = [attempt EXCEPT ![1] = "active"]
    /\ lease' = [lease EXCEPT ![1] = TRUE] /\ UNCHANGED grant /\ RunOnly

\* It is reported, cancelled or reaped; a retry may follow.
AttemptEnds(a) ==
    /\ attempt[a] = "active"
    /\ \/ /\ attempt' = [attempt EXCEPT ![a] = "ended"]
          /\ lease' = [lease EXCEPT ![a] = FALSE]
       \/ /\ a + 1 \in Attempts
          /\ attempt' = [attempt EXCEPT ![a] = "ended", ![a + 1] = "active"]
          /\ lease' = [lease EXCEPT ![a] = FALSE, ![a + 1] = TRUE]
    /\ UNCHANGED <<pin, grant>> /\ RunOnly

\* A grant expires no later than the lease did when it was issued; the time is
\* looked at only while the attempt is active and the grant unused.
LeaseExpires(a) ==
    /\ attempt[a] = "active" /\ lease[a] /\ lease' = [lease EXCEPT ![a] = FALSE]
    /\ grant' = [grant EXCEPT ![a] = IF @ = {"issued"} THEN @ \cup {"expired"} ELSE @]
    /\ UNCHANGED <<pin, attempt>> /\ RunOnly

GrantExpires(a) ==
    /\ grant[a] = {"issued"} /\ grant' = [grant EXCEPT ![a] = @ \cup {"expired"}]
    /\ UNCHANGED run /\ RunOnly

-----------------------------------------------------------------------------
(* SecretBroker and its store: each call of the store is a transaction     *)
(* that locks the attempt or updates the grant where it still applies      *)

ValidAttempt(a) == attempt[a] = "active" /\ lease[a]
Step(a, from, to) == pc[a] = from /\ pc' = [pc EXCEPT ![a] = to]
Live(a) == grant[a] = {"issued"}
Outside == UNCHANGED <<environment, run, container>>

\* validate_secret_references and resolve_secret_values look at the pinned revision.
Resolvable(r) == revisions[r].status = "ACTIVE"

\* issue, at the start of _run_with_secrets
Issue(a) ==
    /\ attempt[a] # "none"
    /\ \/ /\ ValidAttempt(a) /\ Resolvable(pin) /\ Step(a, "idle", "redeem")
          /\ grant' = [grant EXCEPT ![a] = {"issued"}] /\ UNCHANGED faults
       \/ /\ ~(ValidAttempt(a) /\ Resolvable(pin)) /\ Step(a, "idle", "ended")
          /\ UNCHANGED <<grant, faults>>
       \/ /\ Fault /\ Step(a, "idle", "ended")      \* perhaps after its commit
          /\ \/ UNCHANGED grant
             \/ /\ ValidAttempt(a) /\ Resolvable(pin)
                /\ grant' = [grant EXCEPT ![a] = {"issued"}]
    /\ UNCHANGED <<values, files>> /\ Outside

\* Mutant: a refused redemption ends without revoking.
RejectedConsumeEnds(a) ==
    /\ \/ /\ ValidAttempt(a) /\ Live(a) /\ Step(a, "redeem", "resolve")
          /\ grant' = [grant EXCEPT ![a] = @ \cup {"consumed"}]
       \/ /\ ~(ValidAttempt(a) /\ Live(a)) /\ Step(a, "redeem", "ended")
          /\ UNCHANGED grant
    /\ UNCHANGED <<values, files, faults>> /\ Outside

\* redeem: consume
Consume(a) ==
    /\ \/ /\ ValidAttempt(a) /\ Live(a) /\ Step(a, "redeem", "resolve")
          /\ grant' = [grant EXCEPT ![a] = @ \cup {"consumed"}] /\ UNCHANGED faults
       \/ /\ ~(ValidAttempt(a) /\ Live(a)) /\ Step(a, "redeem", "revoke")
          /\ UNCHANGED <<grant, faults>>
       \/ /\ Fault /\ Step(a, "redeem", "revoke")
          /\ \/ UNCHANGED grant
             \/ ValidAttempt(a) /\ Live(a) /\ grant' = [grant EXCEPT ![a] = @ \cup {"consumed"}]
    /\ UNCHANGED <<values, files>> /\ Outside

ResolveAt(a, r) ==
    /\ pc[a] = "resolve"
    /\ LET all == \A n \in Secrets(r) : Opens(revisions[r].sealed[n], r, n) IN
       \/ /\ Resolvable(r) /\ all /\ Step(a, "resolve", "stage")
          /\ values' = [values EXCEPT ![a] = [n \in Names |->
                          IF n \in Secrets(r) THEN revisions[r].sealed[n].value ELSE Absent]]
       \/ ~(Resolvable(r) /\ all) /\ Step(a, "resolve", "revoke") /\ UNCHANGED values
    /\ UNCHANGED <<grant, files, faults>> /\ Outside

\* Mutant: the current revision is opened and not the pinned one.
ResolveCurrent(a) == ResolveAt(a, Current)

\* redeem: resolve_secret_values, in a transaction of its own
Resolve(a) ==
    ResolveAt(a, pin)

Revoked(a) == IF grant[a] # {} /\ grant[a] \cap {"consumed", "revoked"} = {}
              THEN grant[a] \cup {"revoked"} ELSE grant[a]

\* The last finally clause; a revocation that fails is passed over.
Revoke(a) ==
    /\ Step(a, "revoke", "ended")
    /\ \/ grant' = [grant EXCEPT ![a] = Revoked(a)] /\ UNCHANGED faults
       \/ Fault /\ UNCHANGED grant
    /\ UNCHANGED <<values, files>> /\ Outside

\* revoke_attempt, of the broker's interface
RevokeAttempt(a) ==
    /\ grant' = [grant EXCEPT ![a] = Revoked(a)]
    /\ UNCHANGED <<pc, values, files, faults>> /\ Outside

-----------------------------------------------------------------------------
(* SecretFileStager.stage and the container                                *)

Emptied(a) == [files EXCEPT ![a] = NoFiles]

StageFile(a, n) ==
    /\ pc[a] = "stage" /\ values[a][n] # files[a][n]
    /\ files' = [files EXCEPT ![a][n] = values[a][n]]
    /\ UNCHANGED <<pc, grant, values, faults>> /\ Outside

\* One file fails, and what has been staged is removed, if it can be.
StageFails(a) ==
    /\ Step(a, "stage", "revoke") /\ Fault
    /\ files' \in {files, Emptied(a)} /\ values' = [values EXCEPT ![a] = NoFiles]
    /\ UNCHANGED grant /\ Outside

\* _run_container
StartContainer(a) ==
    /\ files[a] = values[a] /\ Step(a, "stage", "run")
    /\ container' = [container EXCEPT ![a] = TRUE]
    /\ UNCHANGED <<environment, run, grant, values, files, faults>>

\* Mutant: nothing stops a container whose time is up.
RunEndsByItself(a) ==
    /\ Step(a, "run", "close") /\ ~container[a] /\ UNCHANGED <<container, faults>>
    /\ values' = [values EXCEPT ![a] = NoFiles] /\ UNCHANGED <<environment, run, grant, files>>

\* The container ends; or its time is up and it is stopped and removed, unless
\* docker does not answer.
RunEnds(a) ==
    /\ Step(a, "run", "close") /\ values' = [values EXCEPT ![a] = NoFiles]
    /\ \/ container' = [container EXCEPT ![a] = FALSE] /\ UNCHANGED faults
       \/ Fault /\ UNCHANGED container
    /\ UNCHANGED <<environment, run, grant, files>>

\* stack.close: the directory is removed.
Close(a) ==
    /\ Step(a, "close", "revoke")
    /\ \/ files' = Emptied(a) /\ UNCHANGED faults
       \/ Fault /\ UNCHANGED files
    /\ UNCHANGED <<grant, values>> /\ Outside

\* The executor's process is killed; a container that runs goes on.
Crash(a) ==
    /\ pc[a] \notin {"idle", "ended"} /\ Fault
    /\ pc' = [pc EXCEPT ![a] = "ended"] /\ values' = [values EXCEPT ![a] = NoFiles]
    /\ UNCHANGED <<grant, files>> /\ Outside

-----------------------------------------------------------------------------

Executor(a) ==
    \/ Consume(a) \/ Resolve(a) \/ (\E n \in Names : StageFile(a, n)) \/ StageFails(a)
    \/ StartContainer(a) \/ RunEnds(a) \/ Close(a) \/ Revoke(a)

Next ==
    \/ \E form \in Inputs : CreateEnvironment(form)
    \/ \E e \in Editors : GetEnvironment(e)
    \/ \E e \in Editors, form \in Inputs, s \in Statuses : UpdateEnvironment(e, form, s)
    \/ RotateKey \/ CreateRun
    \/ \E a \in Attempts :
          \/ AttemptEnds(a) \/ LeaseExpires(a) \/ GrantExpires(a)
          \/ Issue(a) \/ Executor(a) \/ RevokeAttempt(a) \/ Crash(a)

\* An executor goes on: its calls return or fail, and its container has a time limit.
Fairness == \A a \in Attempts : WF_vars(Executor(a))

Spec == Init /\ [][Next]_vars /\ Fairness

-----------------------------------------------------------------------------

\* The state has its types; an executor begins only what has been issued, and files
\* are there only for executors that have redeemed a capability.
TypeOK ==
    /\ Current <= MaxRevision /\ seen \in [Editors -> 0..MaxRevision] /\ key \in Keys
    /\ pin \in 0..MaxRevision /\ faults \in 0..MaxFaults
    /\ attempt \in [Attempts -> {"none", "active", "ended"}]
    /\ {lease, container} \subseteq [Attempts -> BOOLEAN]
    /\ grant \in [Attempts -> SUBSET {"issued", "consumed", "revoked", "expired"}]
    /\ pc \in [Attempts -> {"idle", "redeem", "resolve", "stage", "run", "close",
                            "revoke", "ended"}]
    /\ {values, files} \subseteq [Attempts -> [Names -> Values \cup {Absent}]]
    /\ \A a \in Attempts : files[a] # NoFiles => "consumed" \in grant[a]

\* Editors do not overwrite what they have not seen: every revision was made by
\* somebody who had the one before it on the page (update_environment's version).
NoLostUpdate == \A r \in 2..Current : revisions[r].basis = r - 1

\* A secret that is kept from revision to revision by its reference stays what it
\* was, and every revision can be opened as what it is: build_configuration_values
\* opens it as of the old revision and seals it for the new one.
SecretsStayReadable ==
    \A r \in 1..Current : \A n \in Secrets(r) :
        LET sealed == revisions[r].sealed[n] IN
        sealed.value = revisions[r].plain[n] /\ sealed.revision = r /\ sealed.name = n

\* A container sees all the secrets of the revision its run is pinned to and no
\* others, however the environment is edited while it is prepared.
ContainerSeesPinned ==
    \A a \in Attempts : pc[a] = "run" => files[a] = revisions[pin].plain

\* When an executor has ended in any way, and nothing it called has failed, its
\* files and its container are gone and its capability is of no more use.
NothingLeftBehind ==
    \A a \in Attempts : pc[a] = "ended" /\ faults = 0 =>
        files[a] = NoFiles /\ ~container[a] /\ ~Live(a)

\* Of the calls that use up a capability and those that revoke it, one has effect.
ConsumedOrRevoked == \A a \in Attempts : ~({"consumed", "revoked"} \subseteq grant[a])

\* An executor that has a capability ends, whatever becomes of it.
DeliveryEnds == \A a \in Attempts : pc[a] = "redeem" ~> pc[a] = "ended"

\* From an editor's page to a container's files a secret stays what was saved:
\* no revision overwrites an unseen one, every revision opens as what it is, and
\* a container sees the revision its run is pinned to.
SecretsAreExact == NoLostUpdate /\ SecretsStayReadable /\ ContainerSeesPinned

\* A capability is used once or revoked, and an executor that met no failure
\* leaves neither files nor a container nor a live capability.
CapabilitiesAreSpent == TypeOK /\ NothingLeftBehind /\ ConsumedOrRevoked
=============================================================================
