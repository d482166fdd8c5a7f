------------------------ MODULE SecretDeliveryProofs ------------------------
(***************************************************************************)
(* Proofs about SecretDelivery: what a container is given is what the      *)
(* revision its run is pinned to keeps, and a capability is spent, for any *)
(* names, values, forms, editors and attempts.                             *)
(***************************************************************************)
EXTENDS SecretDelivery, TLAPS

-----------------------------------------------------------------------------
(* The inductive invariant *)

Plains == [Names -> Values \cup {Absent}]
Sealed == [value : Values \cup {Absent}, revision : Nat, name : Names, key : Keys]
Revisions == [status : Statuses, basis : Nat, plain : Plains,
              sealed : UNION {[D -> Sealed] : D \in SUBSET Names}]

\* Revision r is made from the one before it, and it keeps, sealed for it, exactly
\* the values that were saved.
Faithful(v, r) ==
    /\ r > 1 => v.basis = r - 1
    /\ \A n \in Names :
          /\ n \in DOMAIN v.sealed => /\ v.sealed[n].value = v.plain[n]
                                      /\ v.sealed[n].revision = r /\ v.sealed[n].name = n
          /\ n \notin DOMAIN v.sealed => v.plain[n] = Absent

EnvironmentInv ==
    /\ revisions \in Seq(Revisions) /\ Current <= MaxRevision
    /\ seen \in [Editors -> 0..Current] /\ key \in Keys
    /\ \A r \in 1..Current : Faithful(revisions[r], r)

Grants == SUBSET {"issued", "consumed", "revoked", "expired"}
Places == {"idle", "redeem", "resolve", "stage", "run", "close", "revoke", "ended"}

RunInv ==
    /\ pin \in 0..Current
    /\ attempt \in [Attempts -> {"none", "active", "ended"}]
    /\ lease \in [Attempts -> BOOLEAN]

ExecutorTypes ==
    /\ faults \in 0..MaxFaults
    /\ grant \in [Attempts -> Grants] /\ pc \in [Attempts -> Places]
    /\ values \in [Attempts -> Plains] /\ files \in [Attempts -> Plains]
    /\ container \in [Attempts -> BOOLEAN]

\* What an executor at place p has: its capability g, the values v that it has
\* opened and the files f, when the pinned revision keeps `plain`.
Having(p, g, v, f, plain) ==
    /\ p = "idle" => g = {}
    /\ p \in {"resolve", "stage", "run", "close"} => "consumed" \in g
    /\ p \in {"idle", "redeem", "resolve"} => f = NoFiles
    /\ f # NoFiles => "consumed" \in g
    /\ p = "stage" => v = plain
    /\ p = "run" => f = plain
    /\ ~("consumed" \in g /\ "revoked" \in g)

\* Where nothing has failed, an executor leaves nothing behind.
Clean(p, g, f, c) ==
    /\ p \in {"revoke", "ended"} => f = NoFiles
    /\ p # "run" => c = FALSE
    /\ p = "ended" => g # {"issued"}

Delivery(a) ==
    /\ attempt[a] # "none" \/ pc[a] # "idle" => pin # 0
    /\ Having(pc[a], grant[a], values[a], files[a], revisions[pin].plain)
    /\ faults = 0 => Clean(pc[a], grant[a], files[a], container[a])

SecretInv ==
    /\ EnvironmentInv /\ RunInv /\ ExecutorTypes
    /\ \A a \in Attempts : Delivery(a)

-----------------------------------------------------------------------------
(* Revisions *)

LEMMA AppendKeeps ==
    ASSUME NEW s \in Seq(Revisions), NEW v \in Revisions
    PROVE  /\ Append(s, v) \in Seq(Revisions) /\ Len(Append(s, v)) = Len(s) + 1
           /\ Len(s) \in Nat
           /\ Append(s, v)[Len(s) + 1] = v
           /\ \A r \in 1..Len(s) : Append(s, v)[r] = s[r]
OBVIOUS

\* A form that is accepted makes a faithful revision.
LEMMA RevisionIsFaithful ==
    ASSUME EnvironmentInv, NEW form \in Inputs, NEW status \in Statuses, NEW from \in Nat,
           Accepted(form, from), Current = 0 \/ from = Current
    PROVE  /\ Revision(form, status, from) \in Revisions
           /\ Faithful(Revision(form, status, from), Current + 1)
<1>1. form \in [Names -> {"keep", "drop"} \cup Values] /\ Current \in Nat
  BY SecretAssumption DEF EnvironmentInv, Current
<1>2. ASSUME NEW n \in Names, form[n] # "drop" PROVE Plain(form, n) \in Values \cup {Absent}
  <2>1. CASE form[n] = "keep"
    <3>1. Current \in 1..Len(revisions)
      BY <2>1, <1>1 DEF Accepted, Current
    <3>2. revisions[Current] \in Revisions
      BY <3>1 DEF EnvironmentInv
    <3> QED BY <2>1, <3>2 DEF Plain, Revisions, Plains
  <2>2. CASE form[n] # "keep"
    BY <2>2, <1>1, <1>2 DEF Plain
  <2> QED BY <2>1, <2>2
<1> DEFINE kept == {m \in Names : form[m] # "drop"}
           sealed == BuildConfigurationValues(form)
           plain == [n \in Names |-> IF form[n] = "drop" THEN Absent ELSE Plain(form, n)]
<1>3. plain \in Plains
  BY <1>2 DEF Plains
<1>4. ASSUME NEW n \in kept PROVE Seal(Plain(form, n), Current + 1, n) \in Sealed
  BY <1>1, <1>2 DEF Seal, Sealed, EnvironmentInv
<1>5. sealed \in [kept -> Sealed] /\ kept \in SUBSET Names
  BY <1>4 DEF BuildConfigurationValues
<1>6. sealed \in UNION {[D -> Sealed] : D \in SUBSET Names}
  BY <1>5
<1>7. ASSUME NEW n \in kept
      PROVE  sealed[n].value = plain[n] /\ sealed[n].revision = Current + 1 /\ sealed[n].name = n
  BY DEF BuildConfigurationValues, Seal
<1>8. Revision(form, status, from) = [status |-> status, basis |-> from, sealed |-> sealed, plain |-> plain]
  BY DEF Revision
<1> HIDE DEF sealed, plain
<1>9. \A n \in Names \ kept : plain[n] = Absent
  BY DEF plain
<1>10. Revision(form, status, from) \in Revisions
  BY <1>3, <1>6, <1>8 DEF Revisions
<1>11. DOMAIN sealed = kept
  BY <1>5
<1>12. Current + 1 > 1 => from = (Current + 1) - 1
  BY <1>1
<1>13. Faithful(Revision(form, status, from), Current + 1)
  BY <1>7, <1>8, <1>9, <1>11, <1>12 DEF Faithful
<1> QED BY <1>10, <1>13

\* A new revision leaves what executors rely on as it was.
LEMMA NewRevision ==
    ASSUME SecretInv, NEW v \in Revisions, Faithful(v, Current + 1), Current < MaxRevision,
           revisions' = Append(revisions, v), UNCHANGED seen, EnvironmentOnly
    PROVE  SecretInv'
<1>1. /\ revisions' \in Seq(Revisions) /\ Len(revisions') = Len(revisions) + 1
      /\ Len(revisions) \in Nat
      /\ revisions'[Len(revisions) + 1] = v
      /\ \A r \in 1..Len(revisions) : revisions'[r] = revisions[r]
  BY AppendKeeps DEF SecretInv, EnvironmentInv
<1>2. \A r \in 1..Len(revisions') : Faithful(revisions'[r], r)
  BY <1>1 DEF SecretInv, EnvironmentInv, Current
<1>3. EnvironmentInv'
  BY <1>1, <1>2, SecretAssumption DEF SecretInv, EnvironmentInv, Current, EnvironmentOnly
<1>4. RunInv' /\ ExecutorTypes'
  BY <1>1 DEF SecretInv, RunInv, ExecutorTypes, Current, EnvironmentOnly, run
<1>5. ASSUME NEW a \in Attempts PROVE Delivery(a)'
  <2>1. Delivery(a) /\ pin \in 0..Len(revisions) /\ UNCHANGED <<pin, attempt, pc, grant, values, files, container, faults>>
    BY DEF SecretInv, RunInv, Current, EnvironmentOnly, run
  <2>2. CASE pin = 0
    <3>1. pc[a] = "idle"
      BY <2>1, <2>2 DEF Delivery
    <3> QED BY <2>1, <2>2, <3>1 DEF Delivery, Having, Clean, NoFiles
  <2>3. CASE pin # 0
    <3>1. revisions'[pin] = revisions[pin]
      BY <2>1, <2>3, <1>1
    <3> QED BY <2>1, <3>1 DEF Delivery, Having, Clean, NoFiles
  <2> QED BY <2>2, <2>3
<1> QED BY <1>3, <1>4, <1>5 DEF SecretInv

-----------------------------------------------------------------------------
(* Executors *)

\* An action of attempt a changes what that attempt has and nothing else.
Touches(a) ==
    \A b \in Attempts \ {a} :
        /\ pc'[b] = pc[b] /\ grant'[b] = grant[b] /\ values'[b] = values[b]
        /\ files'[b] = files[b] /\ container'[b] = container[b]

Grows == faults' = faults \/ faults' = faults + 1

LEMMA OthersKeep ==
    ASSUME SecretInv, NEW a \in Attempts, UNCHANGED <<environment, run>>, Touches(a), Grows,
           ExecutorTypes', Delivery(a)'
    PROVE  SecretInv'
<1>1. EnvironmentInv' /\ RunInv'
  BY DEF SecretInv, EnvironmentInv, RunInv, environment, run, Current
<1>2. faults \in Nat /\ (faults' = 0 => faults = 0)
  BY SecretAssumption DEF SecretInv, ExecutorTypes, Grows
<1>3. UNCHANGED <<pin, attempt, revisions>>
  BY DEF environment, run
<1>4. ASSUME NEW b \in Attempts, b # a PROVE Delivery(b)'
  BY <1>2, <1>3, <1>4 DEF SecretInv, Delivery, Touches, Having, Clean, NoFiles
<1> QED BY <1>1, <1>4 DEF SecretInv

LEMMA PlainsFacts == NoFiles \in Plains
BY DEF NoFiles, Plains

LEMMA IssueStep ==
    ASSUME SecretInv, NEW a \in Attempts, Issue(a)
    PROVE  SecretInv'
<1> USE DEF SecretInv
<1>1. ExecutorTypes'
  BY SecretAssumption, PlainsFacts DEF ExecutorTypes, Grants, Places, Issue, Step, Fault, Outside
<1>2. Touches(a) /\ Grows
  BY DEF ExecutorTypes, Touches, Grows, Issue, Step, Fault, Outside
<1>3. UNCHANGED <<environment, run>>
  BY DEF Issue, Step, Fault, Outside
<1>4. Delivery(a)'
  BY <1>1, <1>3, SecretAssumption DEF ExecutorTypes, Grants, Delivery, Having, Clean, NoFiles, environment, run, Issue, Step, Fault, Outside
<1> QED BY <1>1, <1>2, <1>3, <1>4, OthersKeep

LEMMA ConsumeStep ==
    ASSUME SecretInv, NEW a \in Attempts, Consume(a)
    PROVE  SecretInv'
<1> USE DEF SecretInv
<1>1. ExecutorTypes'
  BY SecretAssumption, PlainsFacts DEF ExecutorTypes, Grants, Places, Consume, Live, Step, Fault, Outside
<1>2. Touches(a) /\ Grows
  BY DEF ExecutorTypes, Touches, Grows, Consume, Live, Step, Fault, Outside
<1>3. UNCHANGED <<environment, run>>
  BY DEF Consume, Live, Step, Fault, Outside
<1>4. Delivery(a)'
  BY <1>1, <1>3, SecretAssumption DEF ExecutorTypes, Grants, Delivery, Having, Clean, NoFiles, environment, run, Consume, Live, Step, Fault, Outside
<1> QED BY <1>1, <1>2, <1>3, <1>4, OthersKeep

LEMMA StageFileStep ==
    ASSUME SecretInv, NEW a \in Attempts, NEW n \in Names, StageFile(a, n)
    PROVE  SecretInv'
<1> USE DEF SecretInv
<1>1. ExecutorTypes'
  BY SecretAssumption, PlainsFacts DEF ExecutorTypes, Grants, Places, StageFile, Outside, Plains
<1>2. Touches(a) /\ Grows
  BY DEF ExecutorTypes, Touches, Grows, StageFile, Outside, Plains
<1>3. UNCHANGED <<environment, run>>
  BY DEF StageFile, Outside, Plains
<1>4. Delivery(a)'
  BY <1>1, <1>3, SecretAssumption DEF ExecutorTypes, Grants, Delivery, Having, Clean, NoFiles, environment, run, StageFile, Outside, Plains
<1> QED BY <1>1, <1>2, <1>3, <1>4, OthersKeep

LEMMA StageFailsStep ==
    ASSUME SecretInv, NEW a \in Attempts, StageFails(a)
    PROVE  SecretInv'
<1> USE DEF SecretInv
<1>1. ExecutorTypes'
  BY SecretAssumption, PlainsFacts DEF ExecutorTypes, Grants, Places, StageFails, Emptied, Step, Fault, Outside
<1>2. Touches(a) /\ Grows
  BY DEF ExecutorTypes, Touches, Grows, StageFails, Emptied, Step, Fault, Outside
<1>3. UNCHANGED <<environment, run>>
  BY DEF StageFails, Emptied, Step, Fault, Outside
<1>4. Delivery(a)'
  BY <1>1, <1>3, SecretAssumption DEF ExecutorTypes, Grants, Delivery, Having, Clean, NoFiles, environment, run, StageFails, Emptied, Step, Fault, Outside
<1> QED BY <1>1, <1>2, <1>3, <1>4, OthersKeep

LEMMA StartContainerStep ==
    ASSUME SecretInv, NEW a \in Attempts, StartContainer(a)
    PROVE  SecretInv'
<1> USE DEF SecretInv
<1>1. ExecutorTypes'
  BY SecretAssumption, PlainsFacts DEF ExecutorTypes, Grants, Places, StartContainer, Step
<1>2. Touches(a) /\ Grows
  BY DEF ExecutorTypes, Touches, Grows, StartContainer, Step
<1>3. UNCHANGED <<environment, run>>
  BY DEF StartContainer, Step
<1>4. Delivery(a)'
  BY <1>1, <1>3, SecretAssumption DEF ExecutorTypes, Grants, Delivery, Having, Clean, NoFiles, environment, run, StartContainer, Step
<1> QED BY <1>1, <1>2, <1>3, <1>4, OthersKeep

LEMMA RunEndsStep ==
    ASSUME SecretInv, NEW a \in Attempts, RunEnds(a)
    PROVE  SecretInv'
<1> USE DEF SecretInv
<1>1. ExecutorTypes'
  <2>1. pc' \in [Attempts -> Places] /\ values' \in [Attempts -> Plains] /\ UNCHANGED <<grant, files>>
    BY PlainsFacts DEF ExecutorTypes, Places, RunEnds, Step
  <2>2. container' = [container EXCEPT ![a] = FALSE] \/ container' = container
    BY DEF RunEnds
  <2>3. container' \in [Attempts -> BOOLEAN]
    BY <2>2 DEF ExecutorTypes
  <2>4. faults' \in 0..MaxFaults
    BY SecretAssumption DEF ExecutorTypes, RunEnds, Fault
  <2> QED BY <2>1, <2>3, <2>4 DEF ExecutorTypes
<1>2. Touches(a) /\ Grows
  BY DEF ExecutorTypes, Touches, Grows, RunEnds, Step, Fault
<1>3. UNCHANGED <<environment, run>>
  BY DEF RunEnds, Step, Fault
<1>4. Delivery(a)'
  BY <1>1, <1>3, SecretAssumption DEF ExecutorTypes, Grants, Delivery, Having, Clean, NoFiles, environment, run, RunEnds, Step, Fault
<1> QED BY <1>1, <1>2, <1>3, <1>4, OthersKeep

LEMMA CloseStep ==
    ASSUME SecretInv, NEW a \in Attempts, Close(a)
    PROVE  SecretInv'
<1> USE DEF SecretInv
<1>1. ExecutorTypes'
  BY SecretAssumption, PlainsFacts DEF ExecutorTypes, Grants, Places, Close, Emptied, Step, Fault, Outside
<1>2. Touches(a) /\ Grows
  BY DEF ExecutorTypes, Touches, Grows, Close, Emptied, Step, Fault, Outside
<1>3. UNCHANGED <<environment, run>>
  BY DEF Close, Emptied, Step, Fault, Outside
<1>4. Delivery(a)'
  BY <1>1, <1>3, SecretAssumption DEF ExecutorTypes, Grants, Delivery, Having, Clean, NoFiles, environment, run, Close, Emptied, Step, Fault, Outside
<1> QED BY <1>1, <1>2, <1>3, <1>4, OthersKeep

LEMMA RevokeStep ==
    ASSUME SecretInv, NEW a \in Attempts, Revoke(a)
    PROVE  SecretInv'
<1> USE DEF SecretInv
<1>1. ExecutorTypes'
  BY SecretAssumption, PlainsFacts DEF ExecutorTypes, Grants, Places, Revoke, Revoked, Live, Step, Fault, Outside
<1>2. Touches(a) /\ Grows
  BY DEF ExecutorTypes, Touches, Grows, Revoke, Revoked, Live, Step, Fault, Outside
<1>3. UNCHANGED <<environment, run>>
  BY DEF Revoke, Revoked, Live, Step, Fault, Outside
<1>4. Delivery(a)'
  <2>1. /\ pc[a] = "revoke" /\ pc'[a] = "ended" /\ UNCHANGED <<pin, attempt, revisions>>
        /\ values'[a] = values[a] /\ files'[a] = files[a] /\ container'[a] = container[a]
    BY DEF Revoke, Step, Outside, environment, run, ExecutorTypes
  <2>2. /\ Delivery(a) /\ grant[a] \in Grants /\ faults \in Nat
    BY SecretAssumption DEF ExecutorTypes
  <2>3. CASE grant'[a] = Revoked(a) /\ faults' = faults
    BY <2>1, <2>2, <2>3 DEF Revoked, Delivery, Having, Clean, NoFiles, Grants
  <2>4. CASE grant'[a] = grant[a] /\ faults' = faults + 1
    BY <2>1, <2>2, <2>4 DEF Delivery, Having, Clean, NoFiles
  <2>5. (grant'[a] = Revoked(a) /\ faults' = faults) \/ (grant'[a] = grant[a] /\ faults' = faults + 1)
    BY DEF Revoke, Fault, ExecutorTypes
  <2> QED BY <2>3, <2>4, <2>5
<1> QED BY <1>1, <1>2, <1>3, <1>4, OthersKeep

LEMMA RevokeAttemptStep ==
    ASSUME SecretInv, NEW a \in Attempts, RevokeAttempt(a)
    PROVE  SecretInv'
<1> USE DEF SecretInv
<1>1. ExecutorTypes'
  BY SecretAssumption, PlainsFacts DEF ExecutorTypes, Grants, Places, RevokeAttempt, Revoked, Live, Outside
<1>2. Touches(a) /\ Grows
  BY DEF ExecutorTypes, Touches, Grows, RevokeAttempt, Revoked, Live, Outside
<1>3. UNCHANGED <<environment, run>>
  BY DEF RevokeAttempt, Revoked, Live, Outside
<1>4. Delivery(a)'
  BY <1>1, <1>3, SecretAssumption DEF ExecutorTypes, Grants, Delivery, Having, Clean, NoFiles, environment, run, RevokeAttempt, Revoked, Live, Outside
<1> QED BY <1>1, <1>2, <1>3, <1>4, OthersKeep

LEMMA CrashStep ==
    ASSUME SecretInv, NEW a \in Attempts, Crash(a)
    PROVE  SecretInv'
<1> USE DEF SecretInv
<1>1. ExecutorTypes'
  BY SecretAssumption, PlainsFacts DEF ExecutorTypes, Grants, Places, Crash, Fault, Outside
<1>2. Touches(a) /\ Grows
  BY DEF ExecutorTypes, Touches, Grows, Crash, Fault, Outside
<1>3. UNCHANGED <<environment, run>>
  BY DEF Crash, Fault, Outside
<1>4. Delivery(a)'
  BY <1>1, <1>3, SecretAssumption DEF ExecutorTypes, Grants, Delivery, Having, Clean, NoFiles, environment, run, Crash, Fault, Outside
<1> QED BY <1>1, <1>2, <1>3, <1>4, OthersKeep

\* What is opened of the pinned revision is what it keeps.
LEMMA ResolveStep ==
    ASSUME SecretInv, NEW a \in Attempts, Resolve(a)
    PROVE  SecretInv'
<1> USE DEF SecretInv
<1> DEFINE opened == [n \in Names |-> IF n \in Secrets(pin) THEN revisions[pin].sealed[n].value ELSE Absent]
<1>0. pc[a] = "resolve"
  BY DEF Resolve, ResolveAt
<1>1. opened = revisions[pin].plain /\ opened \in Plains
  <2>1. pin \in 1..Current
    BY <1>0 DEF Delivery, RunInv
  <2>2. revisions[pin] \in Revisions /\ Faithful(revisions[pin], pin)
    BY <2>1 DEF EnvironmentInv, Current
  <2>3. revisions[pin].plain \in Plains
    BY <2>2 DEF Revisions
  <2>4. \A n \in Names : opened[n] = revisions[pin].plain[n]
    BY <2>2 DEF Faithful, Secrets
  <2> QED BY <2>3, <2>4 DEF Plains
<1>2. \/ pc' = [pc EXCEPT ![a] = "stage"] /\ values' = [values EXCEPT ![a] = opened]
      \/ pc' = [pc EXCEPT ![a] = "revoke"] /\ values' = values
  BY DEF Resolve, ResolveAt, Step
<1>3. UNCHANGED <<environment, run, grant, files, container, faults>>
  BY DEF Resolve, ResolveAt, Outside
<1> HIDE DEF opened
<1>4. ExecutorTypes'
  BY <1>1, <1>2, <1>3 DEF ExecutorTypes, Places
<1>5. Touches(a) /\ Grows
  BY <1>2, <1>3 DEF ExecutorTypes, Touches, Grows
<1>6. Delivery(a)'
  BY <1>0, <1>1, <1>2, <1>3 DEF ExecutorTypes, Delivery, Having, Clean, NoFiles, environment, run
<1> QED BY <1>3, <1>4, <1>5, <1>6, OthersKeep

-----------------------------------------------------------------------------
(* The environment, the run and its attempts *)

LEMMA EnvironmentSteps ==
    ASSUME SecretInv,
           \/ \E form \in Inputs : CreateEnvironment(form)
           \/ \E e \in Editors, form \in Inputs, s \in Statuses : UpdateEnvironment(e, form, s)
    PROVE  SecretInv'
<1>1. ASSUME NEW form \in Inputs, CreateEnvironment(form) PROVE SecretInv'
  <2>1. Current = 0 /\ Accepted(form, 0) /\ revisions \in Seq(Revisions)
    BY <1>1 DEF CreateEnvironment, SecretInv, EnvironmentInv
  <2>2. revisions = <<>>
    BY <2>1 DEF Current
  <2>3. "DRAFT" \in Statuses
    BY DEF Statuses
  <2>4. Revision(form, "DRAFT", 0) \in Revisions /\ Faithful(Revision(form, "DRAFT", 0), Current + 1)
    BY <2>1, <2>3, RevisionIsFaithful DEF SecretInv
  <2>5. revisions' = Append(revisions, Revision(form, "DRAFT", 0))
    BY <1>1, <2>2, <2>4 DEF CreateEnvironment
  <2>6. Current < MaxRevision
    BY <2>1, SecretAssumption
  <2> QED BY <1>1, <2>4, <2>5, <2>6, NewRevision DEF CreateEnvironment
<1>2. ASSUME NEW e \in Editors, NEW form \in Inputs, NEW s \in Statuses, UpdateEnvironment(e, form, s)
      PROVE  SecretInv'
  <2>1. /\ seen[e] = Current /\ Accepted(form, seen[e]) /\ Current < MaxRevision
        /\ seen[e] \in Nat
    BY <1>2 DEF UpdateEnvironment, SecretInv, EnvironmentInv
  <2>2. Revision(form, s, seen[e]) \in Revisions /\ Faithful(Revision(form, s, seen[e]), Current + 1)
    BY <2>1, RevisionIsFaithful DEF SecretInv
  <2> QED BY <1>2, <2>1, <2>2, NewRevision DEF UpdateEnvironment
<1> QED BY <1>1, <1>2

LEMMA GetEnvironmentStep ==
    ASSUME SecretInv, NEW e \in Editors, GetEnvironment(e)
    PROVE  SecretInv'
<1>1. /\ UNCHANGED <<revisions, key, pin, attempt, lease, grant, pc, values, files, container, faults>>
      /\ seen' = [seen EXCEPT ![e] = Current] /\ Current' = Current /\ Current \in Nat
  BY DEF GetEnvironment, EnvironmentOnly, run, Current, SecretInv, EnvironmentInv
<1>2. EnvironmentInv'
  BY <1>1 DEF SecretInv, EnvironmentInv
<1>3. RunInv' /\ ExecutorTypes'
  BY <1>1 DEF SecretInv, RunInv, ExecutorTypes
<1>4. \A a \in Attempts : Delivery(a)'
  BY <1>1 DEF SecretInv, Delivery, Having, Clean, NoFiles
<1> QED BY <1>2, <1>3, <1>4 DEF SecretInv

LEMMA RotateKeyStep ==
    ASSUME SecretInv, RotateKey
    PROVE  SecretInv'
<1>1. /\ UNCHANGED <<revisions, seen, pin, attempt, lease, grant, pc, values, files, container>>
      /\ key' \in Keys /\ Current' = Current /\ faults' = faults + 1 /\ faults < MaxFaults
  BY DEF RotateKey, Fault, run, Current
<1>2. EnvironmentInv'
  BY <1>1 DEF SecretInv, EnvironmentInv
<1>3. RunInv' /\ ExecutorTypes'
  BY <1>1, SecretAssumption DEF SecretInv, RunInv, ExecutorTypes
<1>4. \A a \in Attempts : Delivery(a)'
  BY <1>1, SecretAssumption DEF SecretInv, ExecutorTypes, Delivery, Having, Clean, NoFiles
<1> QED BY <1>2, <1>3, <1>4 DEF SecretInv

\* Attempts start and end under a run that stays pinned; capabilities expire.
LEMMA AttemptsKeep ==
    ASSUME SecretInv, RunInv', RunOnly, pin' = pin \/ (pin = 0 /\ pin' # 0),
           \A b \in Attempts : attempt'[b] # "none" => attempt[b] # "none" \/ pin' # 0,
           \/ UNCHANGED grant
           \/ \E a \in Attempts : /\ grant[a] = {"issued"}
                                   /\ grant' = [grant EXCEPT ![a] = @ \cup {"expired"}]
    PROVE  SecretInv'
<1>1. /\ UNCHANGED <<revisions, seen, key, pc, values, files, container, faults>>
      /\ Current' = Current
  BY DEF RunOnly, environment, Current
<1>2. EnvironmentInv'
  BY <1>1 DEF SecretInv, EnvironmentInv
<1>3. ExecutorTypes'
  BY <1>1 DEF SecretInv, ExecutorTypes, Grants
<1>4. ASSUME NEW b \in Attempts PROVE Delivery(b)'
  <2>1. Delivery(b) /\ (pc[b] # "idle" => pin' = pin)
    BY DEF SecretInv, Delivery
  <2>2. grant'[b] = grant[b] \/ (grant[b] = {"issued"} /\ grant'[b] = {"issued", "expired"})
    BY DEF SecretInv, ExecutorTypes
  <2>3. attempt'[b] # "none" \/ pc'[b] # "idle" => pin' # 0
    BY <1>1, <2>1 DEF Delivery
  <2>4. Having(pc[b], grant'[b], values[b], files[b], revisions[pin'].plain)
    BY <2>1, <2>2 DEF Delivery, Having, NoFiles
  <2>5. faults = 0 => Clean(pc[b], grant'[b], files[b], container[b])
    BY <2>1, <2>2 DEF Delivery, Clean, NoFiles
  <2> QED BY <1>1, <2>3, <2>4, <2>5 DEF Delivery, Having, Clean, NoFiles
<1> QED BY <1>2, <1>3, <1>4 DEF SecretInv

LEMMA CreateRunStep ==
    ASSUME SecretInv, CreateRun
    PROVE  SecretInv'
<1>1. Current \in Nat /\ Current' = Current /\ 1 \in Attempts
  BY SecretAssumption DEF CreateRun, RunOnly, environment, Current, SecretInv, EnvironmentInv, Attempts
<1>2. RunInv'
  BY <1>1 DEF SecretInv, RunInv, CreateRun
<1>3. pin = 0 /\ pin' # 0
  BY <1>1 DEF CreateRun
<1> QED BY <1>2, <1>3, AttemptsKeep DEF CreateRun

LEMMA AttemptEndsStep ==
    ASSUME SecretInv, NEW a \in Attempts, AttemptEnds(a)
    PROVE  SecretInv'
<1>1. Current' = Current /\ pin' = pin
  BY DEF AttemptEnds, RunOnly, environment, Current
<1>2. attempt' \in [Attempts -> {"none", "active", "ended"}]
  BY DEF SecretInv, RunInv, AttemptEnds
<1>3. lease' \in [Attempts -> BOOLEAN]
  <2>1. \/ lease' = [lease EXCEPT ![a] = FALSE]
        \/ a + 1 \in Attempts /\ lease' = [lease EXCEPT ![a] = FALSE, ![a + 1] = TRUE]
    BY DEF AttemptEnds
  <2>2. lease \in [Attempts -> BOOLEAN]
    BY DEF SecretInv, RunInv
  <2> QED BY <2>1, <2>2
<1>4. pin # 0
  BY DEF SecretInv, Delivery, AttemptEnds
<1>5. RunInv'
  BY <1>1, <1>2, <1>3 DEF SecretInv, RunInv
<1> QED BY <1>1, <1>4, <1>5, AttemptsKeep DEF AttemptEnds

LEMMA ExpirySteps ==
    ASSUME SecretInv, NEW a \in Attempts, LeaseExpires(a) \/ GrantExpires(a)
    PROVE  SecretInv'
<1>1. Current' = Current /\ pin' = pin /\ attempt' = attempt /\ RunOnly
  BY DEF LeaseExpires, GrantExpires, RunOnly, environment, Current, run
<1>2. lease' \in [Attempts -> BOOLEAN]
  BY DEF SecretInv, RunInv, LeaseExpires, GrantExpires, run
<1>3. RunInv'
  BY <1>1, <1>2 DEF SecretInv, RunInv
<1>4. \/ UNCHANGED grant
      \/ grant[a] = {"issued"} /\ grant' = [grant EXCEPT ![a] = @ \cup {"expired"}]
  BY DEF LeaseExpires, GrantExpires, SecretInv, ExecutorTypes
<1> QED BY <1>1, <1>3, <1>4, AttemptsKeep

-----------------------------------------------------------------------------

LEMMA SecretInit == Init => SecretInv
<1> SUFFICES ASSUME Init PROVE SecretInv
  OBVIOUS
<1>1. revisions = <<>> /\ Current = 0 /\ pin = 0 /\ faults = 0
  BY DEF Init, Current
<1>2. EnvironmentInv
  <2>1. revisions \in Seq(Revisions) /\ (\A r \in 1..Current : Faithful(revisions[r], r))
    BY <1>1
  <2>2. seen \in [Editors -> 0..Current] /\ key \in Keys
    <3>1. 0 \in 0..Current
      BY <1>1
    <3>2. seen = [e \in Editors |-> 0] /\ key = "old key"
      BY DEF Init
    <3> QED BY <3>1, <3>2 DEF Keys
  <2> QED BY <1>1, <2>1, <2>2, SecretAssumption DEF EnvironmentInv
<1>3. RunInv
  <2>1. lease \in [Attempts -> BOOLEAN]
    BY Zenon DEF Init
  <2>2. attempt \in [Attempts -> {"none", "active", "ended"}]
    BY DEF Init
  <2> QED BY <1>1, <2>1, <2>2 DEF RunInv
<1>4. ExecutorTypes
  <2>1. container \in [Attempts -> BOOLEAN]
    BY Zenon DEF Init
  <2>2. /\ grant \in [Attempts -> Grants] /\ pc \in [Attempts -> Places]
        /\ values \in [Attempts -> Plains] /\ files \in [Attempts -> Plains]
    BY PlainsFacts DEF Init, Grants, Places
  <2> QED BY <1>1, <2>1, <2>2, SecretAssumption DEF ExecutorTypes
<1>5. \A a \in Attempts : Delivery(a)
  BY <1>1 DEF Init, Delivery, Having, Clean
<1> QED BY <1>2, <1>3, <1>4, <1>5 DEF SecretInv

LEMMA SecretStep == SecretInv /\ [Next]_vars => SecretInv'
<1> SUFFICES ASSUME SecretInv, [Next]_vars PROVE SecretInv'
  OBVIOUS
<1>1. CASE UNCHANGED vars
  BY <1>1 DEF vars, environment, run, SecretInv, EnvironmentInv, RunInv, ExecutorTypes,
              Delivery, Having, Clean, NoFiles, Current
<1>2. CASE \/ \E form \in Inputs : CreateEnvironment(form)
           \/ \E e \in Editors, form \in Inputs, s \in Statuses : UpdateEnvironment(e, form, s)
  BY <1>2, EnvironmentSteps
<1>3. CASE (\E e \in Editors : GetEnvironment(e)) \/ RotateKey \/ CreateRun
  BY <1>3, GetEnvironmentStep, RotateKeyStep, CreateRunStep
<1>4. ASSUME NEW a \in Attempts,
             \/ AttemptEnds(a) \/ LeaseExpires(a) \/ GrantExpires(a)
             \/ Issue(a) \/ Executor(a) \/ RevokeAttempt(a) \/ Crash(a)
      PROVE  SecretInv'
  <2>1. CASE Executor(a)
    BY <2>1, ConsumeStep, ResolveStep, StageFileStep, StageFailsStep, StartContainerStep,
       RunEndsStep, CloseStep, RevokeStep DEF Executor
  <2>2. CASE AttemptEnds(a) \/ LeaseExpires(a) \/ GrantExpires(a)
    BY <2>2, AttemptEndsStep, ExpirySteps
  <2> QED BY <1>4, <2>1, <2>2, IssueStep, RevokeAttemptStep, CrashStep
<1> QED BY <1>1, <1>2, <1>3, <1>4 DEF Next

LEMMA SecretInvHolds == Spec => []SecretInv
BY SecretInit, SecretStep, PTL DEF Spec

\* What an editor saves is what a container sees: no revision is made over one that
\* its editor had not seen, every revision opens as what was saved, kept secrets
\* included, and a container runs with the secrets of the revision its run is
\* pinned to and no others, whatever is edited, expires or fails in between.
THEOREM SecretsStayExact == Spec => []SecretsAreExact
<1>1. SecretInv => SecretsAreExact
  <2> SUFFICES ASSUME SecretInv PROVE SecretsAreExact
    OBVIOUS
  <2>1. NoLostUpdate
    BY DEF SecretInv, EnvironmentInv, Faithful, NoLostUpdate, Current
  <2>2. SecretsStayReadable
    <3> SUFFICES ASSUME NEW r \in 1..Current, NEW n \in Secrets(r)
                 PROVE  /\ revisions[r].sealed[n].value = revisions[r].plain[n]
                        /\ revisions[r].sealed[n].revision = r /\ revisions[r].sealed[n].name = n
      BY DEF SecretsStayReadable
    <3>1. revisions[r] \in Revisions /\ Faithful(revisions[r], r)
      BY DEF SecretInv, EnvironmentInv, Current
    <3>2. n \in Names
      BY <3>1 DEF Revisions, Secrets
    <3> QED BY <3>1, <3>2 DEF Faithful, Secrets
  <2>3. ContainerSeesPinned
    BY DEF SecretInv, Delivery, Having, ContainerSeesPinned
  <2> QED BY <2>1, <2>2, <2>3 DEF SecretsAreExact
<1> QED BY <1>1, SecretInvHolds, PTL

\* A capability is redeemed or revoked and never both, files exist only for one that
\* was redeemed, and an executor that met no failure leaves neither files nor a
\* container nor a capability that could still be used.
THEOREM CapabilitiesStaySpent == Spec => []CapabilitiesAreSpent
<1>1. SecretInv => CapabilitiesAreSpent
  <2> SUFFICES ASSUME SecretInv PROVE CapabilitiesAreSpent
    OBVIOUS
  <2>1. TypeOK
    <3>1. /\ Current <= MaxRevision /\ Current \in Nat /\ seen \in [Editors -> 0..MaxRevision]
          /\ key \in Keys /\ pin \in 0..MaxRevision
      BY SecretAssumption DEF SecretInv, EnvironmentInv, RunInv, Current
    <3>2. \A a \in Attempts : files[a] # NoFiles => "consumed" \in grant[a]
      BY DEF SecretInv, Delivery, Having
    <3>3. {lease, container} \subseteq [Attempts -> BOOLEAN]
      BY DEF SecretInv, RunInv, ExecutorTypes
    <3>4. {values, files} \subseteq [Attempts -> [Names -> Values \cup {Absent}]]
      BY DEF SecretInv, ExecutorTypes, Plains
    <3> QED BY <3>1, <3>2, <3>3, <3>4 DEF SecretInv, RunInv, ExecutorTypes, Grants, Places, TypeOK
  <2>2. NothingLeftBehind
    BY DEF SecretInv, Delivery, Clean, NothingLeftBehind, Live
  <2>3. ConsumedOrRevoked
    BY DEF SecretInv, Delivery, Having, ConsumedOrRevoked
  <2> QED BY <2>1, <2>2, <2>3 DEF CapabilitiesAreSpent
<1> QED BY <1>1, SecretInvHolds, PTL
=============================================================================
