-------------------------- MODULE ApiServerProofs --------------------------
(***************************************************************************)
(* What the runs of ApiServer check, for any number of server threads,     *)
(* requests and events: SessionInv is the invariant of setup, login, logout*)
(* and the middleware, StreamInv that of the event stream and its page,    *)
(* RowsInv that of the rows, their locks and the requests that hold them.  *)
(* Two more parts of the server follow: DataFactoryWorkflow, with          *)
(* WorkflowInv, and PlatformOperations, the routes that restart the server *)
(* and publish its repository.                                             *)
(***************************************************************************)
EXTENDS ApiServer, DataFactoryWorkflow, PlatformOperations, FiniteSetTheorems, WellFoundedInduction, TLAPS

-----------------------------------------------------------------------------
(* Threads and the requests they serve.                                    *)

AssetOps == {"createEnum", "createConnector", "scriptLink", "traceLink", "updateEnum", "deleteEnum",
             "parameters", "updateConnector", "setEnabled", "deleteConnector", "testConnector", "updateAsset"}

\* Where a thread can be with its request.  A request that was sent after its
\* session's logout (late) has not got past the middleware.
ThreadOK(t) ==
    /\ req[t].op \in AuthOps \cup AssetOps \cup {"none"}
    /\ req[t].op = "none" <=> pc[t] = "idle"
    /\ req[t].op = "setup" => pc[t] \in {"setup", "bootstrap", "commit", "session"}
    /\ req[t].op = "login" => pc[t] \in {"attempt", "check", "verify", "accepted", "rejected", "session"}
    /\ req[t].op = "logout" => pc[t] = "logout" /\ req[t].session \in DOMAIN sessions
    /\ req[t].op \in AssetOps =>
          /\ pc[t] \in {"arrived", "serve", "insert", "script", "test", "commit"}
          /\ {"op", "session", "late"} \subseteq DOMAIN req[t]
          /\ req[t].session \in DOMAIN sessions
          /\ req[t].late => req[t].session \in loggedOut /\ pc[t] = "arrived"

ThreadsOK ==
    /\ pc = [t \in Threads |-> pc[t]] /\ req = [t \in Threads |-> req[t]]
    /\ \A t \in Threads : ThreadOK(t)

\* one thread goes on to l with the request r
Turn(t, l, r) == pc' = [pc EXCEPT ![t] = l] /\ req' = [req EXCEPT ![t] = r]

LEMMA WithKeeps ==
    ASSUME NEW f, NEW g, NEW x \in DOMAIN f
    PROVE  With(f, g)[x] = f[x]
BY DEF With

LEMMA WithAdds ==
    ASSUME NEW f, NEW g, NEW x \in (DOMAIN g) \ (DOMAIN f)
    PROVE  With(f, g)[x] = g[x]
BY DEF With

LEMMA WithDomain ==
    ASSUME NEW f, NEW g
    PROVE  DOMAIN With(f, g) = (DOMAIN f) \cup (DOMAIN g)
BY DEF With

LEMMA TurnMoves ==
    ASSUME ThreadsOK, NEW t \in Threads, NEW l, NEW r, Turn(t, l, r)
    PROVE  /\ pc' = [u \in Threads |-> pc'[u]] /\ req' = [u \in Threads |-> req'[u]]
           /\ pc'[t] = l /\ req'[t] = r
           /\ \A u \in Threads : u # t => pc'[u] = pc[u] /\ req'[u] = req[u]
BY DEF ThreadsOK, Turn

\* The threads beside one that goes on stay as they are: sessions are never
\* forgotten, nor is the answer to a logout.
LEMMA ThreadsAfterTurn ==
    ASSUME ThreadsOK, NEW t \in Threads, NEW l, NEW r, Turn(t, l, r),
           DOMAIN sessions \subseteq DOMAIN sessions', loggedOut \subseteq loggedOut',
           ThreadOK(t)'
    PROVE  ThreadsOK'
<1>1. ASSUME NEW u \in Threads, u # t PROVE ThreadOK(u)'
  BY <1>1, TurnMoves DEF ThreadsOK, ThreadOK
<1> QED
  BY <1>1, TurnMoves DEF ThreadsOK

LEMMA ThreadsBeside ==
    ASSUME ThreadsOK, UNCHANGED threads,
           DOMAIN sessions \subseteq DOMAIN sessions', loggedOut \subseteq loggedOut'
    PROVE  ThreadsOK'
BY DEF ThreadsOK, ThreadOK, threads

\* A thread that answers is idle.
LEMMA ReturnTurn ==
    ASSUME ThreadsOK, NEW t \in Threads, Return(t)
    PROVE  Turn(t, "idle", NoRequest) /\ ThreadOK(t)'
<1>1. Turn(t, "idle", NoRequest)
  BY DEF Return, Goto, Turn
<1>2. pc'[t] = "idle" /\ req'[t].op = "none"
  BY <1>1, TurnMoves DEF NoRequest
<1> QED
  BY <1>1, <1>2 DEF ThreadOK, AuthOps, AssetOps

LEMMA GotoTurn ==
    ASSUME ThreadsOK, NEW t \in Threads, NEW l, Goto(t, l), UNCHANGED req
    PROVE  Turn(t, l, req[t])
BY DEF Goto, Turn, ThreadsOK

\* What a step of an asset route does to its thread: it answers, or goes on to
\* another statement with all that its request has.
Extends(r, q) == \A x \in DOMAIN q : x \in DOMAIN r /\ r[x] = q[x]

AssetMoves(t) ==
    /\ req[t].op \in AssetOps /\ pc[t] \in {"serve", "insert", "script", "test", "commit"}
    /\ \/ Turn(t, "idle", NoRequest)
       \/ \E l \in {"insert", "script", "test", "commit"} : \E r : Turn(t, l, r) /\ Extends(r, req[t])

LEMMA AnswerMoves ==
    ASSUME NEW t \in Threads, Return(t), req[t].op \in AssetOps,
           pc[t] \in {"serve", "insert", "script", "test", "commit"}
    PROVE  AssetMoves(t)
BY DEF Return, Goto, Turn, AssetMoves

LEMMA GoesOnMoves ==
    ASSUME ThreadsOK, NEW t \in Threads, NEW l \in {"insert", "script", "test", "commit"}, Goto(t, l), UNCHANGED req,
           req[t].op \in AssetOps, pc[t] \in {"serve", "insert", "script", "test", "commit"}
    PROVE  AssetMoves(t)
<1>1. Turn(t, l, req[t]) /\ Extends(req[t], req[t])
  BY GotoTurn DEF Extends
<1> QED BY <1>1 DEF AssetMoves

LEMMA GoesOnWithMoves ==
    ASSUME NEW t \in Threads, NEW l \in {"insert", "script", "test", "commit"}, Goto(t, l),
           NEW more, req' = [req EXCEPT ![t] = With(@, more)],
           req[t].op \in AssetOps, pc[t] \in {"serve", "insert", "script", "test", "commit"}
    PROVE  AssetMoves(t)
<1>1. Turn(t, l, With(req[t], more))
  BY DEF Goto, Turn
<1>2. Extends(With(req[t], more), req[t])
  BY DEF With, Extends
<1> QED BY <1>1, <1>2 DEF AssetMoves

LEMMA ServeAssetMoves ==
    ASSUME ThreadsOK, NEW t \in Threads, ServeAsset(t)
    PROVE  AssetMoves(t) /\ UNCHANGED world
<1>0. pc[t] = "serve" => req[t].op \in AssetOps
  BY DEF ThreadsOK, ThreadOK, AuthOps
<1>1. CASE CreateEnumSet(t)
  BY <1>0, <1>1, AnswerMoves DEF CreateEnumSet, At
<1>2. CASE LockEnumSet(t)
  BY <1>0, <1>2, GoesOnMoves DEF LockEnumSet
<1>3. CASE CommitEnumSet(t)
  BY <1>3, AnswerMoves DEF CommitEnumSet, At, AssetOps
<1>4. CASE CommitDeleteEnumSet(t)
  BY <1>4, AnswerMoves DEF CommitDeleteEnumSet, At, AssetOps
<1>5. CASE LockScriptParameters(t)
  BY <1>0, <1>5, GoesOnWithMoves DEF LockScriptParameters, At
<1>6. CASE InsertParameters(t)
  <2>1. CASE Return(t)
    BY <1>6, <2>1, AnswerMoves DEF InsertParameters, At, AssetOps
  <2>2. CASE Goto(t, "commit") /\ UNCHANGED req
    BY <1>6, <2>2, GoesOnMoves DEF InsertParameters, At, AssetOps
  <2> QED BY <1>6, <2>1, <2>2 DEF InsertParameters, Refuse
<1>7. CASE CommitParameters(t)
  BY <1>7, AnswerMoves DEF CommitParameters, At, AssetOps
<1>8. CASE CreateConnector(t)
  BY <1>0, <1>8, AnswerMoves DEF CreateConnector, At
<1>9. CASE UpdateConnector(t)
  BY <1>0, <1>9, AnswerMoves DEF UpdateConnector, At
<1>10. CASE SetEnabled(t)
  BY <1>0, <1>10, AnswerMoves DEF SetEnabled, At
<1>11. CASE DeleteConnector(t)
  BY <1>0, <1>11, AnswerMoves DEF DeleteConnector, At
<1>12. CASE ReadConnector(t)
  BY <1>0, <1>12, GoesOnWithMoves DEF ReadConnector, At
<1>13. CASE RecordTest(t)
  BY <1>13, AnswerMoves DEF RecordTest, At, AssetOps
<1>14. CASE LockAsset(t)
  BY <1>0, <1>14, GoesOnWithMoves DEF LockAsset, At
<1>15. CASE CommitAsset(t)
  BY <1>15, AnswerMoves DEF CommitAsset, At, AssetOps
<1>16. CASE LockCase(t)
  BY <1>0, <1>16, GoesOnMoves DEF LockCase, At
<1>17. CASE LockScript(t)
  <2>1. CASE Return(t)
    BY <1>17, <2>1, AnswerMoves DEF LockScript, At, AssetOps
  <2>2. CASE Goto(t, "commit") /\ UNCHANGED req
    BY <1>17, <2>2, GoesOnMoves DEF LockScript, At, AssetOps
  <2> QED BY <1>17, <2>1, <2>2 DEF LockScript, Refuse
<1>18. CASE ReadTraceLink(t)
  <2>1. CASE Return(t)
    BY <1>0, <1>18, <2>1, AnswerMoves DEF ReadTraceLink, At
  <2>2. CASE Goto(t, "insert") /\ UNCHANGED req
    BY <1>0, <1>18, <2>2, GoesOnMoves DEF ReadTraceLink, At
  <2> QED BY <1>18, <2>1, <2>2 DEF ReadTraceLink
<1>19. CASE InsertTraceLink(t)
  <2>1. CASE Return(t)
    BY <1>19, <2>1, AnswerMoves DEF InsertTraceLink, At, AssetOps
  <2>2. CASE Goto(t, "commit") /\ UNCHANGED req
    BY <1>19, <2>2, GoesOnMoves DEF InsertTraceLink, At, AssetOps
  <2> QED BY <1>19, <2>1, <2>2 DEF InsertTraceLink
<1>20. CASE CommitLink(t)
  BY <1>20, AnswerMoves DEF CommitLink, Links, AssetOps
<1>21. CASE RefuseRequest(t)
  BY <1>0, <1>21, AnswerMoves DEF RefuseRequest, Refuse, At, AssetOps
<1> QED
  BY <1>1, <1>2, <1>3, <1>4, <1>5, <1>6, <1>7, <1>8, <1>9, <1>10, <1>11, <1>12, <1>13, <1>14,
     <1>15, <1>16, <1>17, <1>18, <1>19, <1>20, <1>21 DEF ServeAsset

\* A request is received by an idle thread.
LEMMA ReceiveTurn ==
    ASSUME ThreadsOK, NEW t \in Threads, NEW r, NEW l, Receive(t, r, l)
    PROVE  Turn(t, l, r) /\ pc[t] = "idle" /\ req[t].op = "none" /\ UNCHANGED workload
BY DEF Receive, Turn, Goto, Happens, ThreadsOK, ThreadOK

LEMMA AssetRequestTurn ==
    ASSUME ThreadsOK, NEW t \in Threads, AssetRequest(t), loggedOut \subseteq DOMAIN sessions
    PROVE  \E r : Turn(t, "arrived", r) /\ r.op \in AssetOps /\ ThreadOK(t)' /\ pc[t] = "idle" /\ req[t].op = "none"
<1>1. PICK s \in DOMAIN sessions, asked \in AssetRequests :
         Receive(t, With(asked, [session |-> s, late |-> s \in loggedOut]), "arrived")
  BY DEF AssetRequest
<1> DEFINE more == [session |-> s, late |-> s \in loggedOut]
           r == With(asked, more)
<1>2. asked.op \in AssetOps /\ "op" \in DOMAIN asked /\ {"session", "late"} \cap DOMAIN asked = {}
  BY DEF AssetRequests, AssetOps, Links
<1>3. DOMAIN more = {"session", "late"} /\ more.session = s /\ more.late = (s \in loggedOut)
  OBVIOUS
<1>4. /\ {"op", "session", "late"} \subseteq DOMAIN r
      /\ r.op = asked.op /\ r.session = s /\ r.late = more.late
  <2> HIDE DEF more
  <2> QED BY <1>2, <1>3 DEF With
<1>9. r.late => s \in loggedOut
  <2>1. r.late = more.late /\ more.late = (s \in loggedOut)
    BY <1>3, <1>4
  <2> HIDE DEF r, more
  <2> QED BY <2>1, Zenon
<1> HIDE DEF r, more
<1>5. Turn(t, "arrived", r) /\ pc[t] = "idle" /\ req[t].op = "none"
  BY <1>1, ReceiveTurn DEF r, more
<1>6. pc'[t] = "arrived" /\ req'[t] = r
  BY <1>5, TurnMoves
<1>7. UNCHANGED <<sessions, loggedOut>>
  BY DEF AssetRequest, auth
<1>8. ThreadOK(t)'
  BY <1>2, <1>4, <1>6, <1>7, <1>9 DEF ThreadOK, AssetOps, AuthOps
<1> QED BY <1>2, <1>4, <1>5, <1>8

-----------------------------------------------------------------------------
(* Setup, login and logout.                                                *)

\* at most one transaction holds the bootstrap row, and only while there is no administrator
SetupOK ==
    /\ users \in {0, 1}
    /\ \A t \in Threads : At(t, "setup", "commit") =>
          users = 0 /\ \A u \in Threads : At(u, "setup", "commit") => u = t

\* a session that was logged out is not live and never becomes so again
SessionsOK ==
    /\ sessions \in Seq(SessionState) /\ loggedOut \subseteq DOMAIN sessions
    /\ \A s \in loggedOut : sessions[s] \in {"revoked", "deleted"}

Holders == {t \in Threads : req[t].op = "login" /\ pc[t] \in {"check", "verify", "accepted", "rejected"}}
Verifying == {t \in Threads : req[t].op = "login" /\ pc[t] = "verify"}

\* every slot is free or held; the failures together with those that may still
\* be recorded stay within the limit
ThrottleOK ==
    /\ IsFiniteSet(Holders) /\ slots \in Nat /\ slots + Cardinality(Holders) = MaxConcurrent
    /\ failures \in Nat /\ failures + Cardinality(Verifying) <= MaxFailures + MaxConcurrent - 1

\* The inductive invariant behind SessionsAreSound.
SessionInv == ThreadsOK /\ SetupOK /\ SessionsOK /\ ThrottleOK

LEMMA VerifyingHold ==
    ASSUME ThrottleOK
    PROVE  /\ IsFiniteSet(Verifying) /\ Cardinality(Verifying) \in Nat /\ Cardinality(Holders) \in Nat
           /\ Cardinality(Verifying) <= Cardinality(Holders) /\ Cardinality(Holders) <= MaxConcurrent
<1>1. Verifying \subseteq Holders
  BY DEF Verifying, Holders
<1>2. IsFiniteSet(Holders) /\ slots \in Nat /\ slots + Cardinality(Holders) = MaxConcurrent
  BY DEF ThrottleOK
<1>3. IsFiniteSet(Verifying) /\ Cardinality(Verifying) <= Cardinality(Holders)
  BY <1>1, <1>2, FS_Subset
<1>4. Cardinality(Verifying) \in Nat /\ Cardinality(Holders) \in Nat
  BY <1>2, <1>3, FS_CardinalityType
<1> QED BY <1>2, <1>3, <1>4

LEMMA SetupAfterTurn ==
    ASSUME ThreadsOK, SetupOK, NEW t \in Threads, NEW l, NEW r, Turn(t, l, r),
           UNCHANGED users, r.op # "setup" \/ l # "commit"
    PROVE  SetupOK'
BY TurnMoves DEF SetupOK, At

LEMMA HoldersAfterTurn ==
    ASSUME ThreadsOK, NEW t \in Threads, NEW l, NEW r, Turn(t, l, r)
    PROVE  /\ Holders' = IF r.op = "login" /\ l \in {"check", "verify", "accepted", "rejected"}
                         THEN Holders \cup {t} ELSE Holders \ {t}
           /\ Verifying' = IF r.op = "login" /\ l = "verify" THEN Verifying \cup {t} ELSE Verifying \ {t}
BY TurnMoves DEF Holders, Verifying

\* A step of a thread that holds no slot and takes none.
LEMMA ThrottleBeside ==
    ASSUME ThreadsOK, ThrottleOK, NEW t \in Threads, NEW l, NEW r, Turn(t, l, r), UNCHANGED <<slots, failures>>,
           req[t].op # "login" \/ pc[t] \in {"attempt", "session"}, r.op # "login" \/ l \in {"attempt", "session"}
    PROVE  ThrottleOK'
<1>1. t \notin Holders /\ t \notin Verifying
  BY DEF Holders, Verifying
<1>2. Holders' = Holders /\ Verifying' = Verifying
  BY <1>1, HoldersAfterTurn
<1> QED BY <1>2 DEF ThrottleOK

\* A step of a thread that has nothing to do with setup and login.
LEMMA TurnBesideSessions ==
    ASSUME SessionInv, NEW t \in Threads, NEW l, NEW r, Turn(t, l, r), UNCHANGED auth, ThreadOK(t)',
           req[t].op # "login" \/ pc[t] \in {"attempt", "session"}, r.op # "login" \/ l \in {"attempt", "session"},
           r.op # "setup" \/ l # "commit"
    PROVE  SessionInv'
<1>1. ThreadsOK'
  BY ThreadsAfterTurn DEF SessionInv, auth
<1>2. SetupOK'
  BY SetupAfterTurn DEF SessionInv, auth
<1>3. ThrottleOK'
  BY ThrottleBeside DEF SessionInv, auth
<1> QED BY <1>1, <1>2, <1>3 DEF SessionInv, SessionsOK, auth

LEMMA SessionsOfAssets ==
    ASSUME SessionInv, NEW t \in Threads, ServeAsset(t), UNCHANGED auth
    PROVE  SessionInv'
<1>1. ThreadsOK /\ ThreadOK(t)
  BY DEF SessionInv, ThreadsOK
<1>2. AssetMoves(t)
  BY <1>1, ServeAssetMoves
<1>3. CASE Turn(t, "idle", NoRequest)
  <2>1. ThreadOK(t)'
    BY <1>1, <1>3, TurnMoves DEF ThreadOK, NoRequest, AuthOps, AssetOps
  <2> QED BY <1>2, <1>3, <2>1, TurnBesideSessions DEF NoRequest, AssetMoves, AssetOps
<1>4. ASSUME NEW l \in {"insert", "script", "test", "commit"}, NEW r, Turn(t, l, r), Extends(r, req[t])
      PROVE  SessionInv'
  <2>1. r.op = req[t].op /\ r.session = req[t].session /\ r.late = req[t].late
        /\ {"op", "session", "late"} \subseteq DOMAIN r
    BY <1>1, <1>2, <1>4 DEF ThreadOK, AssetMoves, Extends
  <2>2. ~req[t].late
    BY <1>1, <1>2 DEF ThreadOK, AssetMoves
  <2>3. pc'[t] = l /\ req'[t] = r /\ UNCHANGED <<sessions, loggedOut>>
    BY <1>1, <1>4, TurnMoves DEF auth
  <2>4. ~req'[t].late
    BY <2>1, <2>2, <2>3, Zenon
  <2>5. ThreadOK(t)'
    BY <1>1, <1>2, <1>4, <2>1, <2>3, <2>4 DEF ThreadOK, AssetMoves, AssetOps, AuthOps
  <2> QED BY <1>2, <1>4, <2>1, <2>5, TurnBesideSessions DEF AssetMoves, AssetOps
<1> QED BY <1>2, <1>3, <1>4 DEF AssetMoves

LEMMA SessionsOfSetup ==
    ASSUME SessionInv, NEW t \in Threads, ReadBootstrap(t) \/ InsertBootstrap(t) \/ CommitSetup(t)
    PROVE  SessionInv'
<1>1. ThreadsOK /\ ThreadOK(t)
  BY DEF SessionInv, ThreadsOK
<1>2. req[t].op = "setup"
  BY DEF ReadBootstrap, InsertBootstrap, CommitSetup, At
<1>3. CASE Return(t) /\ UNCHANGED auth
  BY <1>1, <1>2, <1>3, ReturnTurn, TurnBesideSessions DEF NoRequest
<1>4. ASSUME NEW l \in {"bootstrap", "commit", "session"}, Goto(t, l), UNCHANGED <<req, sessions, loggedOut>>
      PROVE  Turn(t, l, req[t]) /\ ThreadOK(t)'
  <2>1. Turn(t, l, req[t])
    BY <1>1, <1>4, GotoTurn
  <2>2. pc'[t] = l /\ req'[t] = req[t]
    BY <1>1, <2>1, TurnMoves
  <2> QED BY <1>1, <1>2, <1>4, <2>1, <2>2 DEF ThreadOK, AssetOps
<1>5. CASE Goto(t, "bootstrap") /\ UNCHANGED <<req, auth>>
  BY <1>1, <1>2, <1>4, <1>5, TurnBesideSessions DEF auth
<1>6. CASE InsertBootstrap(t) /\ Goto(t, "commit") /\ users = 0 /\ UNCHANGED <<req, auth>>
  <2>1. Turn(t, "commit", req[t]) /\ ThreadOK(t)'
    BY <1>4, <1>6 DEF auth
  <2>2. ~BootstrapPending
    BY <1>6 DEF InsertBootstrap
  <2>3. SetupOK'
    BY <1>1, <1>6, <2>1, <2>2, TurnMoves DEF SetupOK, BootstrapPending, At, auth
  <2>4. ThreadsOK'
    BY <1>1, <1>6, <2>1, ThreadsAfterTurn DEF auth
  <2>5. ThrottleOK'
    BY <1>1, <1>2, <1>6, <2>1, ThrottleBeside DEF SessionInv, auth
  <2> QED BY <1>6, <2>3, <2>4, <2>5 DEF SessionInv, SessionsOK, auth
<1>7. CASE CommitSetup(t)
  <2>1. UNCHANGED <<req, sessions, loggedOut, failures, slots>> /\ Goto(t, "session") /\ At(t, "setup", "commit")
    BY <1>7 DEF CommitSetup
  <2>2. Turn(t, "session", req[t]) /\ ThreadOK(t)'
    BY <1>4, <2>1
  <2>3. users = 0 /\ users' = 1
    BY <1>7, <2>1 DEF SessionInv, SetupOK, CommitSetup
  <2>4. \A u \in Threads : ~At(u, "setup", "commit")'
    BY <1>1, <2>1, <2>2, TurnMoves DEF SessionInv, SetupOK, At
  <2>5. ThreadsOK'
    BY <1>1, <2>1, <2>2, ThreadsAfterTurn
  <2>6. ThrottleOK'
    BY <1>1, <1>2, <2>1, <2>2, ThrottleBeside DEF SessionInv
  <2> QED BY <2>1, <2>3, <2>4, <2>5, <2>6 DEF SessionInv, SessionsOK, SetupOK
<1>8. users \in {0, 1}
  BY DEF SessionInv, SetupOK
<1> QED
  BY <1>3, <1>5, <1>6, <1>7, <1>8 DEF ReadBootstrap, InsertBootstrap

\* A login takes its slot, passes the check, records the outcome and leaves.
LEMMA SessionsOfLogin ==
    ASSUME SessionInv, NEW t \in Threads, Attempt(t) \/ CheckFailures(t) \/ Verify(t) \/ Leave(t)
    PROVE  SessionInv'
<1>1. ThreadsOK /\ ThreadOK(t) /\ ThrottleOK
  BY DEF SessionInv, ThreadsOK
<1>2. req[t].op = "login" /\ UNCHANGED <<users, sessions, loggedOut>>
  BY <1>1 DEF Attempt, CheckFailures, Verify, Leave, At, ThreadOK, AuthOps, AssetOps
<1>3. ASSUME ThrottleOK', NEW l, NEW r, Turn(t, l, r), ThreadOK(t)', r.op # "setup"
      PROVE  SessionInv'
  <2>1. ThreadsOK'
    BY <1>1, <1>2, <1>3, ThreadsAfterTurn
  <2>2. SetupOK'
    BY <1>1, <1>2, <1>3, SetupAfterTurn DEF SessionInv
  <2> QED BY <1>2, <1>3, <2>1, <2>2 DEF SessionInv, SessionsOK
<1>4. ASSUME NEW l \in {"check", "verify", "accepted", "rejected", "session"}, Goto(t, l), UNCHANGED req
      PROVE  Turn(t, l, req[t]) /\ ThreadOK(t)'
  <2>1. Turn(t, l, req[t])
    BY <1>1, <1>4, GotoTurn
  <2>2. pc'[t] = l /\ req'[t] = req[t]
    BY <1>1, <2>1, TurnMoves
  <2> QED BY <1>2, <2>1, <2>2 DEF ThreadOK, AssetOps, AuthOps
<1>5. ASSUME Return(t) PROVE Turn(t, "idle", NoRequest) /\ ThreadOK(t)' /\ NoRequest.op = "none"
  BY <1>1, <1>5, ReturnTurn DEF NoRequest
<1>6. /\ IsFiniteSet(Holders) /\ slots \in Nat /\ slots + Cardinality(Holders) = MaxConcurrent
      /\ failures \in Nat /\ failures + Cardinality(Verifying) <= MaxFailures + MaxConcurrent - 1
  BY <1>1 DEF ThrottleOK
<1>7. /\ IsFiniteSet(Verifying) /\ Cardinality(Verifying) \in Nat /\ Cardinality(Holders) \in Nat
      /\ Cardinality(Verifying) <= Cardinality(Holders) /\ Cardinality(Holders) <= MaxConcurrent
  BY <1>1, VerifyingHold
<1>8. MaxFailures \in Nat \ {0} /\ MaxConcurrent \in Nat \ {0}
  BY ThrottleAssumption
<1>9. CASE Attempt(t)
  <2>1. t \notin Holders /\ t \notin Verifying
    BY <1>9 DEF Attempt, At, Holders, Verifying
  <2>2. CASE slots = 0
    BY <1>1, <1>2, <1>3, <1>5, <1>9, <2>2, ThrottleBeside DEF Attempt, At
  <2>3. CASE slots # 0
    <3>1. slots' = slots - 1 /\ Goto(t, "check") /\ UNCHANGED <<req, failures>>
      BY <1>9, <2>3 DEF Attempt
    <3>2. Turn(t, "check", req[t]) /\ ThreadOK(t)'
      BY <1>4, <3>1
    <3>3. Holders' = Holders \cup {t} /\ Verifying' = Verifying
      BY <1>1, <1>2, <2>1, <3>2, HoldersAfterTurn
    <3>4. IsFiniteSet(Holders') /\ Cardinality(Holders') = Cardinality(Holders) + 1
      BY <1>6, <2>1, <3>3, FS_AddElement
    <3>5. ThrottleOK'
      BY <1>6, <1>7, <1>8, <2>3, <3>1, <3>3, <3>4 DEF ThrottleOK
    <3> QED BY <1>2, <1>3, <3>2, <3>5
  <2> QED BY <2>2, <2>3
<1>10. CASE CheckFailures(t)
  <2>1. t \in Holders /\ t \notin Verifying /\ UNCHANGED failures
    BY <1>10 DEF CheckFailures, At, Holders, Verifying
  <2>2. CASE failures >= MaxFailures
    <3>1. Turn(t, "idle", NoRequest) /\ ThreadOK(t)' /\ NoRequest.op = "none" /\ slots' = slots + 1
      BY <1>5, <1>10, <2>2 DEF CheckFailures
    <3>2. Holders' = Holders \ {t} /\ Verifying' = Verifying
      BY <1>1, <2>1, <3>1, HoldersAfterTurn
    <3>3. IsFiniteSet(Holders') /\ Cardinality(Holders') = Cardinality(Holders) - 1
      BY <1>6, <2>1, <3>2, FS_RemoveElement
    <3>4. ThrottleOK'
      BY <1>6, <1>7, <1>8, <2>1, <3>1, <3>2, <3>3 DEF ThrottleOK
    <3> QED BY <1>3, <3>1, <3>4
  <2>3. CASE ~(failures >= MaxFailures)
    <3>1. Goto(t, "verify") /\ UNCHANGED <<req, slots>>
      BY <1>10, <2>3 DEF CheckFailures
    <3>2. Turn(t, "verify", req[t]) /\ ThreadOK(t)'
      BY <1>4, <3>1
    <3>3. Holders' = Holders /\ Verifying' = Verifying \cup {t}
      BY <1>1, <1>2, <2>1, <3>2, HoldersAfterTurn
    <3>4. Verifying' \subseteq Holders
      BY <2>1, <3>3 DEF Verifying, Holders
    <3>5. IsFiniteSet(Verifying') /\ Cardinality(Verifying') <= Cardinality(Holders)
      BY <1>6, <3>4, FS_Subset
    <3>6. Cardinality(Verifying') \in Nat
      BY <3>5, FS_CardinalityType
    <3>7. ThrottleOK'
      BY <1>6, <1>7, <1>8, <2>1, <2>3, <3>1, <3>3, <3>5, <3>6 DEF ThrottleOK
    <3> QED BY <1>2, <1>3, <3>2, <3>7
  <2> QED BY <2>2, <2>3
<1>11. CASE Verify(t)
  <2>1. t \in Holders /\ t \in Verifying /\ UNCHANGED <<req, slots>>
    BY <1>11 DEF Verify, At, Holders, Verifying
  <2>2. PICK l \in {"accepted", "rejected"} : Goto(t, l) /\ failures' \in {0, failures + 1}
    BY <1>11 DEF Verify
  <2>3. Turn(t, l, req[t]) /\ ThreadOK(t)'
    BY <1>4, <2>1, <2>2
  <2>4. Holders' = Holders /\ Verifying' = Verifying \ {t}
    BY <1>1, <1>2, <2>1, <2>3, HoldersAfterTurn
  <2>5. IsFiniteSet(Verifying') /\ Cardinality(Verifying') = Cardinality(Verifying) - 1
    BY <1>7, <2>1, <2>4, FS_RemoveElement
  <2>6. ThrottleOK'
    BY <1>6, <1>7, <1>8, <2>1, <2>2, <2>4, <2>5 DEF ThrottleOK
  <2> QED BY <1>2, <1>3, <2>3, <2>6
<1>12. CASE Leave(t)
  <2>1. t \in Holders /\ t \notin Verifying /\ UNCHANGED failures /\ slots' = slots + 1
    BY <1>2, <1>12 DEF Leave, At, Holders, Verifying
  <2>2. PICK l, r : Turn(t, l, r) /\ ThreadOK(t)' /\ r.op # "setup" /\ l \in {"idle", "session"}
    <3>1. CASE pc[t] = "accepted"
      <4>1. Turn(t, "session", req[t]) /\ ThreadOK(t)'
        BY <1>4, <1>12, <3>1 DEF Leave
      <4> QED BY <1>2, <4>1
    <3>2. CASE pc[t] # "accepted"
      BY <1>5, <1>12, <3>2 DEF Leave
    <3> QED BY <3>1, <3>2
  <2>3. Holders' = Holders \ {t} /\ Verifying' = Verifying
    BY <1>1, <2>1, <2>2, HoldersAfterTurn
  <2>4. IsFiniteSet(Holders') /\ Cardinality(Holders') = Cardinality(Holders) - 1
    BY <1>6, <2>1, <2>3, FS_RemoveElement
  <2>5. ThrottleOK'
    BY <1>6, <1>7, <1>8, <2>1, <2>3, <2>4 DEF ThrottleOK
  <2> QED BY <1>3, <2>2, <2>5
<1> QED BY <1>9, <1>10, <1>11, <1>12

\* Sessions are created, expire, are logged out and are looked up.
LEMMA SessionsOfSessions ==
    ASSUME SessionInv, NEW t \in Threads, CreateSession(t) \/ Logout(t) \/ Authenticate(t)
    PROVE  SessionInv'
<1>1. ThreadsOK /\ ThreadOK(t) /\ SessionsOK
  BY DEF SessionInv, ThreadsOK
<1>2. CASE Authenticate(t)
  <2>1. req[t].op \in AssetOps /\ pc[t] = "arrived" /\ UNCHANGED auth
    BY <1>1, <1>2 DEF Authenticate, ThreadOK, AuthOps, AssetOps
  <2>2. CASE sessions[req[t].session] = "live"
    <3>1. Turn(t, "serve", req[t])
      BY <1>1, <1>2, <2>2, GotoTurn DEF Authenticate
    <3>2. pc'[t] = "serve" /\ req'[t] = req[t]
      BY <1>1, <3>1, TurnMoves
    <3>3. req[t].session \notin loggedOut
      BY <1>1, <2>2 DEF SessionsOK
    <3>4. ThreadOK(t)'
      BY <1>1, <2>1, <3>2, <3>3 DEF ThreadOK, AssetOps, AuthOps, auth
    <3> QED BY <2>1, <3>1, <3>4, TurnBesideSessions DEF AssetOps
  <2>3. CASE sessions[req[t].session] # "live"
    BY <1>1, <1>2, <2>1, <2>3, ReturnTurn, TurnBesideSessions DEF Authenticate, NoRequest, AssetOps
  <2> QED BY <2>2, <2>3
<1>3. ASSUME Return(t), UNCHANGED <<users, failures, slots>>, SessionsOK', DOMAIN sessions \subseteq DOMAIN sessions',
             loggedOut \subseteq loggedOut', req[t].op # "login" \/ pc[t] = "session"
      PROVE  SessionInv'
  <2>1. Turn(t, "idle", NoRequest) /\ ThreadOK(t)' /\ NoRequest.op = "none"
    BY <1>1, <1>3, ReturnTurn DEF NoRequest
  <2>2. ThreadsOK'
    BY <1>1, <1>3, <2>1, ThreadsAfterTurn
  <2>3. SetupOK'
    BY <1>1, <1>3, <2>1, SetupAfterTurn DEF SessionInv
  <2>4. ThrottleOK'
    BY <1>1, <1>3, <2>1, ThrottleBeside DEF SessionInv
  <2> QED BY <1>3, <2>2, <2>3, <2>4 DEF SessionInv
<1>4. CASE CreateSession(t)
  <2> DEFINE kept == [s \in DOMAIN sessions |-> IF sessions[s] = "live" THEN "live" ELSE "deleted"]
  <2>1. sessions \in Seq(SessionState) /\ DOMAIN sessions = 1..Len(sessions) /\ Len(sessions) \in Nat
    BY <1>1 DEF SessionsOK
  <2>2. kept \in Seq(SessionState) /\ Len(kept) = Len(sessions)
    BY <2>1 DEF SessionState
  <2>3. sessions' = Append(kept, "live") /\ "live" \in SessionState
    BY <1>4 DEF CreateSession, SessionState
  <2>4. /\ sessions' \in Seq(SessionState) /\ DOMAIN sessions' = 1..(Len(sessions) + 1)
        /\ \A s \in DOMAIN sessions : sessions'[s] = kept[s]
    <3> HIDE DEF kept
    <3> QED BY <2>1, <2>2, <2>3
  <2>5. DOMAIN sessions \subseteq DOMAIN sessions'
    BY <2>1, <2>4
  <2>6. UNCHANGED <<users, loggedOut, failures, slots>> /\ Return(t) /\ pc[t] = "session"
    BY <1>4 DEF CreateSession
  <2>7. \A s \in loggedOut : sessions'[s] = "deleted"
    BY <1>1, <2>4 DEF SessionsOK
  <2>8. SessionsOK'
    BY <1>1, <2>4, <2>5, <2>6, <2>7 DEF SessionsOK
  <2> QED BY <1>3, <2>5, <2>6, <2>8
<1>5. CASE Logout(t)
  <2> DEFINE s == req[t].session
  <2>1. s \in DOMAIN sessions /\ req[t].op = "logout"
    BY <1>1, <1>5 DEF Logout, At, ThreadOK
  <2>2. /\ sessions' = [sessions EXCEPT ![s] = IF @ = "deleted" THEN @ ELSE "revoked"]
        /\ loggedOut' = loggedOut \union {s}
        /\ Return(t) /\ UNCHANGED <<users, failures, slots>>
    BY <1>5 DEF Logout
  <2> HIDE DEF s
  <2>3. sessions' \in Seq(SessionState) /\ DOMAIN sessions' = DOMAIN sessions
    BY <1>1, <2>1, <2>2 DEF SessionsOK, SessionState
  <2>4. \A u \in DOMAIN sessions : sessions'[u] = IF u = s THEN IF sessions[s] = "deleted" THEN "deleted" ELSE "revoked"
                                                            ELSE sessions[u]
    BY <1>1, <2>1, <2>2 DEF SessionsOK
  <2>5. SessionsOK'
    BY <1>1, <2>1, <2>2, <2>3, <2>4 DEF SessionsOK
  <2> QED BY <1>3, <2>1, <2>2, <2>3, <2>5
<1> QED BY <1>2, <1>4, <1>5

LEMMA SessionsOfRequests ==
    ASSUME SessionInv, NEW t \in Threads, AssetRequest(t) \/ AuthRequest(t)
    PROVE  SessionInv'
<1>1. ThreadsOK /\ loggedOut \subseteq DOMAIN sessions /\ UNCHANGED auth
  BY DEF SessionInv, SessionsOK, AssetRequest, AuthRequest
<1>2. CASE AssetRequest(t)
  <2>1. PICK r : Turn(t, "arrived", r) /\ r.op \in AssetOps /\ ThreadOK(t)' /\ req[t].op = "none"
    BY <1>1, <1>2, AssetRequestTurn
  <2> QED BY <1>1, <2>1, TurnBesideSessions DEF AssetOps
<1>3. ASSUME NEW r, NEW l, Receive(t, r, l),
             \/ r.op = "setup" /\ l = "setup"
             \/ r.op = "login" /\ l = "attempt"
             \/ r.op = "logout" /\ l = "logout" /\ r.session \in DOMAIN sessions
      PROVE  SessionInv'
  <2>1. Turn(t, l, r) /\ req[t].op = "none"
    BY <1>1, <1>3, ReceiveTurn
  <2>2. pc'[t] = l /\ req'[t] = r
    BY <1>1, <2>1, TurnMoves
  <2>3. ThreadOK(t)'
    BY <1>1, <1>3, <2>2 DEF ThreadOK, AuthOps, AssetOps, auth
  <2> QED BY <1>1, <1>3, <2>1, <2>3, TurnBesideSessions
<1>4. CASE Receive(t, [op |-> "setup"], "setup")
  BY <1>3, <1>4
<1>5. ASSUME NEW correct \in BOOLEAN, Receive(t, [op |-> "login", correct |-> correct], "attempt") PROVE SessionInv'
  BY <1>3, <1>5
<1>6. ASSUME NEW s \in DOMAIN sessions, Receive(t, [op |-> "logout", session |-> s], "logout") PROVE SessionInv'
  BY <1>3, <1>6
<1> QED BY <1>2, <1>4, <1>5, <1>6 DEF AuthRequest

LEMMA SessionsBeside ==
    ASSUME SessionInv, UNCHANGED <<auth, threads>>
    PROVE  SessionInv'
BY DEF SessionInv, ThreadsOK, ThreadOK, SetupOK, SessionsOK, ThrottleOK, Holders, Verifying, At, auth, threads

LEMMA SessionsOfTime ==
    ASSUME SessionInv, FailureAges \/ \E s \in DOMAIN sessions : Expire(s)
    PROVE  SessionInv'
<1>1. UNCHANGED <<users, loggedOut, slots, threads>>
  BY DEF FailureAges, Expire
<1>2. SetupOK' /\ Holders' = Holders /\ Verifying' = Verifying
  BY <1>1 DEF SessionInv, SetupOK, At, Holders, Verifying, threads
<1>3. CASE FailureAges
  <2>1. failures' = failures - 1 /\ failures > 0 /\ UNCHANGED sessions
    BY <1>3 DEF FailureAges
  <2>2. ThrottleOK'
    BY <1>1, <1>2, <2>1, VerifyingHold, ThrottleAssumption DEF SessionInv, ThrottleOK
  <2>3. ThreadsOK' /\ SessionsOK'
    BY <1>1, <2>1, ThreadsBeside DEF SessionInv, SessionsOK
  <2> QED BY <1>2, <2>2, <2>3 DEF SessionInv
<1>4. ASSUME NEW s \in DOMAIN sessions, Expire(s) PROVE SessionInv'
  <2>1. sessions' = [sessions EXCEPT ![s] = "expired"] /\ sessions[s] = "live" /\ UNCHANGED failures
    BY <1>4 DEF Expire
  <2>2. SessionsOK' /\ DOMAIN sessions' = DOMAIN sessions
    BY <1>1, <2>1 DEF SessionInv, SessionsOK, SessionState
  <2>3. ThreadsOK'
    BY <1>1, <2>2, ThreadsBeside DEF SessionInv
  <2>4. ThrottleOK'
    BY <1>1, <1>2, <2>1 DEF SessionInv, ThrottleOK
  <2> QED BY <1>2, <2>2, <2>3, <2>4 DEF SessionInv
<1> QED BY <1>3, <1>4

LEMMA SessionsStep == ASSUME SessionInv, [Next]_vars PROVE SessionInv'
<1>1. CASE UNCHANGED vars
  BY <1>1, SessionsBeside DEF vars
<1>2. ASSUME NEW t \in Threads, AssetRequest(t) \/ AuthRequest(t) PROVE SessionInv'
  BY <1>2, SessionsOfRequests
<1>3. ASSUME NEW t \in Threads, Serve(t) PROVE SessionInv'
  <2>1. CASE ServeAsset(t) /\ UNCHANGED auth
    BY <2>1, SessionsOfAssets
  <2>2. CASE ServeAuth(t)
    BY <2>2, SessionsOfSetup, SessionsOfLogin, SessionsOfSessions DEF ServeAuth
  <2> QED BY <1>3, <2>1, <2>2 DEF Serve
<1>4. CASE FailureAges \/ \E s \in DOMAIN sessions : Expire(s)
  BY <1>4, SessionsOfTime
<1>5. CASE StreamNext /\ UNCHANGED <<assets, auth, threads>>
  BY <1>5, SessionsBeside
<1> QED BY <1>1, <1>2, <1>3, <1>4, <1>5 DEF Next

LEMMA SessionsInit == Init => SessionInv
<1> SUFFICES ASSUME Init PROVE SessionInv
  OBVIOUS
<1>1. ThreadsOK
  BY DEF Init, ThreadsInit, ThreadsOK, ThreadOK, NoRequest, AuthOps, AssetOps
<1>2. SetupOK
  BY DEF Init, AuthInit, ThreadsInit, SetupOK, At, NoRequest
<1>3. SessionsOK
  <2>1. sessions \in {<<>>, <<"live">>} /\ loggedOut = {}
    BY DEF Init, AuthInit
  <2>2. <<>> \in Seq(SessionState) /\ <<"live">> \in Seq(SessionState)
    BY DEF SessionState
  <2> QED BY <2>1, <2>2 DEF SessionsOK
<1>4. Holders = {} /\ Verifying = {}
  BY DEF Init, ThreadsInit, Holders, Verifying, NoRequest
<1>5. ThrottleOK
  BY <1>4, FS_EmptySet, ThrottleAssumption DEF Init, AuthInit, ThrottleOK
<1> QED BY <1>1, <1>2, <1>3, <1>5 DEF SessionInv

\* Setup, login and logout under every interleaving of any number of requests:
\* one administrator (initialize_admin), a throttle that keeps its limit and its
\* slots (AuthThrottle.attempt) and logged out sessions that serve nothing any
\* more (authentication_middleware).
THEOREM SessionsStaySound == Spec => []SessionsAreSound
<1>1. Init => SessionInv
  BY SessionsInit
<1>2. SessionInv /\ [Next]_vars => SessionInv'
  BY SessionsStep
<1>3. SessionInv => SessionsAreSound
  <2> SUFFICES ASSUME SessionInv PROVE SessionsAreSound
    OBVIOUS
  <2>1. OneAdmin
    BY DEF SessionInv, SetupOK, OneAdmin
  <2>2. FailuresBounded
    BY VerifyingHold, ThrottleAssumption DEF SessionInv, ThrottleOK, FailuresBounded
  <2>3. SlotsAreReturned
    BY DEF SessionInv, ThrottleOK, SlotsAreReturned, Holders
  <2>4. LoggedOutStaysOut
    BY DEF SessionInv, ThreadsOK, ThreadOK, LoggedOutStaysOut
  <2> QED BY <2>1, <2>2, <2>3, <2>4 DEF SessionsAreSound
<1> QED BY <1>1, <1>2, <1>3, PTL DEF Spec

-----------------------------------------------------------------------------
(* Events, the stream and the page.                                        *)

\* The naturals are well ordered: the library's least number principle takes an
\* operator, this one a set.
LEMMA LeastNumber ==
    ASSUME NEW S \in SUBSET Nat, S # {}
    PROVE  \E n \in S : \A m \in S : n <= m
<1> DEFINE R == {ss \in Nat \X Nat : ss[1] < ss[2]}
<1>1. R = OpToRel(<, Nat)
  BY Zenon DEF OpToRel
<1>2. IsWellFoundedOn(R, Nat)
  BY <1>1, NatLessThanWellFounded, Zenon
<1>3. PICK n \in S : \A m \in S : <<m, n>> \notin R
  <2> HIDE DEF R
  <2> QED BY <1>2, WFMin
<1>4. \A m \in S : ~(m < n)
  BY <1>3
<1> QED BY <1>4

EventTypes == {"log", "extraction", "finished"}
Event == [cursor : Nat \ {0}, run : {1, 2}, attempt : Attempts, type : EventTypes]

\* s is what a listing of run r behind `after` found, or what is left of it: a row
\* that is not in it was committed since, behind all of it unless it was overtaken
Covers(s, all, late, r, after) ==
    /\ s \subseteq {e \in all : e.run = r /\ e.cursor > after}
    /\ \A e \in all, d \in s :
          e.run = r /\ e.cursor > after /\ e \notin s /\ e.cursor \notin late => e.cursor > d.cursor

\* of run r, nothing up to a cursor is missing from what is shown
Passed(shown, all, late, r, upto) ==
    \A e \in all : e.run = r /\ e.cursor <= upto /\ Understood(e) /\ e.cursor \notin late => e \in shown

LEMMA LeastIsFirst ==
    ASSUME NEW s \in SUBSET Event, s # {}
    PROVE  Least(s) \in s /\ \A d \in s : Least(s).cursor <= d.cursor
<1> DEFINE C == {d.cursor : d \in s}
<1>1. C \in SUBSET Nat /\ C # {}
  BY DEF Event
<1>2. PICK n \in C : \A m \in C : n <= m
  <2> HIDE DEF C
  <2> QED BY <1>1, LeastNumber
<1>3. \E e \in s : \A d \in s : e.cursor <= d.cursor
  BY <1>2
<1> QED BY <1>3 DEF Least

LEMMA LastIsGreatest ==
    ASSUME NEW s \in SUBSET Event, NEW b \in Nat, \A e \in s : e.cursor <= b
    PROVE  /\ Last(s) \in Nat
           /\ Last(s) # 0 => \E e \in s : e.cursor = Last(s)
           /\ \A e \in s : e.cursor <= Last(s)
<1> DEFINE Above == {n \in Nat : \A e \in s : e.cursor <= n}
<1>1. PICK n \in Above : \A m \in Above : n <= m
  <2>1. b \in Above /\ Above \in SUBSET Nat
    OBVIOUS
  <2> HIDE DEF Above
  <2> QED BY <2>1, LeastNumber
<1>2. n = 0 \/ \E e \in s : e.cursor = n
  <2> SUFFICES ASSUME n # 0, \A e \in s : e.cursor # n PROVE FALSE
    OBVIOUS
  <2>1. \A e \in s : e.cursor \in Nat /\ e.cursor <= n
    BY <1>1 DEF Event
  <2>2. n - 1 \in Above
    BY <2>1
  <2> QED BY <1>1, <2>2
<1>3. n \in {e.cursor : e \in s} \cup {0} /\ \A e \in s : e.cursor <= n
  BY <1>1, <1>2
<1>4. Last(s) \in {e.cursor : e \in s} \cup {0} /\ \A e \in s : e.cursor <= Last(s)
  BY <1>3 DEF Last
<1> QED BY <1>4 DEF Event

\* A commit leaves what a listing found and what has been shown as complete as
\* it was: a row that is now too late has been overtaken.
LEMMA CommitCovers ==
    ASSUME NEW all \in SUBSET Event, NEW e \in Event, NEW late, NEW later,
           \A d \in all : d.cursor # e.cursor, late \subseteq later,
           (\E d \in all : d.run = e.run /\ d.cursor > e.cursor) => e.cursor \in later,
           NEW s, NEW r, NEW after \in Nat
    PROVE  /\ Covers(s, all, late, r, after) => Covers(s, all \cup {e}, later, r, after)
           /\ \A shown : Passed(shown, all, late, r, after) /\ (after # 0 => \E d \in all : d.run = r /\ d.cursor = after)
                             => Passed(shown, all \cup {e}, later, r, after)
<1>1. ASSUME Covers(s, all, late, r, after) PROVE Covers(s, all \cup {e}, later, r, after)
  <2>1. \A d \in s : d \in all /\ d.run = r /\ d.cursor > after
    BY <1>1 DEF Covers
  <2>2. ASSUME NEW x \in all \cup {e}, NEW d \in s, x.run = r, x.cursor > after, x \notin s, x.cursor \notin later
        PROVE  x.cursor > d.cursor
    <3>1. CASE x \in all
      BY <1>1, <2>2, <3>1 DEF Covers
    <3>2. CASE x = e
      <4>1. d \in all /\ d.run = e.run /\ ~(d.cursor > e.cursor) /\ d.cursor # e.cursor
        BY <2>1, <2>2, <3>2
      <4>2. d.cursor \in Nat /\ e.cursor \in Nat
        BY <4>1 DEF Event
      <4> QED BY <3>2, <4>1, <4>2
    <3> QED BY <3>1, <3>2
  <2> QED BY <2>1, <2>2 DEF Covers
<1>2. ASSUME NEW shown, Passed(shown, all, late, r, after),
             after # 0 => \E d \in all : d.run = r /\ d.cursor = after
      PROVE  Passed(shown, all \cup {e}, later, r, after)
  <2>1. SUFFICES ASSUME NEW x \in all \cup {e}, x.run = r, x.cursor <= after, Understood(x), x.cursor \notin later
        PROVE  x \in shown
    BY DEF Passed
  <2>2. CASE x \in all
    BY <1>2, <2>1, <2>2 DEF Passed
  <2>3. CASE x = e
    <3>1. e.cursor \in Nat \ {0}
      BY DEF Event
    <3>2. PICK d \in all : d.run = r /\ d.cursor = after
      BY <1>2, <2>1, <2>3, <3>1
    <3>3. d.cursor > e.cursor
      BY <2>1, <2>3, <3>1, <3>2
    <3> QED BY <2>1, <2>3, <3>2, <3>3
  <2> QED BY <2>2, <2>3
<1> QED BY <1>1, <1>2

\* Sending the first row of a listing.
LEMMA SendCovers ==
    ASSUME NEW all \in SUBSET Event, \A e, d \in all : e.cursor = d.cursor => e = d,
           NEW late, NEW s, s # {}, NEW r, NEW after \in Nat, Covers(s, all, late, r, after),
           NEW shown, Passed(shown, all, late, r, after)
    PROVE  /\ Least(s) \in all /\ Least(s).run = r
           /\ Covers(s \ {Least(s)}, all, late, r, Least(s).cursor)
           /\ Passed(shown \cup {Least(s)}, all, late, r, Least(s).cursor)
<1> DEFINE e == Least(s)
<1>1. \A d \in s : d \in all /\ d \in Event /\ d.run = r /\ d.cursor > after
  BY DEF Covers
<1>2. e \in s /\ \A d \in s : e.cursor <= d.cursor
  BY <1>1, LeastIsFirst
<1> HIDE DEF e
<1>3. \A d \in all : d.cursor \in Nat
  BY DEF Event
<1>4. \A d \in s \ {e} : d.cursor > e.cursor
  BY <1>1, <1>2, <1>3
<1>5. ASSUME NEW x \in all, x.run = r, x.cursor \notin late, x \notin s, x.cursor > after
      PROVE  x.cursor > e.cursor
  BY <1>2, <1>5 DEF Covers
<1>6. Covers(s \ {e}, all, late, r, e.cursor)
  <2>1. ASSUME NEW x \in all, NEW d \in s \ {e}, x.run = r, x.cursor > e.cursor, x \notin s \ {e}, x.cursor \notin late
        PROVE  x.cursor > d.cursor
    <3>1. x \notin s /\ x.cursor > after
      BY <1>1, <1>2, <1>3, <2>1
    <3> QED BY <2>1, <3>1 DEF Covers
  <2> QED BY <1>1, <1>4, <2>1 DEF Covers
<1>7. Passed(shown \cup {e}, all, late, r, e.cursor)
  <2>1. SUFFICES ASSUME NEW x \in all, x.run = r, x.cursor <= e.cursor, Understood(x), x.cursor \notin late
        PROVE  x \in shown \cup {e}
    BY DEF Passed
  <2>2. CASE x.cursor <= after
    BY <2>1, <2>2 DEF Passed
  <2>3. CASE ~(x.cursor <= after)
    <3>1. x.cursor > after /\ ~(x.cursor > e.cursor)
      BY <1>1, <1>2, <1>3, <2>1, <2>3
    <3>2. x \in s
      BY <1>5, <2>1, <3>1
    <3>3. x = e
      BY <1>1, <1>2, <1>3, <2>1, <3>2
    <3> QED BY <3>3
  <2> QED BY <2>2, <2>3
<1> QED BY <1>1, <1>2, <1>6, <1>7 DEF e

\* Showing an answer: nothing up to its last cursor is missing.
LEMMA AnswerCovers ==
    ASSUME NEW all \in SUBSET Event, NEW late, NEW s, NEW r, Covers(s, all, late, r, 0),
           NEW b \in Nat, \A e \in all : e.cursor <= b
    PROVE  /\ Last(s) \in Nat
           /\ Last(s) # 0 => \E e \in all : e.run = r /\ e.cursor = Last(s)
           /\ Passed(s, all, late, r, Last(s))
<1>1. \A e \in s : e \in all /\ e.run = r
  BY DEF Covers
<1>2. /\ Last(s) \in Nat
      /\ Last(s) # 0 => \E e \in s : e.cursor = Last(s)
  BY <1>1, LastIsGreatest
<1>3. ASSUME NEW x \in all, x.run = r, x.cursor <= Last(s), x.cursor \notin late, x \notin s PROVE FALSE
  <2>1. x.cursor \in Nat \ {0}
    BY DEF Event
  <2>2. PICK d \in s : d.cursor = Last(s)
    BY <1>2, <1>3, <2>1
  <2>3. x.cursor > d.cursor
    BY <1>3, <2>1 DEF Covers
  <2> QED BY <1>2, <1>3, <2>1, <2>2, <2>3
<1> QED BY <1>1, <1>2, <1>3 DEF Passed

\* every row has a cursor of its own, the uncommitted ones too
WritersOK ==
    /\ rows \in SUBSET Event /\ \A e \in rows : e.cursor <= cursors
    /\ \A e, d \in rows : e.cursor = d.cursor => e = d
    /\ cursors \in 1..MaxCursor /\ overtaken \subseteq 1..cursors
    /\ inserting = [a \in Attempts |-> inserting[a]]
    /\ \A a \in Attempts : inserting[a] # NoRow =>
          /\ inserting[a] \in Event /\ inserting[a].run = 1 /\ inserting[a].cursor <= cursors
          /\ \A e \in rows : e.cursor # inserting[a].cursor
          /\ \A b \in Attempts : inserting[b].cursor = inserting[a].cursor => a = b

PageStates == {"idle", "loading", "connecting", "live", "reconnecting", "complete"}

PageOK ==
    /\ page \in [run : {0, 1, 2}, token : Nat, state : PageStates, shown : SUBSET Event]
    /\ \A e \in page.shown : e \in rows /\ e.run = page.run

\* a fetch with the page's token asked for the page's run
FetchOK(f) ==
    /\ DOMAIN f = {"run", "token", "ended", "answered", "items"}
    /\ f.run \in {1, 2} /\ f.token \in Nat /\ f.items \in SUBSET Event
    /\ f.token <= page.token
    /\ f.token = page.token => f.run = page.run
    /\ f.answered => Covers(f.items, rows, overtaken, f.run, 0)

\* the connection follows the page's run, from a cursor of that run on
ConnectionOK ==
    /\ stream \in [run : {0, 1, 2}, at : {"none", "list", "send", "closed", "refused"},
                   cursor : Nat, listing : SUBSET Event]
    /\ stream.run = 0 => stream = NoStream
    /\ stream.run # 0 =>
          /\ stream.run = page.run /\ page.state # "complete"
          /\ stream.cursor # 0 => \E e \in rows : e.run = stream.run /\ e.cursor = stream.cursor
          /\ stream.at = "send" => Covers(stream.listing, rows, overtaken, stream.run, stream.cursor)
          /\ Passed(page.shown, rows, overtaken, stream.run, stream.cursor)

\* The inductive invariant behind PageIsFaithful.
StreamInv == WritersOK /\ PageOK /\ (\A f \in fetches : FetchOK(f)) /\ ConnectionOK

LEMMA StreamOfFlush ==
    ASSUME StreamInv, NEW a \in Attempts, Flush(a)
    PROVE  StreamInv'
<1>1. UNCHANGED <<rows, overtaken, page, fetches, stream>> /\ cursors' = cursors + 1 /\ cursors < MaxCursor
  BY DEF Flush
<1>2. PICK type \in EventTypes : inserting' = [inserting EXCEPT ![a] =
              [cursor |-> cursors + 1, run |-> 1, attempt |-> a, type |-> type]]
  BY DEF Flush, EventTypes
<1> DEFINE new == [cursor |-> cursors + 1, run |-> 1, attempt |-> a, type |-> type]
<1>3. cursors \in 1..MaxCursor /\ MaxCursor \in Nat
  BY StreamAssumption DEF StreamInv, WritersOK
<1>4. new \in Event /\ new.run = 1 /\ new.cursor = cursors + 1
  BY <1>3 DEF Event
<1> HIDE DEF new
<1>5. /\ inserting' = [b \in Attempts |-> inserting'[b]] /\ inserting'[a] = new
      /\ \A b \in Attempts : b # a => inserting'[b] = inserting[b]
  BY <1>2 DEF StreamInv, WritersOK, new
<1>6. ASSUME NEW b \in Attempts, inserting[b] # NoRow PROVE inserting[b].cursor \in Nat /\ inserting[b].cursor <= cursors
  BY <1>6 DEF StreamInv, WritersOK, Event
<1>7. \A b \in Attempts : inserting[b].cursor <= cursors /\ inserting[b].cursor \in Nat
  BY <1>3, <1>6 DEF NoRow
<1>8. /\ \A e \in rows : e.cursor \in Nat /\ e.cursor <= cursors
      /\ \A e, d \in rows : e.cursor = d.cursor => e = d
      /\ rows \in SUBSET Event
  BY DEF StreamInv, WritersOK, Event
<1>9. ASSUME NEW b \in Attempts, inserting'[b] # NoRow
      PROVE  /\ inserting'[b] \in Event /\ inserting'[b].run = 1 /\ inserting'[b].cursor <= cursors'
             /\ \A e \in rows' : e.cursor # inserting'[b].cursor
             /\ \A c \in Attempts : inserting'[c].cursor = inserting'[b].cursor => b = c
  <2>1. CASE b = a
    BY <1>1, <1>3, <1>4, <1>5, <1>7, <1>8, <2>1
  <2>2. CASE b # a
    <3>1. inserting[b] # NoRow /\ inserting'[b] = inserting[b]
      BY <1>5, <1>9, <2>2
    <3>2. /\ inserting[b] \in Event /\ inserting[b].run = 1
          /\ \A e \in rows : e.cursor # inserting[b].cursor
          /\ \A c \in Attempts : inserting[c].cursor = inserting[b].cursor => b = c
      BY <3>1 DEF StreamInv, WritersOK
    <3> QED BY <1>1, <1>3, <1>4, <1>5, <1>7, <3>1, <3>2
  <2> QED BY <2>1, <2>2
<1>10. cursors' \in 1..MaxCursor /\ overtaken' \subseteq 1..cursors'
  BY <1>1, <1>3 DEF StreamInv, WritersOK
<1>11. WritersOK'
  BY <1>1, <1>3, <1>5, <1>8, <1>9, <1>10 DEF WritersOK
<1> QED BY <1>1, <1>11 DEF StreamInv, PageOK, FetchOK, ConnectionOK

LEMMA StreamOfCommit ==
    ASSUME StreamInv, NEW a \in Attempts, Commit(a)
    PROVE  StreamInv'
<1> DEFINE e == inserting[a]
<1>1. /\ UNCHANGED <<cursors, page, fetches, stream>> /\ inserting[a] # NoRow
      /\ rows' = rows \cup {e} /\ inserting' = [inserting EXCEPT ![a] = NoRow]
      /\ overtaken' = overtaken \cup {c \in {e.cursor} : \E d \in Of(1) : d.cursor > c}
  BY DEF Commit
<1>2. /\ e \in Event /\ e.run = 1 /\ e.cursor <= cursors /\ \A d \in rows : d.cursor # e.cursor
      /\ \A b \in Attempts : inserting[b].cursor = e.cursor => a = b
  BY <1>1 DEF StreamInv, WritersOK
<1>3. /\ inserting' = [b \in Attempts |-> inserting'[b]] /\ inserting'[a] = NoRow
      /\ \A b \in Attempts : b # a => inserting'[b] = inserting[b]
  BY <1>1 DEF StreamInv, WritersOK
<1> HIDE DEF e
<1>4. rows \in SUBSET Event /\ overtaken \subseteq overtaken'
      /\ ((\E d \in rows : d.run = e.run /\ d.cursor > e.cursor) => e.cursor \in overtaken')
  BY <1>1, <1>2 DEF StreamInv, WritersOK, Of
<1>5. WritersOK'
  <2>1. cursors \in Nat /\ e.cursor \in 1..cursors
    BY <1>2 DEF StreamInv, WritersOK, Event
  <2>2. overtaken' \subseteq 1..cursors
    BY <1>1, <2>1 DEF StreamInv, WritersOK
  <2>3. ASSUME NEW b \in Attempts, inserting'[b] # NoRow
        PROVE  /\ inserting'[b] \in Event /\ inserting'[b].run = 1 /\ inserting'[b].cursor <= cursors
               /\ \A d \in rows' : d.cursor # inserting'[b].cursor
               /\ \A c \in Attempts : inserting'[c].cursor = inserting'[b].cursor => b = c
    <3>1. b # a /\ inserting'[b] = inserting[b] /\ inserting[b] # NoRow
      BY <1>3, <2>3
    <3>2. /\ inserting[b] \in Event /\ inserting[b].run = 1 /\ inserting[b].cursor <= cursors
          /\ \A d \in rows : d.cursor # inserting[b].cursor
          /\ \A c \in Attempts : inserting[c].cursor = inserting[b].cursor => b = c
      BY <3>1 DEF StreamInv, WritersOK
    <3>3. inserting[b].cursor # 0 /\ NoRow.cursor = 0
      BY <3>2 DEF Event, NoRow
    <3> QED BY <1>1, <1>2, <1>3, <3>1, <3>2, <3>3
  <2>4. rows' \in SUBSET Event /\ \A d \in rows' : d.cursor <= cursors
    BY <1>1, <1>2, <1>4 DEF StreamInv, WritersOK
  <2>5. \A c, d \in rows' : c.cursor = d.cursor => c = d
    BY <1>1, <1>2 DEF StreamInv, WritersOK
  <2> QED BY <1>1, <1>3, <2>2, <2>3, <2>4, <2>5 DEF WritersOK, StreamInv
<1>6. PageOK'
  BY <1>1 DEF StreamInv, PageOK
<1>7. ASSUME NEW f \in fetches PROVE FetchOK(f)'
  BY <1>1, <1>2, <1>4, CommitCovers DEF StreamInv, FetchOK
<1>8. ConnectionOK'
  <2>1. stream.cursor \in Nat
    BY DEF StreamInv, ConnectionOK
  <2>2. Covers(stream.listing, rows, overtaken, stream.run, stream.cursor) =>
            Covers(stream.listing, rows', overtaken', stream.run, stream.cursor)
    BY <1>1, <1>2, <1>4, <2>1, CommitCovers
  <2>3. stream.run # 0 => Passed(page.shown, rows', overtaken', stream.run, stream.cursor)
    BY <1>1, <1>2, <1>4, <2>1, CommitCovers DEF StreamInv, ConnectionOK
  <2> QED BY <1>1, <2>2, <2>3 DEF StreamInv, ConnectionOK
<1> QED BY <1>1, <1>5, <1>6, <1>7, <1>8 DEF StreamInv

LEMMA WritersBeside ==
    ASSUME WritersOK, UNCHANGED writers
    PROVE  WritersOK' /\ UNCHANGED <<rows, overtaken>>
BY DEF WritersOK, writers

\* The steps of the server: a listing is what there is behind a cursor.
LEMMA StreamOfServer ==
    ASSUME StreamInv, AnswerFetch \/ StreamList \/ StreamState
    PROVE  StreamInv'
<1>1. WritersOK' /\ UNCHANGED <<rows, overtaken, page>> /\ rows \in SUBSET Event
  BY WritersBeside DEF StreamInv, WritersOK, AnswerFetch, StreamList, StreamState
<1>2. PageOK'
  BY <1>1 DEF StreamInv, PageOK
<1>3. \A r, after : Covers(ListEvents(r, after), rows, overtaken, r, after) /\ ListEvents(r, after) \in SUBSET Event
  BY <1>1 DEF Covers, ListEvents, Of
<1>4. CASE AnswerFetch
  <2>1. PICK f \in fetches : fetches' = (fetches \ {f}) \cup {[f EXCEPT !.answered = TRUE, !.items = ListEvents(f.run, 0)]}
    BY <1>4 DEF AnswerFetch
  <2>2. UNCHANGED stream
    BY <1>4 DEF AnswerFetch
  <2>3. FetchOK(f)
    BY DEF StreamInv
  <2> PICK g : g = [f EXCEPT !.answered = TRUE, !.items = ListEvents(f.run, 0)]
    OBVIOUS
  <2>4. /\ DOMAIN g = {"run", "token", "ended", "answered", "items"}
        /\ g.run = f.run /\ g.token = f.token /\ g.items = ListEvents(f.run, 0)
    BY <2>3 DEF FetchOK
  <2>5. FetchOK(g)'
    BY <1>1, <1>3, <2>3, <2>4 DEF FetchOK
  <2>6. ASSUME NEW h \in fetches PROVE FetchOK(h)'
    BY <1>1 DEF StreamInv, FetchOK
  <2>7. ConnectionOK'
    BY <1>1, <2>2 DEF StreamInv, ConnectionOK
  <2> QED BY <1>1, <1>2, <2>1, <2>5, <2>6, <2>7 DEF StreamInv
<1>5. ASSUME UNCHANGED fetches, ConnectionOK' PROVE StreamInv'
  BY <1>1, <1>2, <1>5 DEF StreamInv, FetchOK
<1>6. CASE StreamList
  <2>1. /\ stream' = [stream EXCEPT !.at = "send", !.listing = ListEvents(stream.run, stream.cursor)]
        /\ UNCHANGED fetches /\ stream.at = "list"
    BY <1>6 DEF StreamList
  <2>2. stream.run # 0
    BY <2>1 DEF StreamInv, ConnectionOK, NoStream
  <2>3. /\ stream'.run = stream.run /\ stream'.at = "send" /\ stream'.cursor = stream.cursor
        /\ stream'.listing = ListEvents(stream.run, stream.cursor)
        /\ stream' \in [run : {0, 1, 2}, at : {"none", "list", "send", "closed", "refused"},
                        cursor : Nat, listing : SUBSET Event]
    BY <1>3, <2>1 DEF StreamInv, ConnectionOK
  <2>4. ConnectionOK'
    BY <1>1, <1>3, <2>2, <2>3 DEF StreamInv, ConnectionOK
  <2> QED BY <1>5, <2>1, <2>4
<1>7. CASE StreamState
  <2>1. PICK l \in {"closed", "list"} : stream' = [stream EXCEPT !.at = l] /\ UNCHANGED fetches /\ stream.at = "send"
    BY <1>7 DEF StreamState
  <2>2. stream.run # 0
    BY <2>1 DEF StreamInv, ConnectionOK, NoStream
  <2>3. /\ stream'.run = stream.run /\ stream'.at = l /\ stream'.cursor = stream.cursor
        /\ stream' \in [run : {0, 1, 2}, at : {"none", "list", "send", "closed", "refused"},
                        cursor : Nat, listing : SUBSET Event]
    BY <2>1 DEF StreamInv, ConnectionOK
  <2>4. ConnectionOK'
    BY <1>1, <2>2, <2>3 DEF StreamInv, ConnectionOK
  <2> QED BY <1>5, <2>1, <2>4
<1> QED BY <1>4, <1>6, <1>7

\* Another run is selected, or none: nothing of the old selection is used.
LEMMA StreamOfSelection ==
    ASSUME StreamInv, CloseDetails \/ \E r \in {1, 2} : Select(r)
    PROVE  StreamInv'
<1>1. WritersOK' /\ UNCHANGED <<rows, overtaken>>
  BY WritersBeside DEF StreamInv, CloseDetails, Select
<1>2. PICK r \in {0, 1, 2}, s \in PageStates :
         page' = [run |-> r, token |-> page.token + 1, state |-> s, shown |-> {}] /\ stream' = NoStream
  BY DEF CloseDetails, Select, PageStates
<1>3. page.token \in Nat
  BY DEF StreamInv, PageOK
<1>4. PageOK' /\ page'.token = page.token + 1
  BY <1>2, <1>3 DEF PageOK
<1>5. ConnectionOK'
  BY <1>2 DEF ConnectionOK, NoStream
<1>6. ASSUME NEW f \in Unabortable PROVE FetchOK(f)'
  <2>1. FetchOK(f)
    BY DEF StreamInv, Unabortable
  <2>2. f.token \in Nat
    BY <2>1 DEF FetchOK
  <2> QED BY <1>1, <1>3, <1>4, <2>1, <2>2 DEF FetchOK
<1>7. CASE CloseDetails
  BY <1>1, <1>4, <1>5, <1>6, <1>7 DEF CloseDetails, StreamInv
<1>8. ASSUME NEW q \in {1, 2}, Select(q) PROVE StreamInv'
  <2>1. page'.run = q
    BY <1>8 DEF Select
  <2>2. PICK listed \in {FALSE, (q \in ended)} :
           fetches' = Unabortable \cup {[run |-> q, token |-> page.token + 1, ended |-> listed,
                                         answered |-> FALSE, items |-> {}]}
    BY <1>8 DEF Select
  <2> PICK f : f = [run |-> q, token |-> page.token + 1, ended |-> listed, answered |-> FALSE, items |-> {}]
    OBVIOUS
  <2>3. FetchOK(f)'
    BY <1>3, <1>4, <2>1 DEF FetchOK
  <2> QED BY <1>1, <1>4, <1>5, <1>6, <2>2, <2>3 DEF StreamInv
<1> QED BY <1>7, <1>8

\* A fetch is over: answered or failed, it is used only with the page's token.
LEMMA StreamOfFetched ==
    ASSUME StreamInv, FetchAnswered \/ FetchFails
    PROVE  StreamInv'
<1>1. WritersOK' /\ UNCHANGED <<rows, overtaken>> /\ rows \in SUBSET Event
  BY WritersBeside DEF StreamInv, WritersOK, FetchAnswered, FetchFails
<1>2. PICK f \in fetches :
         /\ fetches' = fetches \ {f}
         /\ IF f.token = page.token
            THEN \/ f.answered /\ Fetched(f)
                 \/ page' = [page EXCEPT !.state = "connecting"] /\ stream' = Connected(f.run, 0)
            ELSE UNCHANGED <<page, stream>>
  BY DEF FetchAnswered, FetchFails
<1>3. FetchOK(f)
  BY DEF StreamInv
<1>4. ASSUME page'.token = page.token, page'.run = page.run PROVE \A g \in fetches' : FetchOK(g)'
  BY <1>1, <1>2, <1>4 DEF StreamInv, FetchOK
<1>5. CASE UNCHANGED <<page, stream>>
  BY <1>1, <1>4, <1>5 DEF StreamInv, PageOK, ConnectionOK
<1>6. ASSUME f.token = page.token, NEW s \in PageStates, NEW shown \in SUBSET Event,
             \A e \in shown : e \in rows /\ e.run = f.run,
             page' = [page EXCEPT !.shown = shown, !.state = s]
      PROVE  /\ page'.token = page.token /\ page'.run = page.run /\ page.run = f.run
             /\ page'.shown = shown /\ page'.state = s /\ PageOK'
  <2>1. page.run = f.run
    BY <1>3, <1>6 DEF FetchOK
  <2>2. page'.token = page.token /\ page'.run = page.run /\ page'.shown = shown /\ page'.state = s
    BY <1>6 DEF StreamInv, PageOK
  <2>3. page' \in [run : {0, 1, 2}, token : Nat, state : PageStates, shown : SUBSET Event]
    BY <1>6 DEF StreamInv, PageOK
  <2> QED BY <1>1, <1>6, <2>1, <2>2, <2>3 DEF PageOK
<1>7. ASSUME NEW c \in Nat, stream' = Connected(f.run, c), page'.run = f.run, page'.state = "connecting",
             c # 0 => \E e \in rows : e.run = f.run /\ e.cursor = c,
             Passed(page'.shown, rows, overtaken, f.run, c)
      PROVE  ConnectionOK'
  <2>1. f.run \in {1, 2}
    BY <1>3 DEF FetchOK
  <2>2. stream' = [run |-> f.run, at |-> "list", cursor |-> c, listing |-> {}]
    BY <1>7 DEF Connected, NoStream
  <2> QED BY <1>1, <1>7, <2>1, <2>2 DEF ConnectionOK
<1>8. ASSUME f.token = page.token, page' = [page EXCEPT !.state = "connecting"], stream' = Connected(f.run, 0)
      PROVE  StreamInv'
  <2>1. page' = [page EXCEPT !.shown = page.shown, !.state = "connecting"] /\ page.run = f.run
    BY <1>3, <1>8 DEF StreamInv, PageOK, FetchOK
  <2>2. page.shown \in SUBSET Event /\ \A e \in page.shown : e \in rows /\ e.run = f.run
    BY <2>1 DEF StreamInv, PageOK
  <2>3. PageOK' /\ page'.token = page.token /\ page'.run = f.run /\ page.run = f.run /\ page'.state = "connecting"
    BY <1>6, <1>8, <2>1, <2>2 DEF PageStates
  <2>4. Passed(page'.shown, rows, overtaken, f.run, 0)
    BY <1>1 DEF Passed, Event
  <2>5. ConnectionOK'
    BY <1>7, <1>8, <2>3, <2>4
  <2> QED BY <1>1, <1>4, <2>3, <2>5 DEF StreamInv
<1>9. ASSUME f.token = page.token, f.answered, Fetched(f), ~(page' = [page EXCEPT !.state = "connecting"] /\ stream' = Connected(f.run, 0))
      PROVE  StreamInv'
  <2>1. Covers(f.items, rows, overtaken, f.run, 0)
    BY <1>3, <1>9 DEF FetchOK
  <2>2. f.items \in SUBSET Event /\ \A e \in f.items : e \in rows /\ e.run = f.run
    BY <1>1, <2>1 DEF Covers
  <2>3. PICK s \in {"complete", "connecting"} :
           /\ page' = [page EXCEPT !.shown = f.items, !.state = s]
           /\ stream' = IF s = "complete" THEN NoStream ELSE Connected(f.run, NextCursor(f))
    BY <1>9 DEF Fetched
  <2>4. PageOK' /\ page'.token = page.token /\ page'.run = page.run /\ page.run = f.run
        /\ page'.state = s /\ page'.shown = f.items
    BY <1>6, <1>9, <2>2, <2>3 DEF PageStates
  <2>5. ConnectionOK'
    <3>1. CASE s = "complete"
      BY <2>3, <3>1 DEF ConnectionOK, NoStream
    <3>2. CASE s = "connecting"
      <4>1. cursors \in Nat /\ \A e \in rows : e.cursor <= cursors
        BY DEF StreamInv, WritersOK
      <4>2. /\ Last(f.items) \in Nat
            /\ Last(f.items) # 0 => \E e \in rows : e.run = f.run /\ e.cursor = Last(f.items)
            /\ Passed(f.items, rows, overtaken, f.run, Last(f.items))
        BY <1>1, <2>1, <4>1, AnswerCovers
      <4>3. stream' = Connected(f.run, Last(f.items))
        BY <2>3, <3>2 DEF NextCursor
      <4> QED BY <1>7, <2>4, <3>2, <4>2, <4>3
    <3> QED BY <3>1, <3>2
  <2> QED BY <1>1, <1>4, <2>4, <2>5 DEF StreamInv
<1> QED BY <1>2, <1>5, <1>8, <1>9

\* The connection sends an event, is lost, comes back or is refused.
LEMMA StreamOfConnection ==
    ASSUME StreamInv, StreamSend \/ ConnectionLost \/ Reconnect \/ ReconnectRefused
    PROVE  StreamInv'
<1>1. WritersOK' /\ UNCHANGED <<rows, overtaken, fetches>> /\ rows \in SUBSET Event
  BY WritersBeside DEF StreamInv, WritersOK, StreamSend, ConnectionLost, Reconnect, ReconnectRefused
<1>2. stream.run # 0
  BY DEF StreamInv, ConnectionOK, NoStream, StreamSend, ConnectionLost, Reconnect, ReconnectRefused
<1>3. /\ stream.run = page.run /\ page.state # "complete"
      /\ stream.cursor \in Nat
      /\ stream.cursor # 0 => \E e \in rows : e.run = stream.run /\ e.cursor = stream.cursor
      /\ stream.at = "send" => Covers(stream.listing, rows, overtaken, stream.run, stream.cursor)
      /\ Passed(page.shown, rows, overtaken, stream.run, stream.cursor)
  BY <1>2 DEF StreamInv, ConnectionOK
<1>4. ASSUME NEW s \in PageStates, NEW shown \in SUBSET Event, \A e \in shown : e \in rows /\ e.run = page.run,
             page' = [page EXCEPT !.shown = shown, !.state = s]
      PROVE  /\ page'.token = page.token /\ page'.run = page.run /\ page'.shown = shown /\ page'.state = s
             /\ PageOK' /\ \A g \in fetches' : FetchOK(g)'
  <2>1. page'.token = page.token /\ page'.run = page.run /\ page'.shown = shown /\ page'.state = s
    BY <1>4 DEF StreamInv, PageOK
  <2>2. page' \in [run : {0, 1, 2}, token : Nat, state : PageStates, shown : SUBSET Event]
    BY <1>4 DEF StreamInv, PageOK
  <2>3. \A g \in fetches' : FetchOK(g)'
    BY <1>1, <2>1 DEF StreamInv, FetchOK
  <2> QED BY <1>1, <1>4, <2>1, <2>2, <2>3 DEF PageOK
<1>5. CASE StreamSend
  <2> DEFINE e == Least(stream.listing)
             shown == IF Understood(e) THEN page.shown \cup {e} ELSE page.shown
  <2>1. stream.at = "send" /\ stream.listing # {}
    BY <1>5 DEF StreamSend
  <2>2. shown \in SUBSET Event /\ \A d \in shown : d \in rows /\ d.run = page.run
    <3>1. e \in stream.listing
      BY <2>1, LeastIsFirst DEF StreamInv, ConnectionOK
    <3> HIDE DEF e
    <3>2. e \in Event /\ e \in rows /\ e.run = page.run
      BY <1>1, <1>3, <2>1, <3>1 DEF Covers
    <3> QED BY <3>2 DEF StreamInv, PageOK
  <2>3. /\ e \in rows /\ e.run = stream.run
        /\ Covers(stream.listing \ {e}, rows, overtaken, stream.run, e.cursor)
        /\ Passed(shown, rows, overtaken, stream.run, e.cursor)
    <3>1. \A c, d \in rows : c.cursor = d.cursor => c = d
      BY DEF StreamInv, WritersOK
    <3>3. /\ rows \in SUBSET Event /\ stream.listing # {} /\ stream.cursor \in Nat
          /\ Covers(stream.listing, rows, overtaken, stream.run, stream.cursor)
          /\ Passed(page.shown, rows, overtaken, stream.run, stream.cursor)
      BY <1>1, <1>3, <2>1
    <3>4. /\ e \in rows /\ e.run = stream.run
          /\ Covers(stream.listing \ {e}, rows, overtaken, stream.run, e.cursor)
          /\ Passed(page.shown \cup {e}, rows, overtaken, stream.run, e.cursor)
      BY <3>1, <3>3, SendCovers
    <3> HIDE DEF e
    <3> QED BY <3>4 DEF Passed
  <2>4. e.cursor \in Nat
    BY <1>1, <2>3 DEF Event
  <2>5. \/ /\ e.type = "finished" /\ stream' = NoStream
           /\ page' = CompleteOf([page EXCEPT !.shown = shown, !.state = "live"])
        \/ /\ page' = [page EXCEPT !.shown = shown, !.state = "live"]
           /\ stream' = [stream EXCEPT !.cursor = e.cursor, !.listing = @ \ {e}]
    BY <1>5 DEF StreamSend
  <2> HIDE DEF e, shown
  <2>6. CASE stream' = NoStream /\ page' = CompleteOf([page EXCEPT !.shown = shown, !.state = "live"])
    <3>1. page' = [page EXCEPT !.shown = shown, !.state = "complete"]
      BY <2>6 DEF CompleteOf, StreamInv, PageOK
    <3>2. PageOK' /\ \A g \in fetches' : FetchOK(g)'
      BY <1>4, <2>2, <3>1 DEF PageStates
    <3>3. ConnectionOK'
      BY <2>6 DEF ConnectionOK, NoStream
    <3> QED BY <1>1, <3>2, <3>3 DEF StreamInv
  <2>7. CASE /\ page' = [page EXCEPT !.shown = shown, !.state = "live"]
             /\ stream' = [stream EXCEPT !.cursor = e.cursor, !.listing = @ \ {e}]
    <3>1. /\ PageOK' /\ (\A g \in fetches' : FetchOK(g)')
          /\ page'.run = page.run /\ page'.shown = shown /\ page'.state = "live"
      BY <1>4, <2>2, <2>7 DEF PageStates
    <3>2. /\ stream'.run = stream.run /\ stream'.cursor = e.cursor /\ stream'.listing = stream.listing \ {e}
          /\ stream' \in [run : {0, 1, 2}, at : {"none", "list", "send", "closed", "refused"},
                          cursor : Nat, listing : SUBSET Event]
      BY <2>4, <2>7 DEF StreamInv, ConnectionOK
    <3>3. ConnectionOK'
      BY <1>1, <1>2, <1>3, <2>3, <3>1, <3>2 DEF ConnectionOK
    <3> QED BY <1>1, <3>1, <3>3 DEF StreamInv
  <2> QED BY <2>5, <2>6, <2>7
<1>6. ASSUME NEW l \in {"list", "closed", "refused"}, NEW listing \in {{}, stream.listing},
             stream' = [stream EXCEPT !.at = l, !.listing = listing],
             NEW s \in {"live", "reconnecting"}, page' = [page EXCEPT !.state = s]
      PROVE  StreamInv'
  <2>1. page' = [page EXCEPT !.shown = page.shown, !.state = s]
    BY <1>6 DEF StreamInv, PageOK
  <2>2. page.shown \in SUBSET Event /\ \A e \in page.shown : e \in rows /\ e.run = page.run
    BY DEF StreamInv, PageOK
  <2>3. /\ PageOK' /\ (\A g \in fetches' : FetchOK(g)')
        /\ page'.run = page.run /\ page'.shown = page.shown /\ page'.state = s
    BY <1>4, <2>1, <2>2 DEF PageStates
  <2>4. /\ stream'.run = stream.run /\ stream'.cursor = stream.cursor /\ stream'.at = l
        /\ stream' \in [run : {0, 1, 2}, at : {"none", "list", "send", "closed", "refused"},
                        cursor : Nat, listing : SUBSET Event]
    BY <1>6 DEF StreamInv, ConnectionOK
  <2>5. ConnectionOK'
    BY <1>1, <1>2, <1>3, <2>3, <2>4 DEF ConnectionOK
  <2> QED BY <1>1, <2>3, <2>5 DEF StreamInv
<1>7. CASE ConnectionLost
  BY <1>6, <1>7 DEF ConnectionLost
<1>8. ASSUME NEW l \in {"list", "refused"}, stream' = [stream EXCEPT !.at = l]
      PROVE  stream' = [stream EXCEPT !.at = l, !.listing = stream.listing]
  BY <1>8 DEF StreamInv, ConnectionOK
<1>9. CASE Reconnect
  BY <1>6, <1>8, <1>9 DEF Reconnect
<1>10. CASE ReconnectRefused
  BY <1>6, <1>8, <1>10 DEF ReconnectRefused
<1> QED BY <1>5, <1>7, <1>9, <1>10

LEMMA StreamBeside ==
    ASSUME StreamInv, UNCHANGED <<rows, cursors, inserting, overtaken, page, fetches, stream>>
    PROVE  StreamInv'
BY DEF StreamInv, WritersOK, PageOK, FetchOK, ConnectionOK

LEMMA StreamStepOK == ASSUME StreamInv, [Next]_vars PROVE StreamInv'
<1>1. CASE UNCHANGED streamVars
  BY <1>1, StreamBeside DEF streamVars
<1>2. CASE StreamNext
  <2>1. ASSUME NEW a \in Attempts, Flush(a) \/ Commit(a) PROVE StreamInv'
    BY <2>1, StreamOfFlush, StreamOfCommit
  <2>2. CASE Retry \/ RunEnds
    BY <2>2, StreamBeside DEF Retry, RunEnds
  <2>3. CASE StreamStep
    BY <2>3, StreamOfServer, StreamOfFetched, StreamOfConnection DEF StreamStep
  <2>4. CASE CloseDetails \/ \E r \in {1, 2} : Select(r)
    BY <2>4, StreamOfSelection
  <2>5. CASE FetchFails \/ ConnectionLost \/ ReconnectRefused
    BY <2>5, StreamOfFetched, StreamOfConnection
  <2> QED BY <1>2, <2>1, <2>2, <2>3, <2>4, <2>5 DEF StreamNext
<1>3. ASSUME NEW t \in Threads, AssetRequest(t) \/ Serve(t) PROVE UNCHANGED streamVars
  BY <1>3 DEF AssetRequest, Serve
<1> QED BY <1>1, <1>2, <1>3 DEF Next, vars

LEMMA StreamInitOK == Init => StreamInv
<1> SUFFICES ASSUME Init PROVE StreamInv
  OBVIOUS
<1>1. WritersOK
  BY StreamAssumption DEF Init, StreamInit, WritersOK, Event, EventTypes, Attempts, NoRow
<1>2. PageOK /\ ConnectionOK
  BY DEF Init, StreamInit, PageOK, PageStates, ConnectionOK, NoStream
<1> QED BY <1>1, <1>2 DEF Init, StreamInit, StreamInv

\* The execution page under every order of commits, answers, lost connections
\* and selections: it shows the selected run only (selectRun's token), and what
\* lies behind its cursor has been shown (stream_events, Last-Event-ID), but for
\* the rows that were committed after a higher cursor.
THEOREM PageStaysFaithful == Spec => []PageIsFaithful
<1>1. Init => StreamInv
  BY StreamInitOK
<1>2. StreamInv /\ [Next]_vars => StreamInv'
  BY StreamStepOK
<1>3. StreamInv => PageIsFaithful
  BY DEF StreamInv, PageOK, ConnectionOK, Passed, PageIsFaithful, ShownIsSelected, NothingPassedOver, Of
<1> QED BY <1>1, <1>2, <1>3, PTL DEF Spec

-----------------------------------------------------------------------------
(* Rows, their locks and the requests that change them.                    *)

Common == {"op", "session", "late"}
Locking == {"insert", "script", "commit"}

LocksOK ==
    /\ locks \in [Rows -> Threads \cup {Nobody}]
    /\ \A r \in Rows, t \in Threads : locks[r] = t => req[t].op \in AssetOps /\ pc[t] \in Locking

\* update_enum_set and delete_enum_set hold the enum's row from their checks to
\* their commit, and what they have checked still holds then
EnumRequestOK(t) ==
    /\ req[t].op = "updateEnum" => req[t].options \in SUBSET Values
    /\ req[t].op \in {"updateEnum", "deleteEnum"} /\ pc[t] \notin {"arrived", "serve"} =>
          /\ pc[t] = "commit" /\ locks["enum"] = t /\ enum.present
          /\ req[t].op = "updateEnum" => DefaultsStay(t)
          /\ req[t].op = "deleteEnum" => ~Referenced

\* replace_script_parameters: what it has read of the enum was true of the version it
\* saw, and once it has inserted, the enum is there and stays
ParameterRequestOK(t) ==
    req[t].op = "parameters" =>
        /\ DOMAIN req[t] = Common \cup {"new"} \cup (IF pc[t] \in {"arrived", "serve"} THEN {} ELSE {"seen"})
        /\ req[t].new # NoParameter => req[t].new \in [enum : Nat \ {0}, default : Values] /\ req[t].new.enum <= enum.id
        /\ pc[t] \notin {"arrived", "serve"} =>
              /\ locks["script"] = t /\ req[t].seen \in Nat
              /\ req[t].new # NoParameter /\ req[t].new.enum = enum.id =>
                    /\ req[t].seen <= enum.version
                    /\ req[t].seen = enum.version => req[t].new.default \in enum.options
        /\ pc[t] = "commit" /\ req[t].new # NoParameter =>
              locks["enum"] = t /\ enum.present /\ enum.id = req[t].new.enum

\* test_connector: the configuration it has read is that of the version it has read
TestRequestOK(t) ==
    req[t].op = "testConnector" =>
        /\ DOMAIN req[t] = Common \cup {"id"} \cup (IF pc[t] = "test" THEN {"expected", "config"} ELSE {})
        /\ req[t].id \in Nat /\ req[t].id <= connector.id
        /\ pc[t] = "test" =>
              /\ req[t].expected \in Nat /\ req[t].config \in Nat /\ req[t].config <= connector.config
              /\ req[t].id = connector.id =>
                    /\ req[t].expected <= connector.version
                    /\ req[t].expected = connector.version => req[t].config = connector.config

\* the requests that hold the row of the case or of the script
LinkRequestOK(t) ==
    /\ req[t].op = "updateAsset" =>
          /\ DOMAIN req[t] = Common \cup {"row", "expected"} \cup
                                (IF pc[t] \in {"arrived", "serve"} THEN {} ELSE {"status"})
          /\ req[t].row \in {"case", "script"}
          /\ pc[t] \notin {"arrived", "serve"} =>
                locks[req[t].row] = t /\ req[t].status \in {"DRAFT", "READY", "ARCHIVED"}
    /\ req[t].op = "scriptLink" /\ pc[t] \in {"script", "commit"} => locks["case"] = t
    /\ req[t].op = "scriptLink" /\ pc[t] = "commit" =>
          locks["script"] = t /\ Linkable /\ "scriptLink" \notin links
    /\ req[t].op = "traceLink" /\ pc[t] = "insert" => \A r \in Rows : locks[r] # t
    /\ req[t].op = "traceLink" /\ pc[t] = "commit" => locks["case"] = t /\ "traceLink" \notin links

RequestOK(t) == EnumRequestOK(t) /\ ParameterRequestOK(t) /\ TestRequestOK(t) /\ LinkRequestOK(t)

EnumOK ==
    /\ enum \in [id : Nat \ {0}, present : BOOLEAN, options : SUBSET Values, version : Nat]
    /\ parameter = NoParameter \/ parameter \in [enum : Nat \ {0}, default : Values, overtaken : BOOLEAN]
    /\ NoDanglingParameter /\ DefaultsAreOptions

ConnectorOK ==
    /\ connector \in [id : Nat, present : BOOLEAN, version : Nat, config : Nat,
                      sealed : Nat, revision : Nat, tested : Nat]
    /\ CredentialReadable /\ connector.tested <= connector.config

LinksOK ==
    /\ asset \in [{"case", "script"} -> [status : {"DRAFT", "READY", "ARCHIVED"}, version : Nat]]
    /\ created = [l \in Links |-> IF l \in links THEN 1 ELSE 0]

Active == {t \in Threads : pc[t] # "idle"}

\* every enum, connector and version was made by a request that has been answered
CountsOK ==
    /\ IsFiniteSet(Active) /\ events \in 0..MaxEvents
    /\ enum.id + Cardinality(Active) <= events + 1
    /\ enum.version + Cardinality(Active) <= events
    /\ connector.config + Cardinality(Active) <= events + 1

RowsOK == EnumOK /\ ConnectorOK /\ LinksOK

\* The inductive invariant behind RowsStayConsistent.
RowsInv == LocksOK /\ RowsOK /\ CountsOK /\ \A t \in Threads : RequestOK(t)

\* What a step of one thread leaves to the others: their rows, what they have
\* locked, and the order of the versions they have read.
Leaves(t) ==
    /\ locks' \in [Rows -> Threads \cup {Nobody}]
    /\ \A r \in Rows, u \in Threads : u # t => (locks[r] = u <=> locks'[r] = u)
    /\ \/ enum' = enum
       \/ ~enum.present /\ enum'.id = enum.id + 1
       \/ locks["enum"] = t /\ enum'.id = enum.id /\ enum'.version = enum.version + 1
       \/ locks["enum"] = t /\ enum'.id = enum.id /\ enum'.version = enum.version /\ enum'.options = enum.options
    /\ parameter' = parameter \/ parameter' = NoParameter \/ locks["enum"] = t
    /\ \/ connector' = connector
       \/ connector'.id = connector.id + 1 /\ connector'.config = connector.config + 1
       \/ connector'.id = connector.id /\ connector'.version = connector.version + 1
             /\ connector'.config \in {connector.config, connector.config + 1}
       \/ connector'.id = connector.id /\ connector'.version = connector.version /\ connector'.config = connector.config
    /\ \A a \in {"case", "script"} : locks[a] # t => asset'[a] = asset[a]
    /\ locks["case"] # t => links' = links

LEMMA OthersKeep ==
    ASSUME LocksOK, RowsOK, NEW t \in Threads, Leaves(t),
           NEW u \in Threads, u # t, RequestOK(u), pc'[u] = pc[u], req'[u] = req[u]
    PROVE  RequestOK(u)'
<1>0. /\ enum.id \in Nat \ {0} /\ enum.version \in Nat
      /\ connector.id \in Nat /\ connector.version \in Nat /\ connector.config \in Nat
  BY DEF RowsOK, EnumOK, ConnectorOK
<1>1. ASSUME locks["enum"] = u
      PROVE  /\ locks'["enum"] = u
             /\ enum.present => enum' = enum
             /\ parameter' = parameter \/ parameter' = NoParameter
  BY <1>1 DEF Leaves, Rows
<1>2. EnumRequestOK(u)'
  <2>1. req[u].op = "updateEnum" => req[u].options \in SUBSET Values
    BY DEF RequestOK, EnumRequestOK
  <2>2. ASSUME req[u].op \in {"updateEnum", "deleteEnum"}, pc[u] \notin {"arrived", "serve"}
        PROVE  /\ pc[u] = "commit" /\ locks'["enum"] = u /\ enum'.present
               /\ req[u].op = "updateEnum" => (Referenced' => parameter'.default \in req[u].options)
               /\ req[u].op = "deleteEnum" => ~Referenced'
    <3>1. /\ pc[u] = "commit" /\ locks["enum"] = u /\ enum.present
          /\ req[u].op = "updateEnum" => DefaultsStay(u)
          /\ req[u].op = "deleteEnum" => ~Referenced
      BY <2>2 DEF RequestOK, EnumRequestOK
    <3>2. locks'["enum"] = u /\ enum' = enum /\ (parameter' = parameter \/ parameter' = NoParameter)
      BY <1>1, <3>1
    <3>3. parameter' = NoParameter => ~Referenced'
      BY <1>0, <3>2 DEF Referenced, NoParameter
    <3> QED BY <3>1, <3>2, <3>3 DEF DefaultsStay, Referenced
  <2> QED BY <2>1, <2>2 DEF EnumRequestOK, DefaultsStay
<1>3. ParameterRequestOK(u)'
  <2>1. CASE req[u].op = "parameters"
    <3>1. ParameterRequestOK(u)
      BY DEF RequestOK
    <3>2. locks["script"] = u => locks'["script"] = u
      BY DEF Leaves, Rows
    <3>3. enum'.id \in Nat /\ enum.id <= enum'.id
      BY <1>0 DEF Leaves
    <3>4. ASSUME req[u].new # NoParameter
          PROVE  /\ req[u].new.enum <= enum'.id
                 /\ pc[u] \notin {"arrived", "serve"} /\ req[u].new.enum = enum'.id =>
                      /\ req[u].seen <= enum'.version
                      /\ req[u].seen = enum'.version => req[u].new.default \in enum'.options
      <4>1. req[u].new.enum \in Nat /\ req[u].new.enum <= enum.id
        BY <2>1, <3>1, <3>4 DEF ParameterRequestOK
      <4>2. ASSUME pc[u] \notin {"arrived", "serve"}
            PROVE  /\ req[u].seen \in Nat
                   /\ req[u].new.enum = enum.id =>
                        /\ req[u].seen <= enum.version
                        /\ req[u].seen = enum.version => req[u].new.default \in enum.options
        BY <2>1, <3>1, <3>4, <4>2 DEF ParameterRequestOK
      <4>3. CASE enum' = enum
        BY <4>1, <4>2, <4>3
      <4>4. CASE enum'.id = enum.id + 1
        BY <1>0, <4>1, <4>4
      <4>5. CASE enum'.id = enum.id /\ enum'.version = enum.version + 1
        BY <1>0, <4>1, <4>2, <4>5
      <4>6. CASE enum'.id = enum.id /\ enum'.version = enum.version /\ enum'.options = enum.options
        BY <4>1, <4>2, <4>6
      <4> QED BY <4>3, <4>4, <4>5, <4>6 DEF Leaves
    <3>5. ASSUME pc[u] = "commit", req[u].new # NoParameter
          PROVE  locks'["enum"] = u /\ enum'.present /\ enum'.id = req[u].new.enum
      BY <1>1, <2>1, <3>1, <3>5 DEF ParameterRequestOK
    <3> QED BY <2>1, <3>1, <3>2, <3>4, <3>5 DEF ParameterRequestOK
  <2> QED BY <2>1 DEF ParameterRequestOK
<1>4. TestRequestOK(u)'
  <2>1. CASE req[u].op = "testConnector"
    <3>1. TestRequestOK(u)
      BY DEF RequestOK
    <3>2. /\ req[u].id \in Nat /\ req[u].id <= connector.id
          /\ pc[u] = "test" =>
              /\ req[u].expected \in Nat /\ req[u].config \in Nat /\ req[u].config <= connector.config
              /\ req[u].id = connector.id =>
                    /\ req[u].expected <= connector.version
                    /\ req[u].expected = connector.version => req[u].config = connector.config
      BY <2>1, <3>1 DEF TestRequestOK
    <3>3. /\ req[u].id <= connector'.id
          /\ pc[u] = "test" =>
              /\ req[u].config <= connector'.config
              /\ req[u].id = connector'.id =>
                    /\ req[u].expected <= connector'.version
                    /\ req[u].expected = connector'.version => req[u].config = connector'.config
      <4>1. CASE connector' = connector
        BY <3>2, <4>1
      <4>2. CASE connector'.id = connector.id + 1 /\ connector'.config = connector.config + 1
        BY <1>0, <3>2, <4>2
      <4>3. CASE connector'.id = connector.id /\ connector'.version = connector.version + 1
                   /\ connector'.config \in {connector.config, connector.config + 1}
        BY <1>0, <3>2, <4>3
      <4>4. CASE connector'.id = connector.id /\ connector'.version = connector.version
                   /\ connector'.config = connector.config
        BY <3>2, <4>4
      <4> QED BY <4>1, <4>2, <4>3, <4>4 DEF Leaves
    <3> QED BY <2>1, <3>1, <3>2, <3>3 DEF TestRequestOK
  <2> QED BY <2>1 DEF TestRequestOK
<1>5. LinkRequestOK(u)'
  <2>1. \A r \in Rows : locks[r] = u <=> locks'[r] = u
    BY DEF Leaves
  <2>2. locks["case"] = u => links' = links
    BY DEF Leaves
  <2>3. locks["case"] = u /\ locks["script"] = u => (Linkable <=> Linkable')
    BY DEF Leaves, Linkable
  <2> QED BY <2>1, <2>2, <2>3 DEF RequestOK, LinkRequestOK, Rows
<1> QED BY <1>2, <1>3, <1>4, <1>5 DEF RequestOK

\* what a step does to the locks: the thread takes free rows or gives its own up
LocksMove(t) ==
    /\ locks' \in [Rows -> Threads \cup {Nobody}]
    /\ \A r \in Rows, u \in Threads : u # t => (locks[r] = u <=> locks'[r] = u)

LEMMA LockMoves ==
    ASSUME LocksOK, NEW t \in Threads, NEW r \in Rows, Free(r), Lock(t, r)
    PROVE  LocksMove(t) /\ locks'[r] = t /\ \A q \in Rows : q # r => locks'[q] = locks[q]
BY ServerAssumption DEF LocksOK, Free, Lock, LocksMove

LEMMA UnlockMoves ==
    ASSUME LocksOK, NEW t \in Threads, Unlock(t)
    PROVE  LocksMove(t) /\ \A r \in Rows : locks'[r] # t
BY ServerAssumption DEF LocksOK, Unlock, LocksMove

LEMMA LocksStay ==
    ASSUME LocksOK, UNCHANGED locks, NEW t
    PROVE  LocksMove(t)
BY DEF LocksOK, LocksMove

LEMMA LocksAfterTurn ==
    ASSUME ThreadsOK, LocksOK, NEW t \in Threads, NEW l, NEW r, Turn(t, l, r), LocksMove(t),
           \A q \in Rows : locks'[q] = t => l \in Locking /\ r.op \in AssetOps
    PROVE  LocksOK'
<1>1. ASSUME NEW q \in Rows, NEW u \in Threads, locks'[q] = u PROVE req'[u].op \in AssetOps /\ pc'[u] \in Locking
  <2>1. CASE u = t
    BY <1>1, <2>1, TurnMoves
  <2>2. CASE u # t
    BY <1>1, <2>2, TurnMoves DEF LocksMove, LocksOK
  <2> QED BY <2>1, <2>2
<1> QED BY <1>1 DEF LocksOK, LocksMove

LEMMA ActiveAfterTurn ==
    ASSUME ThreadsOK, NEW t \in Threads, NEW l, NEW r, Turn(t, l, r)
    PROVE  Active' = IF l = "idle" THEN Active \ {t} ELSE Active \cup {t}
BY TurnMoves DEF Active

Counters == enum.id \in Nat /\ enum.version \in Nat /\ connector.config \in Nat

LEMMA CountersAreNumbers == ASSUME RowsOK PROVE Counters
BY DEF RowsOK, EnumOK, ConnectorOK, Counters

\* A request that is answered has made at most one of each.
LEMMA CountsOfAnswer ==
    ASSUME ThreadsOK, CountsOK, RowsOK, RowsOK', NEW t \in Threads, pc[t] # "idle", NEW r, Turn(t, "idle", r), UNCHANGED events,
           enum'.id <= enum.id + 1, enum'.version <= enum.version + 1, connector'.config <= connector.config + 1
    PROVE  CountsOK'
<1>1. t \in Active /\ Active' = Active \ {t}
  BY ActiveAfterTurn DEF Active
<1>2. IsFiniteSet(Active') /\ Cardinality(Active') = Cardinality(Active) - 1
  BY <1>1, FS_RemoveElement DEF CountsOK
<1>3. Cardinality(Active) \in Nat
  BY FS_CardinalityType DEF CountsOK
<1>4. Counters /\ Counters'
  BY CountersAreNumbers DEF RowsOK, EnumOK, ConnectorOK, Counters
<1> QED BY <1>2, <1>3, <1>4 DEF CountsOK, Counters

LEMMA CountsOfTurn ==
    ASSUME ThreadsOK, CountsOK, RowsOK, NEW t \in Threads, pc[t] # "idle", NEW l, NEW r, Turn(t, l, r),
           UNCHANGED <<events, enum, connector>>
    PROVE  CountsOK'
<1>1. t \in Active /\ Active' \in {Active, Active \ {t}}
  BY ActiveAfterTurn DEF Active
<1>2. Cardinality(Active) \in Nat
  BY FS_CardinalityType DEF CountsOK
<1>3. IsFiniteSet(Active') /\ Cardinality(Active') \in {Cardinality(Active), Cardinality(Active) - 1}
  BY <1>1, FS_RemoveElement DEF CountsOK
<1>4. Counters
  BY CountersAreNumbers
<1> QED BY <1>2, <1>3, <1>4 DEF CountsOK, Counters

LEMMA CountsOfRequest ==
    ASSUME ThreadsOK, CountsOK, RowsOK, NEW t \in Threads, NEW r, NEW l, Receive(t, r, l), l # "idle", UNCHANGED <<enum, connector>>
    PROVE  CountsOK'
<1>1. Turn(t, l, r) /\ pc[t] = "idle" /\ events < MaxEvents /\ events' = events + 1
  BY ReceiveTurn DEF Receive, Happens
<1>2. t \notin Active /\ Active' = Active \cup {t}
  BY <1>1, ActiveAfterTurn DEF Active
<1>3. IsFiniteSet(Active') /\ Cardinality(Active') = Cardinality(Active) + 1
  BY <1>2, FS_AddElement DEF CountsOK
<1>4. Cardinality(Active) \in Nat
  BY FS_CardinalityType DEF CountsOK
<1>5. Counters
  BY CountersAreNumbers
<1> QED BY <1>1, <1>3, <1>4, <1>5, ServerAssumption DEF CountsOK, Counters

LEMMA CountsOfTime ==
    ASSUME CountsOK, RowsOK, UNCHANGED <<pc, enum, connector>>, Happens \/ UNCHANGED events
    PROVE  CountsOK'
<1>1. Active' = Active
  BY DEF Active
<1>2. Cardinality(Active) \in Nat
  BY FS_CardinalityType DEF CountsOK
<1>3. Counters
  BY CountersAreNumbers
<1> QED BY <1>1, <1>2, <1>3, ServerAssumption DEF CountsOK, Counters, Happens

\* The steps of one thread, put together.
LEMMA RowsAfterTurn ==
    ASSUME ThreadsOK, RowsInv, NEW t \in Threads, NEW l, NEW r, Turn(t, l, r), Leaves(t),
           \A q \in Rows : locks'[q] = t => l \in Locking /\ r.op \in AssetOps,
           RequestOK(t)', RowsOK', CountsOK'
    PROVE  RowsInv'
<1>1. LocksOK'
  BY LocksAfterTurn DEF RowsInv, Leaves, LocksMove
<1>2. ASSUME NEW u \in Threads, u # t PROVE RequestOK(u)'
  BY <1>2, OthersKeep, TurnMoves DEF RowsInv
<1> QED BY <1>1, <1>2 DEF RowsInv

LEMMA NothingAsked ==
    ASSUME NEW t \in Threads, req'[t].op \notin AssetOps
    PROVE  RequestOK(t)'
BY DEF RequestOK, EnumRequestOK, ParameterRequestOK, TestRequestOK, LinkRequestOK, AssetOps

LEMMA RowsOfAnswer ==
    ASSUME ThreadsOK, RowsInv, NEW t \in Threads, pc[t] # "idle", Return(t), Leaves(t),
           \A q \in Rows : locks'[q] # t, RowsOK', UNCHANGED world,
           enum'.id <= enum.id + 1, enum'.version <= enum.version + 1, connector'.config <= connector.config + 1
    PROVE  RowsInv'
<1>1. Turn(t, "idle", NoRequest) /\ UNCHANGED events
  BY ReturnTurn DEF world
<1>2. CountsOK'
  BY <1>1, CountsOfAnswer DEF RowsInv
<1>3. RequestOK(t)'
  BY <1>1, TurnMoves, NothingAsked DEF NoRequest, AssetOps
<1> QED BY <1>1, <1>2, <1>3, RowsAfterTurn

storedRows == <<enum, parameter, connector, asset, links, created>>

LEMMA RowsStored == ASSUME RowsOK, UNCHANGED storedRows PROVE RowsOK'
BY DEF RowsOK, EnumOK, NoDanglingParameter, DefaultsAreOptions, ConnectorOK, CredentialReadable, LinksOK, storedRows

LEMMA LeavesStored == ASSUME NEW t, LocksMove(t), UNCHANGED storedRows PROVE Leaves(t)
BY DEF LocksMove, Leaves, storedRows

\* A thread goes on in its transaction, with what it has locked.
LEMMA RowsOfGoingOn ==
    ASSUME ThreadsOK, RowsInv, NEW t \in Threads, pc[t] # "idle", NEW l, NEW r, Turn(t, l, r),
           LocksMove(t), \A q \in Rows : locks'[q] = t => l \in Locking /\ r.op \in AssetOps,
           UNCHANGED <<storedRows, world>>, RequestOK(t)'
    PROVE  RowsInv'
<1>1. UNCHANGED <<events, enum, connector>>
  BY DEF storedRows, world
<1>2. CountsOK'
  BY <1>1, CountsOfTurn DEF RowsInv
<1>3. RowsOK' /\ Leaves(t)
  BY RowsStored, LeavesStored DEF RowsInv
<1> QED BY <1>2, <1>3, RowsAfterTurn

LEMMA RowsOfRefusal ==
    ASSUME ThreadsOK, RowsInv, NEW t \in Threads, pc[t] # "idle", Return(t), UNCHANGED <<storedRows, world>>,
           Unlock(t) \/ (UNCHANGED locks /\ \A q \in Rows : locks[q] # t)
    PROVE  RowsInv'
<1>1. LocksMove(t) /\ \A q \in Rows : locks'[q] # t
  BY UnlockMoves, LocksStay DEF RowsInv, LocksOK
<1>2. Leaves(t) /\ RowsOK'
  BY <1>1, LeavesStored, RowsStored DEF RowsInv
<1>3. Counters
  BY CountersAreNumbers DEF RowsInv
<1>4. enum'.id <= enum.id + 1 /\ enum'.version <= enum.version + 1 /\ connector'.config <= connector.config + 1
  BY <1>3 DEF Counters, storedRows
<1> QED BY <1>1, <1>2, <1>4, RowsOfAnswer

LEMMA RowsOfEnums ==
    ASSUME ThreadsOK, RowsInv, NEW t \in Threads,
           CreateEnumSet(t) \/ LockEnumSet(t) \/ CommitEnumSet(t) \/ CommitDeleteEnumSet(t)
    PROVE  RowsInv'
<1>1. LocksOK /\ RowsOK /\ RequestOK(t)
  BY DEF RowsInv
<1>2. /\ enum \in [id : Nat \ {0}, present : BOOLEAN, options : SUBSET Values, version : Nat]
      /\ parameter = NoParameter \/ parameter \in [enum : Nat \ {0}, default : Values, overtaken : BOOLEAN]
      /\ NoDanglingParameter /\ DefaultsAreOptions /\ ConnectorOK /\ LinksOK /\ Counters
  BY <1>1, CountersAreNumbers DEF RowsOK, EnumOK
<1>3. ASSUME UNCHANGED <<connector, asset, links, created>>, EnumOK' PROVE RowsOK'
  BY <1>2, <1>3 DEF RowsOK, ConnectorOK, CredentialReadable, LinksOK
<1>4. CASE CreateEnumSet(t)
  <2>1. PICK options \in SUBSET Values :
           enum' = [id |-> enum.id + 1, present |-> TRUE, options |-> options, version |-> 0]
    BY <1>4 DEF CreateEnumSet
  <2>2. /\ pc[t] = "serve" /\ ~enum.present /\ Return(t)
        /\ UNCHANGED <<parameter, connector, asset, links, created, locks, world>>
    BY <1>4 DEF CreateEnumSet, At
  <2>3. parameter = NoParameter
    BY <1>2, <2>2 DEF NoDanglingParameter
  <2>4. EnumOK'
    BY <1>2, <2>1, <2>2, <2>3 DEF EnumOK, NoDanglingParameter, DefaultsAreOptions
  <2>5. LocksMove(t) /\ \A q \in Rows : locks'[q] # t
    BY <1>1, <2>2, LocksStay DEF LocksOK, Locking
  <2>6. Leaves(t)
    BY <2>1, <2>2, <2>5 DEF Leaves, LocksMove
  <2>7. enum'.id <= enum.id + 1 /\ enum'.version <= enum.version + 1 /\ connector'.config <= connector.config + 1
    BY <1>2, <2>1, <2>2 DEF Counters
  <2> QED BY <1>3, <2>2, <2>4, <2>5, <2>6, <2>7, RowsOfAnswer
<1>5. CASE LockEnumSet(t)
  <2>1. /\ req[t].op \in {"updateEnum", "deleteEnum"} /\ pc[t] = "serve" /\ Free("enum") /\ enum.present
        /\ req[t].op = "updateEnum" => DefaultsStay(t)
        /\ req[t].op = "deleteEnum" => ~Referenced
        /\ Lock(t, "enum") /\ Goto(t, "commit")
        /\ UNCHANGED <<req, storedRows, world>>
    BY <1>5 DEF LockEnumSet, EnumExists, storedRows
  <2>2. Turn(t, "commit", req[t])
    BY <2>1, GotoTurn
  <2>3. LocksMove(t) /\ locks'["enum"] = t
    BY <1>1, <2>1, LockMoves DEF Rows
  <2>4. pc'[t] = "commit" /\ req'[t] = req[t]
    BY <2>2, TurnMoves
  <2>5. UNCHANGED <<enum, parameter>>
    BY <2>1 DEF storedRows
  <2>6. RequestOK(t)'
    BY <1>1, <2>1, <2>3, <2>4, <2>5 DEF RequestOK, EnumRequestOK, ParameterRequestOK, TestRequestOK, LinkRequestOK,
          DefaultsStay, Referenced
  <2> QED BY <2>1, <2>2, <2>3, <2>6, RowsOfGoingOn DEF Locking, AssetOps
<1>6. CASE CommitEnumSet(t)
  <2>1. /\ req[t].op = "updateEnum" /\ pc[t] = "commit" /\ Unlock(t) /\ Return(t)
        /\ enum' = [enum EXCEPT !.options = req[t].options, !.version = @ + 1]
        /\ UNCHANGED <<parameter, connector, asset, links, created, world>>
    BY <1>6 DEF CommitEnumSet, At
  <2>2. locks["enum"] = t /\ enum.present /\ DefaultsStay(t) /\ req[t].options \in SUBSET Values
    BY <1>1, <2>1 DEF RequestOK, EnumRequestOK
  <2>3. /\ enum'.id = enum.id /\ enum'.version = enum.version + 1 /\ enum'.present = enum.present
        /\ enum'.options = req[t].options
        /\ enum' \in [id : Nat \ {0}, present : BOOLEAN, options : SUBSET Values, version : Nat]
    <3>1. PICK o \in SUBSET Values : o = req[t].options
      BY <2>2
    <3>2. enum' = [enum EXCEPT !.options = o, !.version = enum.version + 1]
      BY <2>1, <3>1
    <3>3. enum.version + 1 \in Nat
      BY <1>2
    <3> QED BY <1>2, <3>1, <3>2, <3>3
  <2>4. EnumOK'
    BY <1>2, <2>1, <2>2, <2>3 DEF EnumOK, NoDanglingParameter, DefaultsAreOptions, DefaultsStay, Referenced
  <2>5. LocksMove(t) /\ \A q \in Rows : locks'[q] # t
    BY <1>1, <2>1, UnlockMoves
  <2>6. Leaves(t)
    BY <2>1, <2>2, <2>3, <2>5 DEF Leaves, LocksMove
  <2>7. enum'.id <= enum.id + 1 /\ enum'.version <= enum.version + 1 /\ connector'.config <= connector.config + 1
    BY <1>2, <2>1, <2>3 DEF Counters
  <2> QED BY <1>3, <2>1, <2>4, <2>5, <2>6, <2>7, RowsOfAnswer
<1>7. CASE CommitDeleteEnumSet(t)
  <2>1. /\ req[t].op = "deleteEnum" /\ pc[t] = "commit" /\ Unlock(t) /\ Return(t)
        /\ enum' = [enum EXCEPT !.present = FALSE]
        /\ UNCHANGED <<parameter, connector, asset, links, created, world>>
    BY <1>7 DEF CommitDeleteEnumSet, At
  <2>2. locks["enum"] = t /\ ~Referenced
    BY <1>1, <2>1 DEF RequestOK, EnumRequestOK
  <2>3. /\ enum'.id = enum.id /\ enum'.version = enum.version /\ enum'.options = enum.options
        /\ enum' \in [id : Nat \ {0}, present : BOOLEAN, options : SUBSET Values, version : Nat]
    BY <1>2, <2>1, <2>2
  <2>4. parameter = NoParameter
    BY <1>2, <2>2 DEF NoDanglingParameter, Referenced
  <2>5. EnumOK'
    BY <2>1, <2>3, <2>4 DEF EnumOK, NoDanglingParameter, DefaultsAreOptions
  <2>6. LocksMove(t) /\ \A q \in Rows : locks'[q] # t
    BY <1>1, <2>1, UnlockMoves
  <2>7. Leaves(t)
    BY <2>1, <2>2, <2>3, <2>6 DEF Leaves, LocksMove
  <2>8. enum'.id <= enum.id + 1 /\ enum'.version <= enum.version + 1 /\ connector'.config <= connector.config + 1
    BY <1>2, <2>1, <2>3 DEF Counters
  <2> QED BY <1>3, <2>1, <2>5, <2>6, <2>7, <2>8, RowsOfAnswer
<1> QED BY <1>4, <1>5, <1>6, <1>7

LEMMA RowsOfParameters ==
    ASSUME ThreadsOK, RowsInv, NEW t \in Threads,
           LockScriptParameters(t) \/ InsertParameters(t) \/ CommitParameters(t)
    PROVE  RowsInv'
<1>1. LocksOK /\ RowsOK /\ RequestOK(t) /\ req[t].op = "parameters" /\ ParameterRequestOK(t)
  BY DEF RowsInv, RequestOK, LockScriptParameters, InsertParameters, CommitParameters, At
<1>2. /\ enum \in [id : Nat \ {0}, present : BOOLEAN, options : SUBSET Values, version : Nat]
      /\ ConnectorOK /\ LinksOK /\ Counters
  BY <1>1, CountersAreNumbers DEF RowsOK, EnumOK
<1>3. CASE LockScriptParameters(t)
  <2> DEFINE more == [seen |-> enum.version]
             r == With(req[t], more)
  <2>1. /\ pc[t] = "serve" /\ Free("script") /\ Lock(t, "script") /\ Goto(t, "insert")
        /\ req[t].new # NoParameter => enum.id = req[t].new.enum /\ req[t].new.default \in enum.options
        /\ req' = [req EXCEPT ![t] = r]
        /\ UNCHANGED <<storedRows, world>>
    BY <1>3 DEF LockScriptParameters, At, storedRows
  <2>2. DOMAIN req[t] = Common \cup {"new"} /\ DOMAIN more = {"seen"} /\ more.seen = enum.version
    BY <1>1, <2>1 DEF ParameterRequestOK
  <2>3. DOMAIN r = Common \cup {"new", "seen"} /\ r.seen = enum.version
        /\ r.op = "parameters" /\ r.new = req[t].new
    <3> HIDE DEF more
    <3> QED BY <1>1, <2>2 DEF With, Common
  <2>4. Turn(t, "insert", r)
    BY <2>1 DEF Turn, Goto
  <2> HIDE DEF r
  <2>5. pc'[t] = "insert" /\ req'[t] = r
    BY <2>4, TurnMoves
  <2>6. LocksMove(t) /\ locks'["script"] = t
    BY <1>1, <2>1, LockMoves DEF Rows
  <2>7. UNCHANGED <<enum, parameter>>
    BY <2>1 DEF storedRows
  <2>8. ParameterRequestOK(t)'
    BY <1>1, <1>2, <2>1, <2>3, <2>5, <2>6, <2>7 DEF ParameterRequestOK
  <2>9. RequestOK(t)'
    BY <2>3, <2>5, <2>8 DEF RequestOK, EnumRequestOK, TestRequestOK, LinkRequestOK
  <2> QED BY <2>1, <2>3, <2>4, <2>6, <2>9, RowsOfGoingOn DEF Locking, AssetOps
<1>4. CASE InsertParameters(t)
  <2>1. pc[t] = "insert" /\ UNCHANGED world
    BY <1>4 DEF InsertParameters, At
  <2>2. CASE Refuse(t)
    BY <2>1, <2>2, RowsOfRefusal DEF Refuse, storedRows
  <2>3. ASSUME Goto(t, "commit"), UNCHANGED <<req, storedRows>>, LocksMove(t), locks'["script"] = t,
               req[t].new # NoParameter => locks'["enum"] = t /\ enum.present /\ enum.id = req[t].new.enum
        PROVE  RowsInv'
    <3>1. Turn(t, "commit", req[t])
      BY <2>3, GotoTurn
    <3>2. pc'[t] = "commit" /\ req'[t] = req[t]
      BY <3>1, TurnMoves
    <3>3. UNCHANGED enum
      BY <2>3 DEF storedRows
    <3>4. ParameterRequestOK(t)'
      BY <1>1, <2>1, <2>3, <3>2, <3>3 DEF ParameterRequestOK
    <3>5. RequestOK(t)'
      BY <1>1, <3>2, <3>4 DEF RequestOK, EnumRequestOK, TestRequestOK, LinkRequestOK
    <3> QED BY <1>1, <2>1, <2>3, <3>1, <3>5, RowsOfGoingOn DEF Locking, AssetOps
  <2>4. locks["script"] = t
    BY <1>1, <2>1 DEF ParameterRequestOK
  <2>5. CASE req[t].new = NoParameter /\ Goto(t, "commit") /\ UNCHANGED <<req, assets>>
    BY <1>1, <2>3, <2>4, <2>5, LocksStay DEF assets, storedRows
  <2>6. CASE /\ Free("enum") /\ enum.present /\ enum.id = req[t].new.enum
             /\ Lock(t, "enum") /\ Goto(t, "commit")
             /\ UNCHANGED <<req, enum, parameter, connector, asset, links, created>>
    <3>1. LocksMove(t) /\ locks'["enum"] = t /\ locks'["script"] = t
      BY <1>1, <2>4, <2>6, LockMoves DEF Rows
    <3> QED BY <2>3, <2>6, <3>1 DEF storedRows
  <2> QED BY <1>4, <2>2, <2>5, <2>6 DEF InsertParameters
<1>5. CASE CommitParameters(t)
  <2>1. /\ pc[t] = "commit" /\ Unlock(t) /\ Return(t)
        /\ parameter' = IF req[t].new = NoParameter THEN NoParameter
                        ELSE With(req[t].new, [overtaken |-> enum.version # req[t].seen])
        /\ UNCHANGED <<enum, connector, asset, links, created, world>>
    BY <1>5 DEF CommitParameters, At
  <2>2. LocksMove(t) /\ \A q \in Rows : locks'[q] # t
    BY <1>1, <2>1, UnlockMoves
  <2>3. EnumOK' /\ (parameter' = NoParameter \/ locks["enum"] = t)
    <3>1. CASE req[t].new = NoParameter
      BY <1>2, <2>1, <3>1 DEF EnumOK, NoDanglingParameter, DefaultsAreOptions
    <3>2. CASE req[t].new # NoParameter
      <4>1. /\ req[t].new \in [enum : Nat \ {0}, default : Values]
            /\ locks["enum"] = t /\ enum.present /\ enum.id = req[t].new.enum
            /\ req[t].seen = enum.version => req[t].new.default \in enum.options
        BY <1>1, <2>1, <3>2 DEF ParameterRequestOK
      <4>2. PICK b \in BOOLEAN : b = (enum.version # req[t].seen)
        BY Zenon
      <4>3. parameter' = With(req[t].new, [overtaken |-> b])
        BY <2>1, <3>2, <4>2, Zenon
      <4>4. /\ parameter' \in [enum : Nat \ {0}, default : Values, overtaken : BOOLEAN]
            /\ parameter'.enum = req[t].new.enum /\ parameter'.default = req[t].new.default
            /\ parameter'.overtaken = b
        BY <4>1, <4>3 DEF With
      <4>5. NoDanglingParameter'
        BY <2>1, <4>1, <4>4 DEF NoDanglingParameter
      <4>6. parameter'.default \in enum.options \/ parameter'.overtaken
        <5>1. CASE req[t].seen = enum.version
          BY <4>1, <4>4, <5>1
        <5>2. CASE req[t].seen # enum.version
          <6>1. b
            BY <4>2, <5>2, Zenon
          <6> QED BY <4>4, <6>1, Zenon
        <5> QED BY <5>1, <5>2
      <4>7. DefaultsAreOptions'
        BY <2>1, <4>6 DEF DefaultsAreOptions
      <4> QED BY <1>2, <2>1, <4>1, <4>4, <4>5, <4>7 DEF EnumOK
    <3> QED BY <3>1, <3>2
  <2>4. RowsOK'
    BY <1>2, <2>1, <2>3 DEF RowsOK, ConnectorOK, CredentialReadable, LinksOK
  <2>5. Leaves(t)
    BY <2>1, <2>2, <2>3 DEF Leaves, LocksMove
  <2>6. enum'.id <= enum.id + 1 /\ enum'.version <= enum.version + 1 /\ connector'.config <= connector.config + 1
    BY <1>2, <2>1 DEF Counters
  <2> QED BY <2>1, <2>2, <2>4, <2>5, <2>6, RowsOfAnswer
<1> QED BY <1>3, <1>4, <1>5

ConnectorMoves ==
    \/ connector' = connector
    \/ connector'.id = connector.id + 1 /\ connector'.config = connector.config + 1
    \/ connector'.id = connector.id /\ connector'.version = connector.version + 1
          /\ connector'.config \in {connector.config, connector.config + 1}
    \/ connector'.id = connector.id /\ connector'.version = connector.version /\ connector'.config = connector.config

\* A request that changes the connector's row in the one transaction it has.
LEMMA RowsOfConnectorChange ==
    ASSUME ThreadsOK, RowsInv, NEW t \in Threads, pc[t] \in {"serve", "test"}, Return(t),
           UNCHANGED <<enum, parameter, asset, links, created, locks, world>>,
           ConnectorOK', ConnectorMoves
    PROVE  RowsInv'
<1>1. LocksMove(t) /\ \A q \in Rows : locks'[q] # t
  BY LocksStay DEF RowsInv, LocksOK, Locking
<1>2. Leaves(t)
  BY <1>1 DEF Leaves, LocksMove, ConnectorMoves
<1>3. RowsOK'
  BY DEF RowsInv, RowsOK, EnumOK, NoDanglingParameter, DefaultsAreOptions, LinksOK
<1>4. Counters
  BY CountersAreNumbers DEF RowsInv
<1>5. enum'.id <= enum.id + 1 /\ enum'.version <= enum.version + 1 /\ connector'.config <= connector.config + 1
  BY <1>4 DEF Counters, ConnectorMoves
<1> QED BY <1>1, <1>2, <1>3, <1>5, RowsOfAnswer

ConnectorRow ==
    [id : Nat, present : BOOLEAN, version : Nat, config : Nat, sealed : Nat, revision : Nat, tested : Nat]

LEMMA NewCredentialReadable ==
    ASSUME ConnectorOK, NEW credential \in {"none", "given", "kept"}
    PROVE  /\ NewCredential(credential).sealed \in Nat /\ NewCredential(credential).revision \in Nat
           /\ NewCredential(credential).sealed \in {0, NewCredential(credential).revision}
<1>1. connector.sealed \in Nat /\ connector.revision \in Nat /\ connector.sealed \in {0, connector.revision}
  BY DEF ConnectorOK, CredentialReadable
<1> QED BY <1>1 DEF NewCredential

LEMMA RowsOfConnectors ==
    ASSUME ThreadsOK, RowsInv, NEW t \in Threads,
           CreateConnector(t) \/ UpdateConnector(t) \/ SetEnabled(t) \/ DeleteConnector(t) \/ RecordTest(t)
    PROVE  RowsInv'
<1>1. /\ pc[t] \in {"serve", "test"} /\ Return(t)
      /\ UNCHANGED <<enum, parameter, asset, links, created, locks, world>>
  BY DEF CreateConnector, UpdateConnector, SetEnabled, DeleteConnector, RecordTest, At
<1>2. ConnectorOK /\ connector \in ConnectorRow /\ connector.sealed \in {0, connector.revision}
      /\ connector.tested <= connector.config
  BY DEF RowsInv, RowsOK, ConnectorOK, ConnectorRow, CredentialReadable
<1>3. /\ connector.id \in Nat /\ connector.version \in Nat /\ connector.config \in Nat
      /\ connector.sealed \in Nat /\ connector.revision \in Nat /\ connector.tested \in Nat
  BY <1>2 DEF ConnectorRow
<1>4. ASSUME connector' \in ConnectorRow, connector'.sealed \in {0, connector'.revision},
             connector'.tested <= connector'.config
      PROVE  ConnectorOK'
  BY <1>4 DEF ConnectorOK, ConnectorRow, CredentialReadable
<1>5. CASE CreateConnector(t)
  <2>1. PICK sealed \in {0, 1} :
           connector' = [id |-> connector.id + 1, present |-> TRUE, version |-> 0, config |-> connector.config + 1,
                         sealed |-> sealed, revision |-> sealed, tested |-> 0]
    BY <1>5 DEF CreateConnector
  <2>2. ConnectorOK'
    BY <1>3, <1>4, <2>1 DEF ConnectorRow
  <2> QED BY <1>1, <2>1, <2>2, RowsOfConnectorChange DEF ConnectorMoves
<1>6. CASE UpdateConnector(t)
  <2>1. PICK credential \in {"none", "given", "kept"} :
           connector' = [connector EXCEPT !.version = @ + 1, !.config = @ + 1,
                            !.sealed = NewCredential(credential).sealed, !.revision = NewCredential(credential).revision]
    BY <1>6 DEF UpdateConnector
  <2>2. PICK s \in Nat, v \in Nat : s \in {0, v} /\ s = NewCredential(credential).sealed /\ v = NewCredential(credential).revision
    BY <1>2, NewCredentialReadable
  <2>3. connector' = [connector EXCEPT !.version = @ + 1, !.config = @ + 1, !.sealed = s, !.revision = v]
    BY <2>1, <2>2
  <2>4. connector' \in ConnectorRow
    <3>1. PICK n \in Nat, c \in Nat : n = connector.version + 1 /\ c = connector.config + 1
      BY <1>3
    <3>2. connector' = [connector EXCEPT !.version = n, !.config = c, !.sealed = s, !.revision = v]
      BY <2>3, <3>1
    <3> QED BY <1>2, <3>2 DEF ConnectorRow
  <2>5. /\ connector'.id = connector.id /\ connector'.version = connector.version + 1
        /\ connector'.config = connector.config + 1 /\ connector'.sealed = s /\ connector'.revision = v
        /\ connector'.tested = connector.tested
    BY <1>2, <2>3 DEF ConnectorRow
  <2>6. ConnectorOK'
    BY <1>2, <1>3, <1>4, <2>2, <2>4, <2>5
  <2> QED BY <1>1, <2>5, <2>6, RowsOfConnectorChange DEF ConnectorMoves
<1>7. CASE SetEnabled(t)
  <2>1. connector' = [connector EXCEPT !.version = @ + 1]
    BY <1>7 DEF SetEnabled
  <2>2. connector' \in ConnectorRow
    BY <1>2, <2>1 DEF ConnectorRow
  <2>3. /\ connector'.id = connector.id /\ connector'.version = connector.version + 1
        /\ connector'.config = connector.config /\ connector'.sealed = connector.sealed
        /\ connector'.revision = connector.revision /\ connector'.tested = connector.tested
    BY <1>2, <2>1 DEF ConnectorRow
  <2> QED BY <1>1, <1>2, <1>4, <2>2, <2>3, RowsOfConnectorChange DEF ConnectorMoves
<1>8. CASE DeleteConnector(t)
  <2>1. connector' = [connector EXCEPT !.present = FALSE]
    BY <1>8 DEF DeleteConnector
  <2>2. connector' \in ConnectorRow
    BY <1>2, <2>1 DEF ConnectorRow
  <2>3. /\ connector'.id = connector.id /\ connector'.version = connector.version
        /\ connector'.config = connector.config /\ connector'.sealed = connector.sealed
        /\ connector'.revision = connector.revision /\ connector'.tested = connector.tested
    BY <1>2, <2>1 DEF ConnectorRow
  <2> QED BY <1>1, <1>2, <1>4, <2>2, <2>3, RowsOfConnectorChange DEF ConnectorMoves
<1>9. CASE RecordTest(t)
  <2>1. /\ connector' = [connector EXCEPT !.version = @ + 1, !.tested = req[t].config]
        /\ pc[t] = "test" /\ req[t].op = "testConnector"
    BY <1>9 DEF RecordTest, At
  <2>2. PICK c \in Nat : c = req[t].config /\ c <= connector.config
    BY <2>1 DEF RowsInv, RequestOK, TestRequestOK
  <2>3. connector' = [connector EXCEPT !.version = @ + 1, !.tested = c]
    BY <2>1, <2>2
  <2>4. connector' \in ConnectorRow
    <3>1. PICK n \in Nat : n = connector.version + 1
      BY <1>3
    <3>2. connector' = [connector EXCEPT !.version = n, !.tested = c]
      BY <2>3, <3>1
    <3> QED BY <1>2, <3>2 DEF ConnectorRow
  <2>5. /\ connector'.id = connector.id /\ connector'.version = connector.version + 1
        /\ connector'.config = connector.config /\ connector'.sealed = connector.sealed
        /\ connector'.revision = connector.revision /\ connector'.tested = c
    BY <1>2, <2>3 DEF ConnectorRow
  <2> QED BY <1>1, <1>2, <1>4, <2>2, <2>4, <2>5, RowsOfConnectorChange DEF ConnectorMoves
<1> QED BY <1>5, <1>6, <1>7, <1>8, <1>9

LEMMA RowsOfReadConnector ==
    ASSUME ThreadsOK, RowsInv, NEW t \in Threads, ReadConnector(t)
    PROVE  RowsInv'
<1> DEFINE more == [expected |-> connector.version, config |-> connector.config]
           r == With(req[t], more)
<1>1. /\ pc[t] = "serve" /\ req[t].op = "testConnector" /\ connector.id = req[t].id
      /\ req' = [req EXCEPT ![t] = r] /\ Goto(t, "test") /\ UNCHANGED <<storedRows, locks, world>>
  BY DEF ReadConnector, At, Named, assets, storedRows
<1>2. LocksOK /\ TestRequestOK(t) /\ ConnectorOK
  BY DEF RowsInv, RequestOK, RowsOK
<1>3. DOMAIN req[t] = Common \cup {"id"} /\ DOMAIN more = {"expected", "config"}
      /\ more.expected = connector.version /\ more.config = connector.config
  BY <1>1, <1>2 DEF TestRequestOK
<1>4. DOMAIN r = Common \cup {"id", "expected", "config"} /\ r.expected = connector.version
      /\ r.config = connector.config /\ r.op = "testConnector" /\ r.id = req[t].id
  <2> HIDE DEF more
  <2> QED BY <1>1, <1>3 DEF With, Common
<1>5. Turn(t, "test", r)
  BY <1>1 DEF Turn, Goto
<1> HIDE DEF r
<1>6. pc'[t] = "test" /\ req'[t] = r
  BY <1>5, TurnMoves
<1>7. LocksMove(t) /\ \A q \in Rows : locks'[q] # t
  BY <1>1, <1>2, LocksStay DEF LocksOK, Locking
<1>8. connector' = connector /\ connector.id \in Nat /\ connector.version \in Nat /\ connector.config \in Nat
  BY <1>1, <1>2 DEF storedRows, ConnectorOK
<1>9. TestRequestOK(t)'
  BY <1>1, <1>4, <1>6, <1>8 DEF TestRequestOK
<1>10. RequestOK(t)'
  BY <1>4, <1>6, <1>9 DEF RequestOK, EnumRequestOK, ParameterRequestOK, LinkRequestOK
<1> QED BY <1>1, <1>5, <1>7, <1>10, RowsOfGoingOn

LEMMA RowsOfAssetUpdate ==
    ASSUME ThreadsOK, RowsInv, NEW t \in Threads, LockAsset(t) \/ CommitAsset(t)
    PROVE  RowsInv'
<1>1. LocksOK /\ RowsOK /\ LinkRequestOK(t) /\ req[t].op = "updateAsset" /\ pc[t] \in {"serve", "commit"}
  BY DEF RowsInv, RequestOK, LockAsset, CommitAsset, At
<1>2. req[t].row \in {"case", "script"} /\ LinksOK
  BY <1>1 DEF LinkRequestOK, RowsOK
<1>3. CASE LockAsset(t)
  <2>1. PICK next \in NextStatus(req[t].row) : req' = [req EXCEPT ![t] = With(@, [status |-> next])]
    BY <1>3 DEF LockAsset
  <2> DEFINE more == [status |-> next]
             r == With(req[t], more)
  <2>2. /\ pc[t] = "serve" /\ Free(req[t].row) /\ Lock(t, req[t].row) /\ Goto(t, "commit")
        /\ req' = [req EXCEPT ![t] = r] /\ UNCHANGED <<storedRows, world>>
    BY <1>3, <2>1 DEF LockAsset, At, storedRows
  <2>3. DOMAIN req[t] = Common \cup {"row", "expected"} /\ DOMAIN more = {"status"} /\ more.status = next
    BY <1>1, <2>2 DEF LinkRequestOK
  <2>4. DOMAIN r = Common \cup {"row", "expected", "status"} /\ r.status = next
        /\ r.op = "updateAsset" /\ r.row = req[t].row
    <3> HIDE DEF more
    <3> QED BY <1>1, <2>3 DEF With, Common
  <2>5. next \in {"DRAFT", "READY", "ARCHIVED"}
    BY <1>2, <2>1 DEF NextStatus, LinksOK
  <2>6. Turn(t, "commit", r)
    BY <2>2 DEF Turn, Goto
  <2> HIDE DEF r
  <2>7. pc'[t] = "commit" /\ req'[t] = r
    BY <2>6, TurnMoves
  <2>8. LocksMove(t) /\ locks'[req[t].row] = t
    BY <1>1, <1>2, <2>2, LockMoves DEF Rows
  <2>9. LinkRequestOK(t)'
    BY <1>2, <2>4, <2>5, <2>7, <2>8 DEF LinkRequestOK
  <2>10. RequestOK(t)'
    BY <2>4, <2>7, <2>9 DEF RequestOK, EnumRequestOK, ParameterRequestOK, TestRequestOK
  <2> QED BY <2>2, <2>4, <2>6, <2>8, <2>10, RowsOfGoingOn DEF Locking, AssetOps
<1>4. CASE CommitAsset(t)
  <2>1. /\ pc[t] = "commit" /\ Unlock(t) /\ Return(t)
        /\ asset' = [asset EXCEPT ![req[t].row] = [status |-> req[t].status, version |-> @.version + 1]]
        /\ UNCHANGED <<enum, parameter, connector, links, created, world>>
    BY <1>4 DEF CommitAsset, At
  <2>2. locks[req[t].row] = t /\ req[t].status \in {"DRAFT", "READY", "ARCHIVED"}
    BY <1>1, <2>1 DEF LinkRequestOK
  <2>3. LinksOK'
    BY <1>2, <2>1, <2>2 DEF LinksOK
  <2>4. RowsOK'
    BY <1>1, <2>1, <2>3 DEF RowsOK, EnumOK, NoDanglingParameter, DefaultsAreOptions, ConnectorOK, CredentialReadable
  <2>5. LocksMove(t) /\ \A q \in Rows : locks'[q] # t
    BY <1>1, <2>1, UnlockMoves
  <2>6. \A a \in {"case", "script"} : locks[a] # t => asset'[a] = asset[a]
    BY <1>2, <2>1, <2>2 DEF LinksOK
  <2>7. Leaves(t)
    BY <2>1, <2>5, <2>6 DEF Leaves, LocksMove
  <2>8. Counters
    BY <1>1, CountersAreNumbers
  <2>9. enum'.id <= enum.id + 1 /\ enum'.version <= enum.version + 1 /\ connector'.config <= connector.config + 1
    BY <2>1, <2>8 DEF Counters
  <2> QED BY <2>1, <2>4, <2>5, <2>7, <2>9, RowsOfAnswer
<1> QED BY <1>3, <1>4

LEMMA RowsOfLinks ==
    ASSUME ThreadsOK, RowsInv, NEW t \in Threads,
           LockCase(t) \/ LockScript(t) \/ ReadTraceLink(t) \/ InsertTraceLink(t) \/ CommitLink(t)
    PROVE  RowsInv'
<1>1. LocksOK /\ RowsOK /\ LinkRequestOK(t) /\ LinksOK /\ req[t].op \in Links /\ pc[t] # "idle"
  BY DEF RowsInv, RequestOK, RowsOK, Links, LockCase, LockScript, ReadTraceLink, InsertTraceLink, CommitLink, At
<1>2. ASSUME NEW l \in Locking, Goto(t, l), UNCHANGED <<req, storedRows, world>>, LocksMove(t),
             req[t].op = "scriptLink" /\ l \in {"script", "commit"} => locks'["case"] = t,
             req[t].op = "scriptLink" /\ l = "commit" => locks'["script"] = t /\ Linkable /\ "scriptLink" \notin links,
             req[t].op = "traceLink" /\ l = "insert" => \A r \in Rows : locks'[r] # t,
             req[t].op = "traceLink" /\ l = "commit" => locks'["case"] = t /\ "traceLink" \notin links
      PROVE  RowsInv'
  <2>1. Turn(t, l, req[t])
    BY <1>2, GotoTurn
  <2>2. pc'[t] = l /\ req'[t] = req[t]
    BY <2>1, TurnMoves
  <2>3. LinkRequestOK(t)'
    BY <1>1, <1>2, <2>2 DEF LinkRequestOK, Links, Linkable, storedRows
  <2>4. RequestOK(t)'
    BY <1>1, <2>2, <2>3 DEF RequestOK, EnumRequestOK, ParameterRequestOK, TestRequestOK, Links
  <2>5. req[t].op \in AssetOps
    BY <1>1 DEF Links, AssetOps
  <2> QED BY <1>1, <1>2, <2>1, <2>4, <2>5, RowsOfGoingOn
<1>3. CASE LockCase(t)
  <2>1. LocksMove(t) /\ locks'["case"] = t
    BY <1>1, <1>3, LockMoves DEF LockCase, Rows
  <2> QED BY <1>2, <1>3, <2>1 DEF LockCase, At, Locking, storedRows
<1>4. CASE LockScript(t)
  <2>1. pc[t] = "script" /\ req[t].op = "scriptLink" /\ locks["case"] = t /\ UNCHANGED world
    BY <1>1, <1>4 DEF LockScript, At, LinkRequestOK
  <2>2. CASE Refuse(t)
    BY <2>1, <2>2, RowsOfRefusal DEF Refuse, storedRows
  <2>3. CASE /\ Free("script") /\ "scriptLink" \notin links /\ Linkable
             /\ Lock(t, "script") /\ Goto(t, "commit")
             /\ UNCHANGED <<req, enum, parameter, connector, asset, links, created>>
    <3>1. LocksMove(t) /\ locks'["case"] = t /\ locks'["script"] = t
      BY <1>1, <2>1, <2>3, LockMoves DEF Rows
    <3> QED BY <1>2, <2>1, <2>3, <3>1 DEF Locking, storedRows
  <2> QED BY <1>4, <2>2, <2>3 DEF LockScript
<1>5. CASE ReadTraceLink(t)
  <2>1. pc[t] = "serve" /\ req[t].op = "traceLink" /\ UNCHANGED <<storedRows, locks, world>>
    BY <1>5 DEF ReadTraceLink, At, assets, storedRows
  <2>2. \A q \in Rows : locks[q] # t
    BY <1>1, <2>1 DEF LocksOK, Locking
  <2>3. CASE Return(t)
    BY <2>1, <2>2, <2>3, RowsOfRefusal
  <2>4. CASE Goto(t, "insert") /\ UNCHANGED req
    BY <1>1, <1>2, <2>1, <2>2, <2>4, LocksStay DEF Locking
  <2> QED BY <1>5, <2>3, <2>4 DEF ReadTraceLink
<1>6. CASE InsertTraceLink(t)
  <2>1. pc[t] = "insert" /\ req[t].op = "traceLink" /\ Free("case") /\ UNCHANGED world
    BY <1>6 DEF InsertTraceLink, At
  <2>2. CASE Return(t) /\ UNCHANGED assets
    <3>1. \A q \in Rows : locks[q] # t
      BY <1>1, <2>1 DEF LinkRequestOK
    <3> QED BY <2>1, <2>2, <3>1, RowsOfRefusal DEF assets, storedRows
  <2>3. CASE /\ "traceLink" \notin links /\ Lock(t, "case") /\ Goto(t, "commit")
             /\ UNCHANGED <<req, enum, parameter, connector, asset, links, created>>
    <3>1. LocksMove(t) /\ locks'["case"] = t
      BY <1>1, <2>1, <2>3, LockMoves DEF Rows
    <3> QED BY <1>2, <2>1, <2>3, <3>1 DEF Locking, storedRows
  <2> QED BY <1>6, <2>2, <2>3 DEF InsertTraceLink
<1>7. CASE CommitLink(t)
  <2>1. /\ pc[t] = "commit" /\ Unlock(t) /\ Return(t)
        /\ links' = links \cup {req[t].op} /\ created' = [created EXCEPT ![req[t].op] = @ + 1]
        /\ UNCHANGED <<enum, parameter, connector, asset, world>>
    BY <1>7 DEF CommitLink
  <2>2. locks["case"] = t /\ req[t].op \notin links
    BY <1>1, <2>1 DEF LinkRequestOK, Links
  <2>3. created = [l \in Links |-> IF l \in links THEN 1 ELSE 0]
    BY <1>1 DEF LinksOK
  <2>4. created' = [l \in Links |-> IF l \in links' THEN 1 ELSE 0]
    BY <1>1, <2>1, <2>2, <2>3
  <2>5. RowsOK'
    BY <1>1, <2>1, <2>4 DEF RowsOK, EnumOK, NoDanglingParameter, DefaultsAreOptions, ConnectorOK, CredentialReadable, LinksOK
  <2>6. LocksMove(t) /\ \A q \in Rows : locks'[q] # t
    BY <1>1, <2>1, UnlockMoves
  <2>7. Leaves(t)
    BY <2>1, <2>2, <2>6 DEF Leaves, LocksMove
  <2>8. Counters
    BY <1>1, CountersAreNumbers
  <2>9. enum'.id <= enum.id + 1 /\ enum'.version <= enum.version + 1 /\ connector'.config <= connector.config + 1
    BY <2>1, <2>8 DEF Counters
  <2> QED BY <2>1, <2>5, <2>6, <2>7, <2>9, RowsOfAnswer
<1> QED BY <1>3, <1>4, <1>5, <1>6, <1>7

LEMMA RowsOfAssets ==
    ASSUME ThreadsOK, RowsInv, NEW t \in Threads, ServeAsset(t)
    PROVE  RowsInv'
<1>1. CASE RefuseRequest(t)
  BY <1>1, RowsOfRefusal DEF RefuseRequest, Refuse, At, storedRows
<1> QED BY <1>1, RowsOfEnums, RowsOfParameters, RowsOfConnectors, RowsOfReadConnector, RowsOfAssetUpdate, RowsOfLinks
        DEF ServeAsset

\* A step of setup, login, logout or the middleware answers or goes on as it was.
LEMMA AuthMoves ==
    ASSUME ThreadsOK, NEW t \in Threads, ServeAuth(t)
    PROVE  /\ pc[t] # "idle" /\ (req[t].op \in AssetOps => pc[t] = "arrived") /\ UNCHANGED world
           /\ Return(t) \/ \E l : Goto(t, l) /\ UNCHANGED req /\ (pc[t] = "arrived" => l = "serve")
<1>1. ThreadOK(t)
  BY DEF ThreadsOK
<1>2. CASE ReadBootstrap(t) \/ InsertBootstrap(t) \/ CommitSetup(t)
  BY <1>2 DEF ReadBootstrap, InsertBootstrap, CommitSetup, At, AssetOps
<1>3. CASE Attempt(t) \/ CheckFailures(t)
  BY <1>3 DEF Attempt, CheckFailures, At, AssetOps
<1>4. CASE Verify(t)
  BY <1>4 DEF Verify, At, AssetOps
<1>5. CASE Leave(t) \/ CreateSession(t)
  BY <1>1, <1>5 DEF Leave, CreateSession, ThreadOK
<1>6. CASE Logout(t) \/ Authenticate(t)
  BY <1>6 DEF Logout, Authenticate, At, AssetOps
<1> QED BY <1>2, <1>3, <1>4, <1>5, <1>6 DEF ServeAuth

LEMMA RowsOfAuth ==
    ASSUME ThreadsOK, RowsInv, NEW t \in Threads, ServeAuth(t), UNCHANGED assets
    PROVE  RowsInv'
<1>1. /\ pc[t] # "idle" /\ (req[t].op \in AssetOps => pc[t] = "arrived") /\ UNCHANGED <<storedRows, locks, world>>
      /\ Return(t) \/ \E l : Goto(t, l) /\ UNCHANGED req /\ (pc[t] = "arrived" => l = "serve")
  BY AuthMoves DEF assets, storedRows
<1>2. LocksOK /\ RequestOK(t)
  BY DEF RowsInv
<1>3. \A q \in Rows : locks[q] # t
  BY <1>1, <1>2 DEF LocksOK, Locking
<1>4. CASE Return(t)
  BY <1>1, <1>3, <1>4, RowsOfRefusal
<1>5. ASSUME NEW l, Goto(t, l), UNCHANGED req, pc[t] = "arrived" => l = "serve" PROVE RowsInv'
  <2>1. Turn(t, l, req[t])
    BY <1>5, GotoTurn
  <2>2. pc'[t] = l /\ req'[t] = req[t]
    BY <2>1, TurnMoves
  <2>3. LocksMove(t)
    BY <1>1, <1>2, LocksStay
  <2>4. RequestOK(t)'
    <3>1. CASE req[t].op \notin AssetOps
      BY <2>2, <3>1, NothingAsked
    <3>2. CASE req[t].op \in AssetOps
      <4>1. pc[t] = "arrived" /\ pc'[t] = "serve" /\ UNCHANGED <<enum, parameter, connector, links, locks>>
        BY <1>1, <1>5, <2>2, <3>2 DEF storedRows
      <4>2. EnumRequestOK(t)'
        BY <1>2, <2>2, <4>1 DEF RequestOK, EnumRequestOK
      <4>3. ParameterRequestOK(t)'
        BY <1>2, <2>2, <4>1 DEF RequestOK, ParameterRequestOK
      <4>4. TestRequestOK(t)'
        BY <1>2, <2>2, <4>1 DEF RequestOK, TestRequestOK
      <4>5. LinkRequestOK(t)'
        BY <1>2, <2>2, <4>1 DEF RequestOK, LinkRequestOK
      <4> QED BY <4>2, <4>3, <4>4, <4>5 DEF RequestOK
    <3> QED BY <3>1, <3>2
  <2> QED BY <1>1, <1>3, <2>1, <2>3, <2>4, RowsOfGoingOn
<1> QED BY <1>1, <1>4, <1>5

\* What a client sends is about the rows as they are now, or were.
LEMMA WhatIsAsked ==
    ASSUME NEW asked \in AssetRequests
    PROVE  /\ "op" \in DOMAIN asked /\ asked.op \in AssetOps /\ {"session", "late"} \cap DOMAIN asked = {}
           /\ asked.op = "updateEnum" => "options" \in DOMAIN asked /\ asked.options \in SUBSET Values
           /\ asked.op = "parameters" =>
                 DOMAIN asked = {"op", "new"} /\ asked.new \in {NoParameter} \cup [enum : {enum.id}, default : Values]
           /\ asked.op = "testConnector" => DOMAIN asked = {"op", "id"} /\ asked.id = connector.id
           /\ asked.op = "updateAsset" =>
                 DOMAIN asked = {"op", "row", "expected"} /\ asked.row \in {"case", "script"}
<1>1. CASE asked \in [op : {"createEnum", "createConnector"} \union Links]
  BY <1>1 DEF Links, AssetOps
<1>2. CASE asked \in [op : {"updateEnum"}, id : {enum.id}, expected : {enum.version}, options : SUBSET Values]
  BY <1>2 DEF AssetOps
<1>3. CASE asked \in [op : {"deleteEnum"}, id : {enum.id}]
  BY <1>3 DEF AssetOps
<1>4. CASE asked \in [op : {"parameters"}, new : {NoParameter} \union [enum : {enum.id}, default : Values]]
  BY <1>4 DEF AssetOps
<1>5. CASE asked \in [op : {"updateConnector", "setEnabled"}, id : {connector.id}, expected : {connector.version}]
  BY <1>5 DEF AssetOps
<1>6. CASE asked \in [op : {"deleteConnector", "testConnector"}, id : {connector.id}]
  BY <1>6 DEF AssetOps
<1>7. CASE asked \in {[op |-> "updateAsset", row |-> a, expected |-> asset[a].version] : a \in {"case", "script"}}
  BY <1>7 DEF AssetOps
<1> QED BY <1>1, <1>2, <1>3, <1>4, <1>5, <1>6, <1>7 DEF AssetRequests

LEMMA RowsOfAssetRequest ==
    ASSUME ThreadsOK, RowsInv, NEW t \in Threads, AssetRequest(t)
    PROVE  RowsInv'
<1>1. PICK s \in DOMAIN sessions, asked \in AssetRequests :
         Receive(t, With(asked, [session |-> s, late |-> s \in loggedOut]), "arrived")
  BY DEF AssetRequest
<1> DEFINE more == [session |-> s, late |-> s \in loggedOut]
           r == With(asked, more)
<1>2. DOMAIN more = {"session", "late"}
  OBVIOUS
<1>3. DOMAIN r = (DOMAIN asked) \cup {"session", "late"} /\ \A x \in DOMAIN asked : r[x] = asked[x]
  <2> HIDE DEF more
  <2> QED BY <1>2 DEF With
<1>4. Receive(t, r, "arrived")
  BY <1>1
<1> HIDE DEF r
<1>5. Turn(t, "arrived", r) /\ pc[t] = "idle" /\ UNCHANGED <<storedRows, locks>>
  BY <1>4, ReceiveTurn DEF AssetRequest, assets, storedRows
<1>6. pc'[t] = "arrived" /\ req'[t] = r
  BY <1>5, TurnMoves
<1>7. LocksOK /\ RowsOK /\ RowsOK'
  BY <1>5, RowsStored DEF RowsInv
<1>8. LocksMove(t) /\ \A q \in Rows : locks'[q] # t
  BY <1>5, <1>7, LocksStay DEF LocksOK, Locking
<1>9. Leaves(t)
  BY <1>5, <1>8, LeavesStored
<1>10. CountsOK'
  BY <1>4, <1>5, <1>7, CountsOfRequest DEF RowsInv, storedRows
<1>11. RequestOK(t)'
  <2>1. UNCHANGED <<enum, connector>> /\ r.op = asked.op
    BY <1>3, <1>5, WhatIsAsked DEF storedRows
  <2>2. EnumRequestOK(t)'
    BY <1>3, <1>6, <2>1, WhatIsAsked DEF EnumRequestOK
  <2>3. ParameterRequestOK(t)'
    <3>1. CASE r.op = "parameters"
      <4>1. /\ DOMAIN r = Common \cup {"new"} /\ r.new = asked.new
            /\ asked.new \in {NoParameter} \cup [enum : {enum.id}, default : Values]
        BY <1>3, <2>1, <3>1, WhatIsAsked DEF Common
      <4>2. enum.id \in Nat \ {0}
        BY <1>7 DEF RowsOK, EnumOK
      <4> QED BY <1>6, <2>1, <4>1, <4>2 DEF ParameterRequestOK
    <3> QED BY <1>6, <3>1 DEF ParameterRequestOK
  <2>4. TestRequestOK(t)'
    <3>1. CASE r.op = "testConnector"
      <4>1. DOMAIN r = Common \cup {"id"} /\ r.id = connector.id
        BY <1>3, <2>1, <3>1, WhatIsAsked DEF Common
      <4>2. connector.id \in Nat
        BY <1>7 DEF RowsOK, ConnectorOK
      <4> QED BY <1>6, <2>1, <4>1, <4>2 DEF TestRequestOK
    <3> QED BY <1>6, <3>1 DEF TestRequestOK
  <2>5. LinkRequestOK(t)'
    <3>1. CASE r.op = "updateAsset"
      <4>1. DOMAIN r = Common \cup {"row", "expected"} /\ r.row \in {"case", "script"}
        BY <1>3, <2>1, <3>1, WhatIsAsked DEF Common
      <4> QED BY <1>6, <3>1, <4>1 DEF LinkRequestOK
    <3> QED BY <1>6, <3>1 DEF LinkRequestOK
  <2> QED BY <2>2, <2>3, <2>4, <2>5 DEF RequestOK
<1> QED BY <1>5, <1>7, <1>8, <1>9, <1>10, <1>11, RowsAfterTurn

LEMMA RowsOfAuthRequest ==
    ASSUME ThreadsOK, RowsInv, NEW t \in Threads, AuthRequest(t), UNCHANGED assets
    PROVE  RowsInv'
<1>1. ASSUME NEW r, NEW l, Receive(t, r, l), r.op \notin AssetOps, l # "idle" PROVE RowsInv'
  <2>1. Turn(t, l, r) /\ pc[t] = "idle" /\ UNCHANGED <<storedRows, locks>>
    BY <1>1, ReceiveTurn DEF assets, storedRows
  <2>2. LocksOK /\ RowsOK /\ RowsOK'
    BY <2>1, RowsStored DEF RowsInv
  <2>3. LocksMove(t) /\ \A q \in Rows : locks'[q] # t
    BY <2>1, <2>2, LocksStay DEF LocksOK, Locking
  <2>4. Leaves(t)
    BY <2>1, <2>3, LeavesStored
  <2>5. CountsOK'
    BY <1>1, <2>1, <2>2, CountsOfRequest DEF RowsInv, storedRows
  <2>6. RequestOK(t)'
    BY <1>1, <2>1, TurnMoves, NothingAsked
  <2> QED BY <2>1, <2>2, <2>3, <2>4, <2>5, <2>6, RowsAfterTurn
<1>2. \/ Receive(t, [op |-> "setup"], "setup")
      \/ \E correct \in BOOLEAN : Receive(t, [op |-> "login", correct |-> correct], "attempt")
      \/ \E s \in DOMAIN sessions : Receive(t, [op |-> "logout", session |-> s], "logout")
  BY DEF AuthRequest
<1> QED BY <1>1, <1>2 DEF AssetOps

\* Time, writers, streams and the page touch neither rows nor requests.
LEMMA RowsBeside ==
    ASSUME RowsInv, UNCHANGED <<assets, threads>>, Happens \/ UNCHANGED events
    PROVE  RowsInv'
<1>1. UNCHANGED <<storedRows, locks, pc, req, enum, parameter, connector, asset, links>>
  BY DEF assets, storedRows, threads
<1>2. RowsOK' /\ CountsOK'
  BY <1>1, RowsStored, CountsOfTime DEF RowsInv
<1>3. LocksOK'
  BY <1>1 DEF RowsInv, LocksOK
<1>4. ASSUME NEW t \in Threads PROVE RequestOK(t)'
  <2>1. RequestOK(t)
    BY DEF RowsInv
  <2>2. EnumRequestOK(t)'
    BY <1>1, <2>1 DEF RequestOK, EnumRequestOK, DefaultsStay, Referenced
  <2>3. ParameterRequestOK(t)'
    BY <1>1, <2>1 DEF RequestOK, ParameterRequestOK
  <2>4. TestRequestOK(t)'
    BY <1>1, <2>1 DEF RequestOK, TestRequestOK
  <2>5. LinkRequestOK(t)'
    BY <1>1, <2>1 DEF RequestOK, LinkRequestOK, Linkable
  <2> QED BY <2>2, <2>3, <2>4, <2>5 DEF RequestOK
<1> QED BY <1>2, <1>3, <1>4 DEF RowsInv

LEMMA RowsStep == ASSUME ThreadsOK, RowsInv, [Next]_vars PROVE RowsInv'
<1>1. CASE UNCHANGED vars
  BY <1>1, RowsBeside DEF vars, world
<1>2. ASSUME NEW t \in Threads, AssetRequest(t) PROVE RowsInv'
  BY <1>2, RowsOfAssetRequest
<1>3. ASSUME NEW t \in Threads, Serve(t) PROVE RowsInv'
  BY <1>3, RowsOfAssets, RowsOfAuth DEF Serve
<1>4. ASSUME NEW t \in Threads, AuthRequest(t), UNCHANGED assets PROVE RowsInv'
  BY <1>4, RowsOfAuthRequest
<1>5. CASE FailureAges /\ UNCHANGED assets
  BY <1>5, RowsBeside DEF FailureAges
<1>6. ASSUME NEW s \in DOMAIN sessions, Expire(s), UNCHANGED assets PROVE RowsInv'
  BY <1>6, RowsBeside DEF Expire
<1>7. CASE StreamNext /\ UNCHANGED <<assets, threads>>
  <2>1. Happens \/ UNCHANGED events
    BY <1>7 DEF StreamNext, Select, CloseDetails, FetchFails, ConnectionLost, ReconnectRefused, world
  <2> QED BY <1>7, <2>1, RowsBeside
<1> QED BY <1>1, <1>2, <1>3, <1>4, <1>5, <1>6, <1>7 DEF Next

LEMMA RowsInit == Init => RowsInv
<1> SUFFICES ASSUME Init PROVE RowsInv
  OBVIOUS
<1>1. pc = [t \in Threads |-> "idle"] /\ req = [t \in Threads |-> NoRequest] /\ events = 0
  BY DEF Init, ThreadsInit
<1>2. LocksOK
  BY ServerAssumption DEF Init, AssetInit, LocksOK
<1>3. EnumOK
  BY DEF Init, AssetInit, EnumOK, NoDanglingParameter, DefaultsAreOptions
<1>4. ConnectorOK /\ LinksOK
  BY DEF Init, AssetInit, ConnectorOK, CredentialReadable, LinksOK
<1>5. CountsOK
  <2>1. Active = {}
    BY <1>1 DEF Active
  <2>2. IsFiniteSet(Active) /\ Cardinality(Active) = 0
    BY <2>1, FS_EmptySet
  <2>3. enum.id = 1 /\ enum.version = 0 /\ connector.config = 1
    BY DEF Init, AssetInit
  <2> QED BY <1>1, <2>2, <2>3, ServerAssumption DEF CountsOK
<1>6. ASSUME NEW t \in Threads PROVE RequestOK(t)
  BY <1>1 DEF NoRequest, RequestOK, EnumRequestOK, ParameterRequestOK, TestRequestOK, LinkRequestOK
<1> QED BY <1>2, <1>3, <1>4, <1>5, <1>6 DEF RowsInv, RowsOK

\* A step that records an outcome, or adds a link of a script, is that of a request
\* that has read what it relies on.
LEMMA RecordedAsTested ==
    ASSUME RowsInv, [Next]_vars
    PROVE  connector'.tested # connector.tested /\ connector'.id = connector.id => connector'.tested = connector.config
<1>1. connector \in ConnectorRow
  BY DEF RowsInv, RowsOK, ConnectorOK, ConnectorRow
<1>2. CASE UNCHANGED connector
  BY <1>2
<1>3. ASSUME NEW t \in Threads, CreateConnector(t) PROVE connector'.id = connector.id + 1
  BY <1>3 DEF CreateConnector
<1>4. ASSUME NEW t \in Threads, UpdateConnector(t) PROVE connector'.tested = connector.tested
  BY <1>1, <1>4 DEF UpdateConnector, ConnectorRow
<1>5. ASSUME NEW t \in Threads, SetEnabled(t) \/ DeleteConnector(t) PROVE connector'.tested = connector.tested
  BY <1>1, <1>5 DEF SetEnabled, DeleteConnector, ConnectorRow
<1>6. ASSUME NEW t \in Threads, RecordTest(t) PROVE connector'.tested = connector.config
  <2>1. /\ pc[t] = "test" /\ req[t].op = "testConnector"
        /\ connector.id = req[t].id /\ connector.version = req[t].expected
        /\ connector' = [connector EXCEPT !.version = @ + 1, !.tested = req[t].config]
    BY <1>6 DEF RecordTest, At, Named, VersionMatches
  <2>2. req[t].config = connector.config
    BY <2>1 DEF RowsInv, RequestOK, TestRequestOK
  <2> QED BY <1>1, <2>1, <2>2 DEF ConnectorRow
<1>7. ASSUME NEW t \in Threads, ServeAsset(t)
      PROVE  \/ UNCHANGED connector
             \/ CreateConnector(t) \/ UpdateConnector(t) \/ SetEnabled(t) \/ DeleteConnector(t) \/ RecordTest(t)
  BY <1>7 DEF ServeAsset, CreateEnumSet, LockEnumSet, CommitEnumSet, CommitDeleteEnumSet, LockScriptParameters,
       InsertParameters, CommitParameters, ReadConnector, LockAsset, CommitAsset, LockCase, LockScript, ReadTraceLink,
       InsertTraceLink, CommitLink, RefuseRequest, Refuse, assets
<1>8. UNCHANGED connector \/ \E t \in Threads : ServeAsset(t)
  BY DEF Next, vars, AssetRequest, Serve, assets
<1>9. connector.id # connector.id + 1
  BY <1>1 DEF ConnectorRow
<1> QED BY <1>2, <1>3, <1>4, <1>5, <1>6, <1>7, <1>8, <1>9

LEMMA LinkedAsFound ==
    ASSUME RowsInv, [Next]_vars, "scriptLink" \in links' \ links
    PROVE  Linkable
<1>1. ASSUME NEW t \in Threads, ServeAsset(t) PROVE UNCHANGED links \/ CommitLink(t)
  BY <1>1 DEF ServeAsset, CreateEnumSet, LockEnumSet, CommitEnumSet, CommitDeleteEnumSet, LockScriptParameters,
       InsertParameters, CommitParameters, CreateConnector, UpdateConnector, SetEnabled, DeleteConnector, ReadConnector,
       RecordTest, LockAsset, CommitAsset, LockCase, LockScript, ReadTraceLink, InsertTraceLink, RefuseRequest, Refuse, assets
<1>2. UNCHANGED links \/ \E t \in Threads : ServeAsset(t)
  BY DEF Next, vars, AssetRequest, Serve, assets
<1>3. PICK t \in Threads : CommitLink(t)
  BY <1>1, <1>2
<1>4. req[t].op = "scriptLink" /\ pc[t] = "commit"
  BY <1>3 DEF CommitLink
<1> QED BY <1>4 DEF RowsInv, RequestOK, LinkRequestOK

LEMMA TypesHold == ASSUME SessionInv, RowsInv, StreamInv PROVE TypeOK
<1>1. /\ Cardinality(Active) \in Nat /\ events \in 0..MaxEvents /\ MaxEvents \in Nat
      /\ enum.id + Cardinality(Active) <= events + 1 /\ enum.version + Cardinality(Active) <= events
      /\ connector.config + Cardinality(Active) <= events + 1
  BY FS_CardinalityType, ServerAssumption DEF RowsInv, CountsOK
<1>2. /\ enum \in [id : Nat \ {0}, present : BOOLEAN, options : SUBSET Values, version : Nat]
      /\ parameter = NoParameter \/ parameter \in [enum : Nat \ {0}, default : Values, overtaken : BOOLEAN]
      /\ NoDanglingParameter
  BY DEF RowsInv, RowsOK, EnumOK
<1>3. enum.id \in 1..MaxEvents + 1 /\ enum.version \in 0..MaxEvents
  BY <1>1, <1>2
<1>4. enum \in [id : 1..MaxEvents + 1, present : BOOLEAN, options : SUBSET Values, version : 0..MaxEvents]
  BY <1>2, <1>3
<1>5. parameter = NoParameter \/ parameter \in [enum : 1..MaxEvents + 1, default : Values, overtaken : BOOLEAN]
  <2>1. CASE parameter # NoParameter
    <3>1. parameter.enum \in 1..MaxEvents + 1
      BY <1>2, <1>3, <2>1 DEF NoDanglingParameter
    <3> QED BY <1>2, <2>1, <3>1
  <2> QED BY <2>1
<1>6. connector.tested \in 0..connector.config /\ connector.config <= MaxEvents + 1
  BY <1>1 DEF RowsInv, RowsOK, ConnectorOK
<1>7. /\ \A a \in {"case", "script"} : asset[a].status \in {"DRAFT", "READY", "ARCHIVED"}
      /\ \A r \in Rows : ~Free(r) => pc[locks[r]] \in {"insert", "script", "commit"}
  BY DEF RowsInv, RowsOK, LinksOK, LocksOK, Free, Locking
<1>8. sessions \in Seq(SessionState) /\ loggedOut \subseteq DOMAIN sessions
  BY DEF SessionInv, SessionsOK
<1>9. slots \in 0..MaxConcurrent
  BY VerifyingHold, ThrottleAssumption DEF SessionInv, ThrottleOK
<1>10. {e.cursor : e \in rows} \cup overtaken \subseteq 1..cursors /\ cursors \in 1..MaxCursor
  BY DEF StreamInv, WritersOK, Event
<1>11. page.state = "complete" => stream = NoStream
  BY DEF StreamInv, ConnectionOK
<1> QED BY <1>1, <1>4, <1>5, <1>6, <1>7, <1>8, <1>9, <1>10, <1>11 DEF TypeOK

\* The rows of the asset repositories under every interleaving of the requests
\* that change them (parameter_, connector_, quality_ and automation_sql_repository):
\* no parameter refers to a deleted enum, a default is an option unless an update
\* overtook its validation, credentials can be read, a test's outcome is recorded
\* against the configuration that was tested, and no link is made twice or to an
\* archived case or script.
THEOREM RowsAreConsistent == Spec => RowsStayConsistent
<1>1. Init => SessionInv /\ RowsInv /\ StreamInv
  BY SessionsInit, RowsInit, StreamInitOK
<1>2. SessionInv /\ RowsInv /\ StreamInv /\ [Next]_vars => (SessionInv /\ RowsInv /\ StreamInv)'
  BY SessionsStep, RowsStep, StreamStepOK DEF SessionInv
<1>3. SessionInv /\ RowsInv /\ StreamInv =>
         TypeOK /\ NoDanglingParameter /\ DefaultsAreOptions /\ CredentialReadable /\ LinkedOnce
  <2> SUFFICES ASSUME SessionInv, RowsInv, StreamInv
               PROVE  TypeOK /\ NoDanglingParameter /\ DefaultsAreOptions /\ CredentialReadable /\ LinkedOnce
    OBVIOUS
  <2>1. NoDanglingParameter /\ DefaultsAreOptions /\ CredentialReadable
    BY DEF RowsInv, RowsOK, EnumOK, ConnectorOK
  <2>2. LinkedOnce
    BY DEF RowsInv, RowsOK, LinksOK, LinkedOnce
  <2> QED BY <2>1, <2>2, TypesHold
<1>4. RowsInv /\ [Next]_vars =>
         [connector'.tested # connector.tested /\ connector'.id = connector.id
            => connector'.tested = connector.config]_<<assets, threads, world>>
  BY RecordedAsTested
<1>5. RowsInv /\ [Next]_vars => [("scriptLink" \in links' \ links) => Linkable]_<<assets, threads, world>>
  BY LinkedAsFound
<1> QED BY <1>1, <1>2, <1>3, <1>4, <1>5, PTL DEF Spec, RowsStayConsistent, TestedAsConfigured, NoArchivedLink

-----------------------------------------------------------------------------
(* DataFactoryWorkflow: graphs, waves and the variables of a run.          *)

Phases == {"new", "invalid", "schedule", "wave", "stuck", "save", "saved", "lost", "debugged"}
NodeStates == {"pending", "running", "SUCCEEDED", "FAILED", "SKIPPED"}
Executed == {n \in Nodes : wave[n] # 0}

WorkflowTypes ==
    /\ graph \in Graphs /\ phase \in Phases
    /\ status \in [Nodes -> NodeStates] /\ branch \in [Nodes -> {"none", "true", "false"}]
    /\ wrote \in SUBSET Nodes /\ ready \in SUBSET Nodes /\ context \in Nodes \cup {0}
    /\ seen \in [Nodes -> Nodes \cup {0}] /\ wave \in [Nodes -> Nat] /\ waves \in Nat
    /\ stored \in BOOLEAN /\ runs \in {0, 1}

\* What the phase says of the graph and of all nodes.
PhaseOK ==
    /\ phase = "new" => status = [n \in Nodes |-> "pending"]
    /\ phase \in {"new", "debugged"} => wave = [n \in Nodes |-> 0] /\ wrote = {} /\ waves = 0
    /\ phase = "debugged" => \A n \in Nodes : status[n] # "running"
    /\ phase = "invalid" => ~ValidGraph(graph)
    /\ phase \notin {"new", "invalid"} => ValidGraph(graph)
    /\ phase # "wave" => ready = {}
    /\ phase \in {"save", "saved", "lost", "stuck"} => \A n \in Nodes : status[n] # "pending"
    /\ phase = "stuck" => \E n \in Nodes : status[n] = "SKIPPED"
    /\ phase # "saved" => runs = 0
    /\ runs # 0 => stored

\* A node that is settled, running or ready has sources that are settled, and
\* is there because of them: what is settled does not change any more.
NodeOK(n) ==
    /\ wave[n] # 0 <=> status[n] \in {"running", "SUCCEEDED", "FAILED"}
    /\ status[n] = "running" => n \in ready
    /\ status[n] # "pending" \/ n \in ready =>
          \A e \in Incoming(graph, n) : Decided(status, e[1]) /\ (n \in ready => e[1] \notin ready)
    /\ status[n] = "SKIPPED" => n \notin ready /\ Incoming(graph, n) # {} /\ ~Reached(status, n)
    /\ wave[n] # 0 \/ n \in ready => Incoming(graph, n) = {} \/ Reached(status, n)

\* A wave is later than all that were executed before it.
WaveOK ==
    /\ \A n \in Nodes : /\ wave[n] <= waves
                        /\ n \in ready /\ wave[n] # 0 => wave[n] = waves
                        /\ phase = "wave" /\ n \notin ready => wave[n] < waves
    /\ phase = "wave" => waves # 0 /\ ready # {}
    /\ waves <= Cardinality(Executed \ ready) + (IF phase \in {"wave", "stuck"} THEN 1 ELSE 0)

\* The threads of a wave, within the limits of _wave_limit.
LimitOK ==
    /\ Cardinality(Running) <= MaxConcurrency
    /\ \A e \in graph.edges :
          graph.type[e[1]] = "parallel" /\ status[e[1]] # "SKIPPED" /\ e[2] \in ready =>
              Cardinality(Running) <= graph.limit

\* The variable is that of the waves that are over.
ContextOK ==
    /\ \A n \in wrote : wave[n] # 0 /\ status[n] # "running"
    /\ wrote \ ready = {} => context = 0
    /\ wrote \ ready # {} => context \in wrote \ ready
    /\ \A n \in wrote \ ready : wave[n] < wave[context] \/ (wave[n] = wave[context] /\ n <= context)

SeenOK(n) ==
    wave[n] # 0 =>
        /\ seen[n] # 0 => wave[seen[n]] # 0 /\ wave[seen[n]] < wave[n]
        /\ \A e \in Incoming(graph, n) : e[1] \in wrote => seen[n] # 0 /\ wave[seen[n]] >= wave[e[1]]

ExecutionOK ==
    /\ \A n \in Nodes : NodeOK(n) /\ SeenOK(n)
    /\ WaveOK /\ LimitOK /\ ContextOK

WorkflowInv == WorkflowTypes /\ PhaseOK /\ (phase # "debugged" => ExecutionOK)


\* Induction up to n, for a set instead of an operator.
LEMMA UpTo ==
    ASSUME NEW n \in Nat, NEW S, 0 \in S, \A k \in 1..n : k - 1 \in S => k \in S
    PROVE  \A k \in 0..n : k \in S
<1> DEFINE Bad == {k \in 0..n : k \notin S}
<1> SUFFICES ASSUME Bad # {} PROVE FALSE
  OBVIOUS
<1>1. PICK k \in Bad : \A m \in Bad : k <= m
  <2>1. Bad \in SUBSET Nat
    OBVIOUS
  <2> HIDE DEF Bad
  <2> QED BY <2>1, LeastNumber
<1>2. k \in 1..n
  BY <1>1
<1>3. k - 1 \in 0..n /\ k - 1 \notin Bad
  BY <1>1, <1>2
<1> QED BY <1>1, <1>2, <1>3

LEMMA NodesAreFinite ==
    /\ NodeCount \in Nat \ {0} /\ Nodes \in SUBSET (Nat \ {0})
    /\ IsFiniteSet(Nodes) /\ Cardinality(Nodes) = NodeCount
<1>1. NodeCount \in Nat \ {0}
  BY GraphAssumption
<1> QED BY <1>1, FS_Interval DEF Nodes

\* A function can be iterated: the sequence that a recursive definition over
\* 0..NodeCount describes is there.
LEMMA Iterates ==
    ASSUME NEW X, NEW a \in X, NEW F \in [X -> X]
    PROVE  \E f \in [0..NodeCount -> X] : f[0] = a /\ \A k \in 1..NodeCount : f[k] = F[f[k - 1]]
<1> USE NodesAreFinite
<1> DEFINE P(m) == \E f \in [0..m -> X] : f[0] = a /\ \A k \in 1..m : f[k] = F[f[k - 1]]
           S == {m \in 0..NodeCount : P(m)}
<1>1. 0 \in S
  <2> DEFINE f == [k \in 0..0 |-> a]
  <2>1. f \in [0..0 -> X] /\ f[0] = a /\ 1..0 = {}
    OBVIOUS
  <2> HIDE DEF f
  <2>2. P(0)
    BY <2>1
  <2> QED BY <2>2
<1>2. ASSUME NEW m \in 1..NodeCount, m - 1 \in S
      PROVE  m \in S
  <2>1. PICK f \in [0..(m - 1) -> X] : f[0] = a /\ \A k \in 1..(m - 1) : f[k] = F[f[k - 1]]
    BY <1>2
  <2> DEFINE g == [k \in 0..m |-> IF k = m THEN F[f[m - 1]] ELSE f[k]]
  <2>2. f[m - 1] \in X
    BY <2>1
  <2>3. g \in [0..m -> X]
    BY <2>1, <2>2
  <2>4. g[0] = a
    BY <2>1
  <2>5. ASSUME NEW k \in 1..m PROVE g[k] = F[g[k - 1]]
    <3>1. CASE k = m
      BY <3>1
    <3>2. CASE k # m
      BY <3>2, <2>1
    <3> QED BY <3>1, <3>2
  <2> HIDE DEF g
  <2>6. P(m)
    BY <2>3, <2>4, <2>5
  <2> QED BY <2>6
<1>3. NodeCount \in S
  <2> HIDE DEF S
  <2> QED BY <1>1, <1>2, UpTo
<1> QED BY <1>3

LEMMA GraphFacts ==
    ASSUME NEW g \in Graphs
    PROVE  /\ g.edges \in SUBSET (Nodes \X Nodes \X Outcomes)
           /\ \A n \in Nodes : Incoming(g, n) \in SUBSET g.edges
           /\ \A e \in g.edges : e[1] \in Nodes /\ e[2] \in Nodes /\ e[3] \in Outcomes
           /\ \A n \in Nodes : \A e \in Incoming(g, n) : e[1] \in Nodes /\ e[2] = n
           /\ g.type \in [Nodes -> Types] /\ g.limit \in Nat \ {0}
BY GraphAssumption DEF Incoming

\* the ready list of validate_workflow_graph, round by round
LEMMA VisitedRounds ==
    ASSUME NEW g \in Graphs
    PROVE  \E v \in [0..NodeCount -> SUBSET Nodes] :
              /\ v[0] = {n \in Nodes : Incoming(g, n) = {}}
              /\ \A k \in 1..NodeCount :
                    v[k] = v[k - 1] \cup {n \in Nodes : \A e \in Incoming(g, n) : e[1] \in v[k - 1]}
              /\ Visited(g) = v[NodeCount]
<1> DEFINE Step(S) == S \cup {n \in Nodes : \A e \in Incoming(g, n) : e[1] \in S}
           Roots == {n \in Nodes : Incoming(g, n) = {}}
           Rec(v) == v = [k \in 0..NodeCount |-> IF k = 0 THEN Roots ELSE Step(v[k - 1])]
           F == [S \in SUBSET Nodes |-> Step(S)]
<1> USE NodesAreFinite
<1>1. \E v : Rec(v)
  <2>1. PICK f \in [0..NodeCount -> SUBSET Nodes] :
            f[0] = Roots /\ \A k \in 1..NodeCount : f[k] = F[f[k - 1]]
    <3> DEFINE X == SUBSET Nodes
    <3>1. Roots \in X /\ F \in [X -> X]
      OBVIOUS
    <3>2. \E f \in [0..NodeCount -> X] : f[0] = Roots /\ \A k \in 1..NodeCount : f[k] = F[f[k - 1]]
      <4> HIDE DEF Roots, F, X
      <4> QED BY ONLY <3>1, Iterates
    <3> QED BY <3>2
  <2>2. ASSUME NEW k \in 1..NodeCount PROVE f[k] = Step(f[k - 1])
    <3>1. f[k - 1] \in SUBSET Nodes
      OBVIOUS
    <3> HIDE DEF Step
    <3> QED BY <3>1, <2>1
  <2>3. Rec(f)
    <3> HIDE DEF Step, Roots
    <3> SUFFICES \A k \in 0..NodeCount : f[k] = IF k = 0 THEN Roots ELSE Step(f[k - 1])
      OBVIOUS
    <3> QED BY <2>1, <2>2
  <2> HIDE DEF Rec
  <2> QED BY <2>3
<1> DEFINE v == CHOOSE v : Rec(v)
<1>2. Rec(v)
  <2> HIDE DEF Rec
  <2> QED BY <1>1, Zenon
<1>3. Visited(g) = v[NodeCount]
  BY Zenon DEF Visited
<1> HIDE DEF v
<1>4. \A k \in 0..NodeCount : v[k] = IF k = 0 THEN Roots ELSE Step(v[k - 1])
  <2> HIDE DEF Step, Roots
  <2> QED BY <1>2
<1>5. v[0] = Roots /\ \A k \in 1..NodeCount : v[k] = Step(v[k - 1])
  <2> HIDE DEF Step, Roots
  <2> QED BY <1>4
<1>6. \A k \in 0..NodeCount : v[k] \in SUBSET Nodes
  <2> DEFINE S == {k \in 0..NodeCount : v[k] \in SUBSET Nodes}
  <2>1. 0 \in S
    BY <1>5
  <2>2. ASSUME NEW k \in 1..NodeCount, k - 1 \in S PROVE k \in S
    <3>1. v[k - 1] \in SUBSET Nodes /\ v[k] = Step(v[k - 1])
      <4> HIDE DEF Step
      <4> QED BY <1>5, <2>2
    <3> QED BY <3>1
  <2> HIDE DEF S
  <2>3. \A k \in 0..NodeCount : k \in S
    BY <2>1, <2>2, UpTo
  <2> QED BY <2>3 DEF S
<1>7. v \in [0..NodeCount -> SUBSET Nodes]
  <2>1. v = [k \in 0..NodeCount |-> v[k]]
    <3> HIDE DEF Step, Roots
    <3> QED BY <1>2
  <2> QED BY <2>1, <1>6
<1> QED BY <1>3, <1>5, <1>7

\* validate_workflow_graph's count reaches all nodes of the acyclic graphs only.
LEMMA VisitedIsAcyclic ==
    ASSUME NEW g \in Graphs, Visited(g) = Nodes
    PROVE  Acyclic(g)
<1> SUFFICES ASSUME NEW C \in SUBSET Nodes, C # {},
                    \A n \in C : \E e \in Incoming(g, n) : e[1] \in C
             PROVE  FALSE
  BY DEF Acyclic
<1>1. PICK v \in [0..NodeCount -> SUBSET Nodes] :
          /\ v[0] = {n \in Nodes : Incoming(g, n) = {}}
          /\ \A k \in 1..NodeCount :
                v[k] = v[k - 1] \cup {n \in Nodes : \A e \in Incoming(g, n) : e[1] \in v[k - 1]}
          /\ Visited(g) = v[NodeCount]
  BY VisitedRounds
<1> DEFINE S == {k \in 0..NodeCount : v[k] \cap C = {}}
<1> USE NodesAreFinite
<1>2. 0 \in S
  <2>1. v[0] \cap C = {}
    BY <1>1
  <2> QED BY <2>1
<1>3. ASSUME NEW k \in 1..NodeCount, k - 1 \in S PROVE k \in S
  <2>1. v[k - 1] \cap C = {}
    BY <1>3
  <2>2. ASSUME NEW n \in C, n \in v[k] PROVE FALSE
    <3>1. PICK e \in Incoming(g, n) : e[1] \in C
      OBVIOUS
    <3>2. n \in v[k - 1] \/ e[1] \in v[k - 1]
      BY <1>1, <2>2
    <3> QED BY <2>1, <3>1, <3>2
  <2>3. v[k] \cap C = {}
    BY <2>2
  <2> QED BY <2>3
<1>4. NodeCount \in S
  <2> HIDE DEF S
  <2>1. NodeCount \in Nat /\ NodeCount \in 0..NodeCount
    BY NodesAreFinite
  <2>2. \A k \in 0..NodeCount : k \in S
    BY <1>2, <1>3, <2>1, UpTo
  <2> QED BY <2>1, <2>2, Zenon
<1>5. Nodes \cap C = {}
  BY <1>1, <1>4
<1> QED BY <1>5

\* A set that grows with every round until it is all of the nodes is all of
\* them after as many rounds.
LEMMA Saturates ==
    ASSUME NEW v \in [0..NodeCount -> SUBSET Nodes],
           \A k \in 1..NodeCount :
              v[k - 1] \subseteq v[k] /\ (v[k - 1] # Nodes => v[k] # v[k - 1])
    PROVE  v[NodeCount] = Nodes
<1> USE NodesAreFinite
<1> DEFINE S == {k \in 0..NodeCount : v[k] = Nodes \/ Cardinality(v[k]) >= k}
<1>0. ASSUME NEW k \in 0..NodeCount
      PROVE  v[k] \in SUBSET Nodes /\ IsFiniteSet(v[k]) /\ Cardinality(v[k]) \in Nat
  BY FS_Subset, FS_CardinalityType
<1>1. 0 \in S
  BY <1>0
<1>2. ASSUME NEW k \in 1..NodeCount, k - 1 \in S PROVE k \in S
  <2>0. k - 1 \in 0..NodeCount /\ k \in 0..NodeCount
    OBVIOUS
  <2>1. CASE v[k - 1] = Nodes
    <3>1. v[k] \in SUBSET Nodes /\ v[k - 1] \subseteq v[k]
      BY <2>0, <1>0
    <3>2. v[k] = Nodes
      BY <3>1, <2>1
    <3> QED BY <3>2
  <2>2. CASE v[k - 1] # Nodes
    <3>1. Cardinality(v[k - 1]) >= k - 1
      BY <1>2, <2>2
    <3>2. v[k - 1] \subseteq v[k] /\ v[k - 1] # v[k]
      BY <2>2
    <3>3. Cardinality(v[k - 1]) < Cardinality(v[k])
      <4>1. IsFiniteSet(v[k]) /\ Cardinality(v[k]) \in Nat /\ Cardinality(v[k - 1]) \in Nat
        BY <1>0, <2>0
      <4>2. Cardinality(v[k - 1]) <= Cardinality(v[k])
            /\ (Cardinality(v[k - 1]) = Cardinality(v[k]) => v[k - 1] = v[k])
        BY <4>1, <3>2, FS_Subset
      <4> QED BY <4>1, <4>2, <3>2
    <3>4. Cardinality(v[k]) >= k
      BY <3>1, <3>3, <1>0, <2>0
    <3> QED BY <3>4
  <2> QED BY <2>1, <2>2
<1>3. NodeCount \in S
  <2> HIDE DEF S
  <2> QED BY <1>1, <1>2, UpTo
<1>4. v[NodeCount] = Nodes \/ Cardinality(v[NodeCount]) >= NodeCount
  BY <1>3
<1>5. CASE Cardinality(v[NodeCount]) >= NodeCount
  <2>1. Cardinality(v[NodeCount]) <= Cardinality(Nodes)
        /\ (Cardinality(v[NodeCount]) = Cardinality(Nodes) => v[NodeCount] = Nodes)
    BY <1>0, FS_Subset
  <2>2. Cardinality(v[NodeCount]) \in Nat
    BY <1>0
  <2> QED BY <1>5, <2>1, <2>2
<1> QED BY <1>4, <1>5

LEMMA AcyclicIsVisited ==
    ASSUME NEW g \in Graphs, Acyclic(g)
    PROVE  Visited(g) = Nodes
<1>1. PICK v \in [0..NodeCount -> SUBSET Nodes] :
          /\ v[0] = {n \in Nodes : Incoming(g, n) = {}}
          /\ \A k \in 1..NodeCount :
                v[k] = v[k - 1] \cup {n \in Nodes : \A e \in Incoming(g, n) : e[1] \in v[k - 1]}
          /\ Visited(g) = v[NodeCount]
  BY VisitedRounds
<1> USE NodesAreFinite
<1>2. ASSUME NEW k \in 1..NodeCount, v[k - 1] # Nodes PROVE v[k] # v[k - 1]
  <2>1. v[k - 1] \in SUBSET Nodes
    OBVIOUS
  <2>2. PICK n \in Nodes \ v[k - 1] : \A e \in Incoming(g, n) : e[1] \notin Nodes \ v[k - 1]
    <3>1. Nodes \ v[k - 1] \in (SUBSET Nodes) \ {{}}
      BY <2>1, <1>2
    <3> QED BY <3>1 DEF Acyclic
  <2>3. \A e \in Incoming(g, n) : e[1] \in v[k - 1]
    BY <2>2, GraphFacts
  <2>4. n \in v[k] /\ n \notin v[k - 1]
    BY <1>1, <2>2, <2>3
  <2> QED BY <2>4
<1>3. \A k \in 1..NodeCount : v[k - 1] \subseteq v[k]
  BY <1>1
<1>4. v[NodeCount] = Nodes
  BY <1>2, <1>3, Saturates
<1> QED BY <1>1, <1>4

LEMMA ValidIsAcyclic ==
    ASSUME NEW g \in Graphs
    PROVE  ValidGraph(g) <=> /\ Acyclic(g)
                             /\ \A e \in g.edges : e[3] \in Compatible(g.type[e[1]])
<1>1. ASSUME Acyclic(g) PROVE \E n \in Nodes : Incoming(g, n) = {}
  <2>1. Nodes \in (SUBSET Nodes) \ {{}}
    BY NodesAreFinite DEF Nodes
  <2>2. PICK n \in Nodes : \A e \in Incoming(g, n) : e[1] \notin Nodes
    BY <2>1, <1>1 DEF Acyclic
  <2> QED BY <2>2, GraphFacts
<1> QED BY <1>1, VisitedIsAcyclic, AcyclicIsVisited DEF ValidGraph

States == [Nodes -> NodeStates]

\* the inner loop of _run_graph skips n
Skips(s, n) ==
    /\ s[n] = "pending" /\ Incoming(graph, n) # {}
    /\ SourcesDecided(s, n) /\ ~Reached(s, n)

Pass(s) == [n \in Nodes |-> IF Skips(s, n) THEN "SKIPPED" ELSE s[n]]

\* s settles n as t did before: what it depends on has not changed
LEMMA SameSources ==
    ASSUME NEW s, NEW t, NEW n, \A e \in Incoming(graph, n) : s[e[1]] = t[e[1]]
    PROVE  /\ SourcesDecided(s, n) <=> SourcesDecided(t, n)
           /\ Reached(s, n) <=> Reached(t, n)
<1>1. \A e \in Incoming(graph, n) : EdgeActive(e, s) <=> EdgeActive(e, t)
  BY DEF EdgeActive
<1>2. SourcesDecided(s, n) <=> SourcesDecided(t, n)
  BY DEF SourcesDecided, Decided
<1>3. Reached(s, n) <=> Reached(t, n)
  BY <1>1 DEF Reached
<1> QED BY <1>2, <1>3

\* n was skipped since s, and for good
SkippedSince(s, t, n) ==
    /\ s[n] = "pending" /\ t[n] = "SKIPPED" /\ Incoming(graph, n) # {}
    /\ SourcesDecided(t, n) /\ ~Reached(t, n)

LEMMA PassIsFinal ==
    ASSUME graph \in Graphs, NEW s \in States
    PROVE  /\ Pass(s) \in States
           /\ \A n \in Nodes : s[n] # "pending" => Pass(s)[n] = s[n]
           /\ \A n \in Nodes : SourcesDecided(s, n) =>
                 /\ SourcesDecided(Pass(s), n)
                 /\ Reached(Pass(s), n) <=> Reached(s, n)
           /\ \A n \in Nodes : Pass(s)[n] = s[n] \/ SkippedSince(s, Pass(s), n)
<1>1. Pass(s) \in States
  BY DEF Pass, States, NodeStates
<1>2. \A n \in Nodes : s[n] # "pending" => Pass(s)[n] = s[n]
  BY DEF Pass, Skips
<1>3. ASSUME NEW n \in Nodes, SourcesDecided(s, n)
      PROVE  SourcesDecided(Pass(s), n) /\ (Reached(Pass(s), n) <=> Reached(s, n))
  <2>1. \A e \in Incoming(graph, n) : e[1] \in Nodes /\ Pass(s)[e[1]] = s[e[1]]
    BY <1>2, <1>3, GraphFacts DEF SourcesDecided, Decided
  <2> QED BY <2>1, <1>3, SameSources
<1>4. ASSUME NEW n \in Nodes, Pass(s)[n] # s[n] PROVE SkippedSince(s, Pass(s), n)
  <2>1. Skips(s, n) /\ Pass(s)[n] = "SKIPPED"
    BY <1>4 DEF Pass
  <2> QED BY <2>1, <1>3 DEF Skips, SkippedSince
<1> QED BY <1>1, <1>2, <1>3, <1>4

LEMMA SkippedPasses ==
    ASSUME graph \in Graphs, status \in States
    PROVE  \E p \in [0..NodeCount -> States] :
              /\ p[0] = status
              /\ \A k \in 1..NodeCount : p[k] = Pass(p[k - 1])
              /\ Skipped = p[NodeCount]
<1> DEFINE Rec(p) == p = [k \in 0..NodeCount |-> IF k = 0 THEN status ELSE Pass(p[k - 1])]
           F == [s \in States |-> Pass(s)]
<1> USE NodesAreFinite
<1>1. \E p : Rec(p)
  <2>1. PICK f \in [0..NodeCount -> States] :
            f[0] = status /\ \A k \in 1..NodeCount : f[k] = F[f[k - 1]]
    <3>1. F \in [States -> States]
      BY PassIsFinal
    <3> HIDE DEF F
    <3> QED BY ONLY <3>1, Iterates, status \in States
  <2>2. ASSUME NEW k \in 1..NodeCount PROVE f[k] = Pass(f[k - 1])
    <3>1. f[k - 1] \in States
      OBVIOUS
    <3> QED BY <3>1, <2>1
  <2>3. Rec(f)
    <3> SUFFICES \A k \in 0..NodeCount : f[k] = IF k = 0 THEN status ELSE Pass(f[k - 1])
      OBVIOUS
    <3> QED BY <2>1, <2>2
  <2> HIDE DEF Rec
  <2> QED BY <2>3
<1> DEFINE p == CHOOSE p : Rec(p)
<1>2. Rec(p)
  <2> HIDE DEF Rec
  <2> QED BY <1>1, Zenon
<1>3. Skipped = p[NodeCount]
  BY Zenon DEF Skipped, Pass, Skips
<1> HIDE DEF p
<1>4. \A k \in 0..NodeCount : p[k] = IF k = 0 THEN status ELSE Pass(p[k - 1])
  BY <1>2
<1>5. p[0] = status /\ \A k \in 1..NodeCount : p[k] = Pass(p[k - 1])
  BY <1>4
<1>6. \A k \in 0..NodeCount : p[k] \in States
  <2> DEFINE S == {k \in 0..NodeCount : p[k] \in States}
  <2>1. 0 \in S
    BY <1>5
  <2>2. ASSUME NEW k \in 1..NodeCount, k - 1 \in S PROVE k \in S
    <3>1. p[k - 1] \in States /\ p[k] = Pass(p[k - 1])
      BY <1>5, <2>2
    <3> QED BY <3>1, PassIsFinal
  <2> HIDE DEF S
  <2>3. \A k \in 0..NodeCount : k \in S
    BY <2>1, <2>2, UpTo
  <2> QED BY <2>3 DEF S
<1>7. p \in [0..NodeCount -> States]
  <2>1. p = [k \in 0..NodeCount |-> p[k]]
    BY <1>2
  <2> QED BY <2>1, <1>6
<1> QED BY <1>3, <1>5, <1>7

\* What the inner loop leaves: everything is as it was or skipped for good, and
\* there is nothing more to skip.
LEMMA SkippedIsDone ==
    ASSUME graph \in Graphs, status \in States
    PROVE  /\ Skipped \in States
           /\ \A n \in Nodes : Skipped[n] = status[n] \/ SkippedSince(status, Skipped, n)
           /\ \A n \in Nodes : ~Skips(Skipped, n)
<1>1. PICK p \in [0..NodeCount -> States] :
          /\ p[0] = status
          /\ \A k \in 1..NodeCount : p[k] = Pass(p[k - 1])
          /\ Skipped = p[NodeCount]
  BY SkippedPasses
<1> USE NodesAreFinite
<1>2. \A k \in 1..NodeCount : p[k - 1] \in States /\ p[k] \in States /\ p[k] = Pass(p[k - 1])
  BY <1>1
<1>3. \A n \in Nodes : Skipped[n] = status[n] \/ SkippedSince(status, Skipped, n)
  <2> DEFINE S == {k \in 0..NodeCount :
                     \A n \in Nodes : p[k][n] = status[n] \/ SkippedSince(status, p[k], n)}
  <2>1. 0 \in S
    BY <1>1
  <2>2. ASSUME NEW k \in 1..NodeCount, k - 1 \in S PROVE k \in S
    <3>0. \A n \in Nodes : p[k - 1][n] = status[n] \/ SkippedSince(status, p[k - 1], n)
      BY <2>2
    <3>1. PICK s \in States : s = p[k - 1]
      BY <1>2
    <3>2. PICK t \in States : t = p[k] /\ t = Pass(s)
      BY <1>2, <3>1
    <3>3. ASSUME NEW n \in Nodes PROVE t[n] = status[n] \/ SkippedSince(status, t, n)
      <4>0. s[n] = status[n] \/ SkippedSince(status, s, n)
        BY <3>0, <3>1
      <4>1. CASE t[n] = s[n]
        <5>1. CASE SkippedSince(status, s, n)
          <6>1. SourcesDecided(t, n) /\ ~Reached(t, n)
            BY <5>1, <3>2, PassIsFinal DEF SkippedSince
          <6> QED BY <6>1, <5>1, <4>1 DEF SkippedSince
        <5> QED BY <5>1, <4>0, <4>1
      <4>2. CASE SkippedSince(s, t, n)
        BY <4>2, <4>0 DEF SkippedSince
      <4> QED BY <4>1, <4>2, <3>2, PassIsFinal
    <3>4. \A n \in Nodes : p[k][n] = status[n] \/ SkippedSince(status, p[k], n)
      BY <3>2, <3>3, Zenon
    <3> QED BY <3>4
  <2> HIDE DEF S
  <2>3. NodeCount \in S
    BY <2>1, <2>2, UpTo
  <2> QED BY <2>3, <1>1 DEF S
<1> DEFINE u == [k \in 0..NodeCount |->
                   IF Pass(p[k]) = p[k] THEN Nodes ELSE {n \in Nodes : p[k][n] = "SKIPPED"}]
<1>4. ASSUME NEW k \in 1..NodeCount
      PROVE  u[k - 1] \subseteq u[k] /\ (u[k - 1] # Nodes => u[k] # u[k - 1])
  <2>1. PICK s \in States : s = p[k - 1]
    BY <1>2
  <2>2. PICK t \in States : t = p[k] /\ t = Pass(s)
    BY <1>2, <2>1
  <2>3. /\ u[k - 1] = IF t = s THEN Nodes ELSE {n \in Nodes : s[n] = "SKIPPED"}
        /\ u[k] = IF Pass(t) = t THEN Nodes ELSE {n \in Nodes : t[n] = "SKIPPED"}
    <3>1. k - 1 \in 0..NodeCount /\ k \in 0..NodeCount
      OBVIOUS
    <3>2. \A i \in 0..NodeCount :
             u[i] = IF Pass(p[i]) = p[i] THEN Nodes ELSE {n \in Nodes : p[i][n] = "SKIPPED"}
      OBVIOUS
    <3> HIDE DEF u
    <3> QED BY <3>1, <3>2, <2>1, <2>2
  <2> HIDE DEF u
  <2>4. CASE t = s
    BY <2>2, <2>3, <2>4
  <2>5. CASE t # s
    <3>1. u[k - 1] \subseteq u[k]
      <4>1. \A n \in Nodes : s[n] = "SKIPPED" => t[n] = "SKIPPED"
        BY <2>2, PassIsFinal
      <4> QED BY <4>1, <2>3, <2>5
    <3>2. PICK n \in Nodes : t[n] # s[n]
      <4>1. t = [n \in Nodes |-> t[n]] /\ s = [n \in Nodes |-> s[n]]
        BY DEF States
      <4> QED BY <4>1, <2>5
    <3>3. s[n] = "pending" /\ t[n] = "SKIPPED"
      BY <3>2, <2>2, PassIsFinal DEF SkippedSince
    <3>4. n \notin u[k - 1] /\ n \in u[k]
      BY <3>3, <2>3, <2>5
    <3> QED BY <3>1, <3>4
  <2> QED BY <2>4, <2>5
<1>5. u[NodeCount] = Nodes
  <2>1. u \in [0..NodeCount -> SUBSET Nodes]
    OBVIOUS
  <2> HIDE DEF u
  <2> QED BY <2>1, <1>4, Saturates
<1>6. ASSUME NEW n \in Nodes PROVE ~Skips(Skipped, n)
  <2>1. PICK s \in States : s = Skipped /\ s = p[NodeCount]
    BY <1>1
  <2>2. Pass(s) = s \/ s[n] = "SKIPPED"
    BY <1>5, <2>1
  <2>3. Skips(s, n) => s[n] = "pending" /\ Pass(s)[n] = "SKIPPED"
    BY DEF Skips, Pass
  <2> QED BY <2>1, <2>2, <2>3
<1> QED BY <1>1, <1>3, <1>6

\* A pass that leaves a node pending leaves one that is ready.
LEMMA PendingIsReady ==
    ASSUME graph \in Graphs, Acyclic(graph), NEW s \in States,
           \A n \in Nodes : s[n] # "running" /\ ~Skips(s, n),
           ReadyNodes(s) = {}
    PROVE  \A n \in Nodes : s[n] # "pending"
<1> DEFINE S == {n \in Nodes : s[n] = "pending"}
<1> SUFFICES ASSUME S # {} PROVE FALSE
  OBVIOUS
<1>1. PICK n \in S : \A e \in Incoming(graph, n) : e[1] \notin S
  <2>1. S \in (SUBSET Nodes) \ {{}}
    OBVIOUS
  <2> HIDE DEF S
  <2> QED BY <2>1 DEF Acyclic
<1>2. \A e \in Incoming(graph, n) : Decided(s, e[1])
  BY <1>1, GraphFacts DEF Decided, States, NodeStates
<1>3. n \in ReadyNodes(s)
  BY <1>1, <1>2 DEF ReadyNodes, Skips, SourcesDecided
<1> QED BY <1>3

LEMMA WorkflowStarts ==
    ASSUME WorkflowInit PROVE WorkflowInv
<1> USE DEF WorkflowInit
<1>1. WorkflowTypes
  BY NodesAreFinite DEF WorkflowTypes, Phases, NodeStates
<1>2. PhaseOK
  BY DEF PhaseOK
<1>3. \A n \in Nodes : NodeOK(n) /\ SeenOK(n)
  BY DEF NodeOK, SeenOK
<1>4. Executed \ ready = {} /\ Running = {} /\ Cardinality({}) = 0
  BY FS_EmptySet DEF Executed, Running
<1>5. WaveOK
  BY <1>4 DEF WaveOK
<1>6. LimitOK
  BY <1>4, GraphAssumption DEF LimitOK
<1>7. ContextOK
  BY DEF ContextOK
<1> QED BY <1>1, <1>2, <1>3, <1>5, <1>6, <1>7 DEF WorkflowInv, ExecutionOK

\* what is between two waves stays as it is
LEMMA ExecutionStays ==
    ASSUME ExecutionOK,
           UNCHANGED <<graph, status, branch, wrote, context, ready, seen, wave, waves>>,
           phase' = phase \/ {phase, phase'} \cap {"wave", "stuck"} = {}
    PROVE  ExecutionOK'
<1> USE DEF ExecutionOK
<1>0. (phase' \in {"wave", "stuck"} <=> phase \in {"wave", "stuck"}) /\ (phase' = "wave" <=> phase = "wave")
  OBVIOUS
<1>1. ASSUME NEW n \in Nodes PROVE NodeOK(n)' /\ SeenOK(n)'
  <2>1. NodeOK(n)' <=> NodeOK(n)
    BY Zenon DEF NodeOK, Incoming, Decided, Reached, EdgeActive
  <2>2. SeenOK(n)' <=> SeenOK(n)
    BY Zenon DEF SeenOK, Incoming
  <2> QED BY <2>1, <2>2
<1>2. WaveOK'
  <2>1. Executed' = Executed
    BY DEF Executed
  <2> QED BY <2>1, <1>0 DEF WaveOK
<1>3. LimitOK'
  <2>1. Running' = Running
    BY DEF Running
  <2> QED BY <2>1 DEF LimitOK
<1>4. ContextOK'
  BY DEF ContextOK
<1> QED BY <1>1, <1>2, <1>3, <1>4

LEMMA ValidateKeeps ==
    ASSUME WorkflowInv, Validate PROVE WorkflowInv'
<1> USE DEF WorkflowInv, Validate
<1>1. WorkflowTypes'
  BY DEF WorkflowTypes, Phases
<1>2. ValidGraph(graph)' <=> ValidGraph(graph)
  BY Zenon DEF ValidGraph
<1>3. PhaseOK'
  BY <1>2 DEF PhaseOK
<1>4. ExecutionOK'
  BY ExecutionStays
<1> QED BY <1>1, <1>3, <1>4

LEMMA EndGraphKeeps ==
    ASSUME WorkflowInv, EndGraph PROVE WorkflowInv'
<1> USE DEF WorkflowInv, EndGraph
<1>1. WorkflowTypes'
  BY DEF WorkflowTypes, Phases
<1>2. ValidGraph(graph)' <=> ValidGraph(graph)
  BY Zenon DEF ValidGraph
<1>3. PhaseOK'
  BY <1>2 DEF PhaseOK
<1>4. ExecutionOK'
  BY ExecutionStays
<1> QED BY <1>1, <1>3, <1>4

LEMMA SaveRunKeeps ==
    ASSUME WorkflowInv, SaveRun PROVE WorkflowInv'
<1> USE DEF WorkflowInv, SaveRun
<1>1. runs = 0 /\ phase' \in {"saved", "lost"} /\ (phase' = "saved" => stored /\ runs' = 1)
      /\ (phase' = "lost" => runs' = 0)
  BY DEF PhaseOK, WorkflowTypes
<1>2. WorkflowTypes'
  BY <1>1 DEF WorkflowTypes, Phases
<1>3. ValidGraph(graph)' <=> ValidGraph(graph)
  BY Zenon DEF ValidGraph
<1>4. PhaseOK'
  BY <1>1, <1>3 DEF PhaseOK
<1>5. ExecutionOK'
  BY <1>1, ExecutionStays
<1> QED BY <1>2, <1>4, <1>5

LEMMA DeleteWorkflowKeeps ==
    ASSUME WorkflowInv, DeleteWorkflow PROVE WorkflowInv'
<1> USE DEF WorkflowInv, DeleteWorkflow
<1>1. WorkflowTypes'
  BY DEF WorkflowTypes, Phases
<1>2. ValidGraph(graph)' <=> ValidGraph(graph)
  BY Zenon DEF ValidGraph
<1>3. PhaseOK'
  BY <1>2 DEF PhaseOK
<1>4. phase # "debugged" => ExecutionOK'
  BY ExecutionStays
<1> QED BY <1>1, <1>3, <1>4

LEMMA DebugKeeps ==
    ASSUME WorkflowInv, NEW n \in Nodes, Debug(n) PROVE WorkflowInv'
<1> USE DEF WorkflowInv, Debug
<1>0. phase = "new" /\ phase' = "debugged" /\ ValidGraph(graph)
  OBVIOUS
<1>1. PICK o \in Outcome(n) : status' = [status EXCEPT ![n] = o.status]
  OBVIOUS
<1>2. PICK x \in {"SUCCEEDED", "FAILED"} : x = o.status
  <2>1. graph.type[n] \in Types
    BY GraphFacts DEF WorkflowTypes
  <2> QED BY <2>1 DEF Outcome, Types
<1>3. status' = [status EXCEPT ![n] = x] /\ status' \in [Nodes -> NodeStates]
  BY <1>1, <1>2 DEF WorkflowTypes, NodeStates
<1>4. WorkflowTypes'
  BY <1>3 DEF WorkflowTypes, Phases
<1>5. ValidGraph(graph)' <=> ValidGraph(graph)
  BY Zenon DEF ValidGraph
<1>6. \A m \in Nodes : status'[m] # "running"
  BY <1>3 DEF PhaseOK, WorkflowTypes
<1>7. PhaseOK'
  BY <1>0, <1>5, <1>6 DEF PhaseOK
<1> QED BY <1>0, <1>4, <1>7

\* Nothing runs between two waves.
LEMMA NothingRuns ==
    ASSUME WorkflowInv, phase # "wave" PROVE \A n \in Nodes : status[n] # "running"
BY DEF WorkflowInv, PhaseOK, ExecutionOK, NodeOK

LEMMA ScheduleKeeps ==
    ASSUME WorkflowInv, Schedule PROVE WorkflowInv'
<1>0. /\ graph \in Graphs /\ status \in States /\ phase = "schedule" /\ ready = {} /\ runs = 0
      /\ waves \in Nat /\ wave \in [Nodes -> Nat]
      /\ \A n \in Nodes : NodeOK(n) /\ SeenOK(n) /\ status[n] # "running"
      /\ WaveOK /\ ContextOK /\ ValidGraph(graph)
  BY NothingRuns DEF WorkflowInv, WorkflowTypes, PhaseOK, ExecutionOK, States, Schedule
<1>1. PICK s \in States : s = Skipped
  BY <1>0, SkippedIsDone
<1>2. PICK R \in SUBSET Nodes : R = ReadyNodes(s)
  BY DEF ReadyNodes
<1>3. /\ status' = s /\ ready' = R /\ waves' = waves + 1
      /\ phase' = IF R = {} THEN "stuck" ELSE "wave"
      /\ UNCHANGED <<graph, branch, wrote, context, seen, wave, stored, runs>>
  BY <1>1, <1>2, Zenon DEF Schedule
<1>4. PICK first \in Nodes : status[first] = "pending"
  BY DEF Schedule
<1>5. /\ \A n \in Nodes : s[n] = status[n] \/ SkippedSince(status, s, n)
      /\ \A n \in Nodes : ~Skips(s, n)
  BY <1>0, <1>1, SkippedIsDone
<1>6. \A n \in Nodes : /\ status[n] # "pending" => s[n] = status[n]
                       /\ s[n] # "running"
                       /\ n \in R => s[n] = "pending" /\ status[n] = "pending" /\ wave[n] = 0
  BY <1>0, <1>2, <1>5 DEF SkippedSince, ReadyNodes, NodeOK
<1>7. WorkflowTypes'
  BY <1>3 DEF WorkflowInv, WorkflowTypes, Phases, States
<1>8. PhaseOK'
  <2>1. ValidGraph(graph)'
    BY <1>0, <1>3, Zenon DEF ValidGraph
  <2>2. R = {} => \A n \in Nodes : s[n] # "pending"
    BY <1>0, <1>2, <1>5, <1>6, PendingIsReady, ValidIsAcyclic
  <2>3. R = {} => s[first] = "SKIPPED"
    BY <2>2, <1>4, <1>5 DEF SkippedSince
  <2> QED BY <2>1, <2>2, <2>3, <1>0, <1>3 DEF PhaseOK, WorkflowInv
<1>9. ASSUME NEW n \in Nodes PROVE NodeOK(n)'
  <2>1. /\ SourcesDecided(status, n)' <=> SourcesDecided(s, n)
        /\ Reached(status, n)' <=> Reached(s, n)
    BY <1>3 DEF SourcesDecided, Reached, Decided, EdgeActive, Incoming
  <2>2. Incoming(graph, n)' = Incoming(graph, n)
    BY <1>3 DEF Incoming
  <2>3. status[n] # "pending" => SourcesDecided(s, n) /\ (Reached(s, n) <=> Reached(status, n))
    <3> SUFFICES ASSUME status[n] # "pending"
                 PROVE  SourcesDecided(s, n) /\ (Reached(s, n) <=> Reached(status, n))
      OBVIOUS
    <3>1. SourcesDecided(status, n)
      BY <1>0 DEF NodeOK, SourcesDecided
    <3>2. \A e \in Incoming(graph, n) : s[e[1]] = status[e[1]]
      BY <3>1, <1>0, <1>6, GraphFacts DEF SourcesDecided, Decided
    <3> QED BY <3>1, <3>2, SameSources
  <2>4. s[n] # "pending" \/ n \in R => SourcesDecided(s, n)
    BY <2>3, <1>2, <1>5 DEF SkippedSince, ReadyNodes, SourcesDecided
  <2>5. s[n] # "pending" \/ n \in R =>
           \A e \in Incoming(graph, n) : Decided(s, e[1]) /\ e[1] \notin R
    BY <2>4, <1>6, <1>0, GraphFacts DEF SourcesDecided, Decided
  <2>6. wave[n] # 0 <=> s[n] \in {"running", "SUCCEEDED", "FAILED"}
    BY <1>0, <1>5 DEF NodeOK, SkippedSince
  <2>7. s[n] = "SKIPPED" => n \notin R /\ Incoming(graph, n) # {} /\ ~Reached(s, n)
    BY <1>0, <1>5, <1>6, <2>3 DEF NodeOK, SkippedSince
  <2>8. wave[n] # 0 \/ n \in R => Incoming(graph, n) = {} \/ Reached(s, n)
    BY <1>0, <1>2, <2>3 DEF NodeOK, ReadyNodes
  <2>9. \A e \in Incoming(graph, n) : Decided(status, e[1])' <=> Decided(s, e[1])
    BY <1>3 DEF Decided
  <2> QED BY <1>3, <1>6, <2>1, <2>2, <2>5, <2>6, <2>7, <2>8, <2>9 DEF NodeOK
<1>10. ASSUME NEW n \in Nodes PROVE SeenOK(n)'
  BY <1>0, <1>3 DEF SeenOK, Incoming
<1>11. WaveOK'
  <2>1. Executed' \ ready' = Executed \ ready
    BY <1>0, <1>3, <1>6 DEF Executed
  <2>2. waves <= Cardinality(Executed \ ready)
    <3>1. IsFiniteSet(Executed \ ready)
      BY NodesAreFinite, FS_Subset DEF Executed
    <3>2. Cardinality(Executed \ ready) \in Nat
      BY <3>1, FS_CardinalityType
    <3> QED BY <1>0, <3>2 DEF WaveOK
  <2>3. IsFiniteSet(Executed \ ready) /\ Cardinality(Executed \ ready) \in Nat
    BY NodesAreFinite, FS_Subset, FS_CardinalityType DEF Executed
  <2>4. waves' <= Cardinality(Executed' \ ready') + 1
    BY <2>1, <2>2, <2>3, <1>0, <1>3
  <2>5. \A n \in Nodes : wave'[n] < waves' /\ (n \in ready' => wave'[n] = 0)
    BY <1>0, <1>3, <1>6 DEF WaveOK
  <2>6. phase' \in {"wave", "stuck"} /\ (phase' = "wave" => waves' # 0 /\ ready' # {})
    BY <1>0, <1>3
  <2>7. \A n \in Nodes : wave'[n] \in Nat /\ waves' \in Nat
    BY <1>0, <1>3
  <2>8. \A n \in Nodes : wave'[n] <= waves'
    BY <2>5, <2>7
  <2> QED BY <2>4, <2>5, <2>6, <2>8 DEF WaveOK
<1>12. LimitOK'
  <2>1. Running' = {}
    BY <1>3, <1>6 DEF Running
  <2>2. Cardinality({}) = 0
    BY FS_EmptySet
  <2>3. graph.limit \in Nat /\ graph' = graph /\ MaxConcurrency \in Nat
    BY <1>0, <1>3, GraphFacts, GraphAssumption
  <2> QED BY <2>1, <2>2, <2>3 DEF LimitOK
<1>13. ContextOK'
  <2>1. wrote' \ ready' = wrote \ ready
    BY <1>0, <1>3, <1>6 DEF ContextOK
  <2>2. \A n \in wrote : wave'[n] # 0 /\ status'[n] # "running"
    BY <1>0, <1>3, <1>6 DEF ContextOK, WorkflowInv, WorkflowTypes
  <2> QED BY <2>1, <2>2, <1>0, <1>3 DEF ContextOK
<1> QED BY <1>7, <1>8, <1>9, <1>10, <1>11, <1>12, <1>13 DEF WorkflowInv, ExecutionOK

\* A node that is not settled is no source of one that is, or of one of the
\* wave: what happens to it changes nothing for them.
LEMMA UnsettledIsNoSource ==
    ASSUME WorkflowInv, phase = "wave", NEW n \in Nodes, ~Decided(status, n),
           graph' = graph, status' \in States,
           \A m \in Nodes : m # n => status'[m] = status[m] /\ branch'[m] = branch[m],
           NEW m \in Nodes, status[m] # "pending" \/ m \in ready
    PROVE  /\ Incoming(graph, m)' = Incoming(graph, m)
           /\ \A e \in Incoming(graph, m) :
                 /\ e[1] \in Nodes /\ e[1] # n
                 /\ Decided(status, e[1]) /\ Decided(status, e[1])'
                 /\ m \in ready => e[1] \notin ready
           /\ Reached(status, m)' <=> Reached(status, m)
<1>1. graph \in Graphs /\ NodeOK(m)
  BY DEF WorkflowInv, WorkflowTypes, ExecutionOK
<1>2. Incoming(graph, m)' = Incoming(graph, m)
  BY DEF Incoming
<1>3. \A e \in Incoming(graph, m) :
         /\ e[1] \in Nodes /\ e[1] # n /\ Decided(status, e[1])
         /\ m \in ready => e[1] \notin ready
  BY <1>1, GraphFacts DEF NodeOK
<1>4. \A e \in Incoming(graph, m) : Decided(status, e[1])'
  BY <1>3 DEF Decided
<1>5. \A e \in Incoming(graph, m) : EdgeActive(e, status)' <=> EdgeActive(e, status)
  BY <1>3 DEF EdgeActive
<1>6. Reached(status, m)' <=> Reached(status, m)
  BY <1>2, <1>5 DEF Reached
<1> QED BY <1>2, <1>3, <1>4, <1>6

LEMMA SmallestIsLeast ==
    ASSUME NEW S \in SUBSET Nat, S # {}
    PROVE  Smallest(S) \in Nat /\ \A x \in S : Smallest(S) <= x
BY LeastNumber DEF Smallest

LEMMA RunningIsFinite ==
    IsFiniteSet(Running) /\ Cardinality(Running) \in Nat
BY NodesAreFinite, FS_Subset, FS_CardinalityType DEF Running

\* _wave_limit is at most the executor's limit and that of every parallel node
\* that was executed and leads to the wave.
LEMMA WaveLimitIsLimit ==
    ASSUME WorkflowInv, phase = "wave"
    PROVE  /\ WaveLimit \in Nat /\ WaveLimit <= MaxConcurrency
           /\ \A e \in graph.edges :
                 graph.type[e[1]] = "parallel" /\ status[e[1]] # "SKIPPED" /\ e[2] \in ready =>
                     WaveLimit <= graph.limit
<1> DEFINE L == {graph.limit : e \in {x \in graph.edges : /\ x[2] \in ready
                                                        /\ graph.type[x[1]] = "parallel"
                                                        /\ EdgeActive(x, status)}}
           S == {MaxConcurrency, Cardinality(ready)} \cup L
<1>0. graph \in Graphs /\ ready \in SUBSET Nodes /\ ValidGraph(graph)
  BY DEF WorkflowInv, WorkflowTypes, PhaseOK
<1>1. Cardinality(ready) \in Nat
  BY <1>0, NodesAreFinite, FS_Subset, FS_CardinalityType
<1>2. S \in SUBSET Nat /\ S # {} /\ MaxConcurrency \in S
  BY <1>0, <1>1, GraphFacts, GraphAssumption
<1>3. ASSUME NEW e \in graph.edges,
             graph.type[e[1]] = "parallel", status[e[1]] # "SKIPPED", e[2] \in ready
      PROVE  graph.limit \in S
  <2>1. e[3] \in Compatible("parallel")
    BY <1>0, <1>3 DEF ValidGraph
  <2>2. e[3] = "always"
    BY <2>1 DEF Compatible
  <2>3. EdgeActive(e, status)
    BY <2>2, <1>3 DEF EdgeActive
  <2> QED BY <2>3, <1>3
<1>4. WaveLimit = Smallest(S)
  BY DEF WaveLimit
<1> HIDE DEF S
<1> QED BY <1>2, <1>3, <1>4, SmallestIsLeast

LEMMA StartKeeps ==
    ASSUME WorkflowInv, NEW n \in Nodes, Start(n) PROVE WorkflowInv'
<1>0. /\ graph \in Graphs /\ status \in States /\ phase = "wave" /\ n \in ready
      /\ status[n] = "pending" /\ runs = 0 /\ ready \in SUBSET Nodes
      /\ waves \in Nat /\ wave \in [Nodes -> Nat] /\ seen \in [Nodes -> Nodes \cup {0}]
      /\ context \in Nodes \cup {0} /\ wrote \in SUBSET Nodes
      /\ \A m \in Nodes : NodeOK(m) /\ SeenOK(m)
      /\ WaveOK /\ ContextOK /\ LimitOK /\ ValidGraph(graph)
  BY DEF WorkflowInv, WorkflowTypes, PhaseOK, ExecutionOK, States, Start
<1>1. /\ status' = [status EXCEPT ![n] = "running"]
      /\ seen' = [seen EXCEPT ![n] = context] /\ wave' = [wave EXCEPT ![n] = waves]
      /\ UNCHANGED <<graph, phase, branch, wrote, context, ready, waves, stored, runs>>
      /\ Cardinality(Running) < WaveLimit
  BY DEF Start
<1>2. /\ status' \in States /\ status'[n] = "running" /\ wave'[n] = waves /\ seen'[n] = context
      /\ wave[n] = 0 /\ waves # 0 /\ ~Decided(status, n)
      /\ \A m \in Nodes : m # n => status'[m] = status[m] /\ wave'[m] = wave[m] /\ seen'[m] = seen[m]
  BY <1>0, <1>1 DEF States, NodeStates, NodeOK, WaveOK, Decided
<1>3. WorkflowTypes'
  BY <1>0, <1>1, <1>2 DEF WorkflowInv, WorkflowTypes, States
<1>4. PhaseOK'
  <2>1. ValidGraph(graph)'
    BY <1>0, <1>1, Zenon DEF ValidGraph
  <2> QED BY <2>1, <1>0, <1>1 DEF PhaseOK
<1>5. ASSUME NEW m \in Nodes, status[m] # "pending" \/ m \in ready
      PROVE  /\ Incoming(graph, m)' = Incoming(graph, m)
             /\ \A e \in Incoming(graph, m) :
                   /\ e[1] \in Nodes /\ e[1] # n
                   /\ Decided(status, e[1]) /\ Decided(status, e[1])'
                   /\ m \in ready => e[1] \notin ready
             /\ Reached(status, m)' <=> Reached(status, m)
  BY <1>0, <1>1, <1>2, <1>5, UnsettledIsNoSource
<1>6. ASSUME NEW m \in Nodes PROVE NodeOK(m)'
  <2>1. CASE status[m] # "pending" \/ m \in ready
    <3>1. NodeOK(m)
      BY <1>0
    <3>2. /\ Incoming(graph, m)' = Incoming(graph, m)
          /\ \A e \in Incoming(graph, m) :
                Decided(status, e[1])' /\ (m \in ready => e[1] \notin ready)
          /\ Reached(status, m)' <=> Reached(status, m)
          /\ graph' = graph /\ ready' = ready
      BY <1>1, <1>5, <2>1
    <3>3. CASE m = n
      <4>1. status'[m] = "running" /\ wave'[m] # 0 /\ m \in ready
        BY <1>0, <1>2, <3>3
      <4>2. Incoming(graph, m) = {} \/ Reached(status, m)
        BY <3>1, <4>1 DEF NodeOK
      <4> QED BY <3>2, <4>1, <4>2 DEF NodeOK
    <3>4. CASE m # n
      <4>1. status'[m] = status[m] /\ wave'[m] = wave[m]
        BY <1>2, <3>4
      <4> QED BY <3>1, <3>2, <4>1 DEF NodeOK
    <3> QED BY <3>3, <3>4
  <2>2. CASE status[m] = "pending" /\ m \notin ready
    <3>1. status'[m] = "pending" /\ wave'[m] = wave[m] /\ NodeOK(m)
      BY <1>0, <1>2, <2>2
    <3> QED BY <3>1, <2>2, <1>1 DEF NodeOK
  <2> QED BY <2>1, <2>2
<1>7. \A m \in Nodes : wave[m] # 0 => wave'[m] = wave[m]
  BY <1>2
<1>8. ASSUME NEW m \in Nodes PROVE SeenOK(m)'
  <2>1. CASE m = n
    <3>1. context # 0 => context \in wrote \ ready /\ wave[context] # 0 /\ wave[context] < waves
      BY <1>0 DEF ContextOK, WaveOK
    <3>2. context # 0 => wave'[context] # 0 /\ wave'[context] < waves
      BY <3>1, <1>0, <1>7
    <3>3. ASSUME NEW e \in Incoming(graph, n), e[1] \in wrote
          PROVE  context # 0 /\ wave'[context] >= wave'[e[1]]
      <4>1. e[1] \in Nodes /\ e[1] \in wrote \ ready /\ e[1] # n
        BY <1>0, <1>5, <3>3
      <4>2. context \in wrote \ ready /\ context # 0
        BY <4>1, <1>0, NodesAreFinite DEF ContextOK
      <4>3. wave[e[1]] <= wave[context]
        BY <4>1, <4>2, <1>0 DEF ContextOK
      <4> QED BY <4>1, <4>2, <4>3, <3>1, <1>0, <1>2, <1>7
    <3> QED BY <2>1, <3>2, <3>3, <1>0, <1>1, <1>2, <1>5 DEF SeenOK
  <2>2. CASE m # n
    <3> SUFFICES ASSUME wave'[m] # 0 PROVE SeenOK(m)'
      BY DEF SeenOK
    <3>1. wave[m] # 0 /\ wave'[m] = wave[m] /\ seen'[m] = seen[m] /\ SeenOK(m) /\ status[m] # "pending"
      BY <1>0, <1>2, <2>2 DEF NodeOK
    <3>2. seen[m] # 0 => seen[m] \in Nodes /\ wave'[seen[m]] = wave[seen[m]]
      BY <3>1, <1>0, <1>7 DEF SeenOK
    <3>3. \A e \in Incoming(graph, m) : wave'[e[1]] = wave[e[1]]
      BY <3>1, <1>2, <1>5
    <3>4. Incoming(graph, m)' = Incoming(graph, m)
      BY <3>1, <1>5
    <3> QED BY <3>1, <3>2, <3>3, <3>4, <1>1 DEF SeenOK
  <2> QED BY <2>1, <2>2
<1>9. WaveOK'
  <2>1. Executed' \ ready' = Executed \ ready
    BY <1>0, <1>1, <1>2 DEF Executed
  <2>2. ASSUME NEW m \in Nodes
        PROVE  /\ wave'[m] <= waves
               /\ m \in ready /\ wave'[m] # 0 => wave'[m] = waves
               /\ m \notin ready => wave'[m] < waves
    <3>1. CASE m = n
      BY <3>1, <1>0, <1>2
    <3>2. CASE m # n
      BY <3>2, <1>0, <1>2 DEF WaveOK
    <3> QED BY <3>1, <3>2
  <2> QED BY <2>1, <2>2, <1>0, <1>1 DEF WaveOK
<1>10. LimitOK'
  <2>1. Running' = Running \cup {n} /\ n \notin Running
    BY <1>0, <1>1, <1>2 DEF Running
  <2>2. Cardinality(Running') = Cardinality(Running) + 1
    BY <2>1, RunningIsFinite, FS_AddElement
  <2>3. Cardinality(Running') <= WaveLimit
    BY <2>2, <1>0, <1>1, RunningIsFinite, WaveLimitIsLimit
  <2>4. MaxConcurrency \in Nat /\ graph.limit \in Nat /\ WaveLimit \in Nat /\ Cardinality(Running') \in Nat
    BY <2>2, <1>0, RunningIsFinite, WaveLimitIsLimit, GraphFacts, GraphAssumption
  <2>5. Cardinality(Running') <= MaxConcurrency
    BY <2>3, <2>4, <1>0, WaveLimitIsLimit
  <2>6. ASSUME NEW e \in graph.edges,
               graph.type[e[1]] = "parallel", status'[e[1]] # "SKIPPED", e[2] \in ready
        PROVE  Cardinality(Running') <= graph.limit
    <3>1. e[1] \in Nodes /\ e[2] \in Nodes /\ e \in Incoming(graph, e[2])
      BY <1>0, GraphFacts DEF Incoming
    <3>2. status[e[1]] = status'[e[1]]
      BY <3>1, <2>6, <1>2, <1>5
    <3>3. WaveLimit <= graph.limit
      BY <3>2, <2>6, <1>0, WaveLimitIsLimit
    <3> QED BY <3>3, <2>3, <2>4
  <2> QED BY <2>5, <2>6, <1>1 DEF LimitOK
<1>11. ContextOK'
  <2>1. \A m \in wrote : m \in Nodes /\ m # n /\ wave'[m] = wave[m] /\ status'[m] = status[m]
    BY <1>0, <1>2 DEF ContextOK
  <2>2. context \in wrote \ ready => wave'[context] = wave[context]
    BY <2>1
  <2> QED BY <2>1, <2>2, <1>0, <1>1 DEF ContextOK
<1> QED BY <1>3, <1>4, <1>6, <1>8, <1>9, <1>10, <1>11 DEF WorkflowInv, ExecutionOK

LEMMA FinishKeeps ==
    ASSUME WorkflowInv, NEW n \in Nodes, Finish(n) PROVE WorkflowInv'
<1>0. /\ graph \in Graphs /\ status \in States /\ phase = "wave" /\ n \in ready
      /\ status[n] = "running" /\ runs = 0 /\ ready \in SUBSET Nodes
      /\ waves \in Nat /\ wave \in [Nodes -> Nat] /\ wrote \in SUBSET Nodes
      /\ branch \in [Nodes -> {"none", "true", "false"}] /\ wave[n] # 0
      /\ \A m \in Nodes : NodeOK(m) /\ SeenOK(m)
      /\ WaveOK /\ ContextOK /\ LimitOK /\ ValidGraph(graph)
  BY DEF WorkflowInv, WorkflowTypes, PhaseOK, ExecutionOK, States, Finish, NodeOK
<1>1. PICK o \in Outcome(n) :
          /\ status' = [status EXCEPT ![n] = o.status]
          /\ branch' = [branch EXCEPT ![n] = o.branch]
          /\ wrote' = IF o.writes THEN wrote \cup {n} ELSE wrote
  BY DEF Finish
<1>2. UNCHANGED <<graph, phase, context, ready, seen, wave, waves, stored, runs>>
  BY DEF Finish
<1>3. PICK x \in {"SUCCEEDED", "FAILED"}, b \in {"none", "true", "false"} : x = o.status /\ b = o.branch
  <2>1. graph.type[n] \in Types
    BY <1>0, GraphFacts
  <2> QED BY <2>1 DEF Outcome, Types
<1>4. /\ status' \in States /\ status'[n] = x /\ ~Decided(status, n)
      /\ branch' \in [Nodes -> {"none", "true", "false"}]
      /\ wrote' \in SUBSET Nodes /\ wrote \subseteq wrote' /\ wrote' \subseteq wrote \cup {n}
      /\ \A m \in Nodes : m # n => status'[m] = status[m] /\ branch'[m] = branch[m]
  BY <1>0, <1>1, <1>3 DEF States, NodeStates, Decided
<1>5. WorkflowTypes'
  BY <1>0, <1>2, <1>4 DEF WorkflowInv, WorkflowTypes, States
<1>6. PhaseOK'
  <2>1. ValidGraph(graph)'
    BY <1>0, <1>2, Zenon DEF ValidGraph
  <2> QED BY <2>1, <1>0, <1>2 DEF PhaseOK
<1>7. ASSUME NEW m \in Nodes, status[m] # "pending" \/ m \in ready
      PROVE  /\ Incoming(graph, m)' = Incoming(graph, m)
             /\ \A e \in Incoming(graph, m) :
                   /\ e[1] \in Nodes /\ e[1] # n
                   /\ Decided(status, e[1]) /\ Decided(status, e[1])'
                   /\ m \in ready => e[1] \notin ready
             /\ Reached(status, m)' <=> Reached(status, m)
  BY <1>0, <1>2, <1>4, <1>7, UnsettledIsNoSource
<1>8. ASSUME NEW m \in Nodes PROVE NodeOK(m)'
  <2>1. CASE status[m] # "pending" \/ m \in ready
    <3>1. NodeOK(m)
      BY <1>0
    <3>2. m # n => status'[m] = status[m]
      BY <1>4
    <3> QED BY <2>1, <3>1, <3>2, <1>0, <1>2, <1>3, <1>4, <1>7 DEF NodeOK
  <2>2. CASE status[m] = "pending" /\ m \notin ready
    <3>1. status'[m] = "pending" /\ NodeOK(m)
      BY <1>0, <1>4, <2>2
    <3> QED BY <3>1, <2>2, <1>2 DEF NodeOK
  <2> QED BY <2>1, <2>2
<1>9. ASSUME NEW m \in Nodes PROVE SeenOK(m)'
  <2> SUFFICES ASSUME wave[m] # 0 PROVE SeenOK(m)'
    BY <1>2 DEF SeenOK
  <2>1. SeenOK(m) /\ status[m] # "pending"
    BY <1>0 DEF NodeOK
  <2>2. \A e \in Incoming(graph, m) : e[1] \in wrote' => e[1] \in wrote
    BY <2>1, <1>4, <1>7
  <2>3. Incoming(graph, m)' = Incoming(graph, m)
    BY <2>1, <1>7
  <2> QED BY <2>1, <2>2, <2>3, <1>2 DEF SeenOK
<1>10. WaveOK'
  <2>1. Executed' = Executed
    BY <1>2 DEF Executed
  <2> QED BY <2>1, <1>0, <1>2 DEF WaveOK
<1>11. LimitOK'
  <2>1. Running' \subseteq Running
    BY <1>3, <1>4 DEF Running
  <2>2. Cardinality(Running') <= Cardinality(Running) /\ Cardinality(Running') \in Nat
    BY <2>1, RunningIsFinite, FS_Subset, FS_CardinalityType
  <2>3. MaxConcurrency \in Nat /\ graph.limit \in Nat
    BY <1>0, GraphFacts, GraphAssumption
  <2>4. Cardinality(Running') <= MaxConcurrency
    BY <2>2, <2>3, <1>0, RunningIsFinite DEF LimitOK
  <2>5. ASSUME NEW e \in graph.edges,
               graph.type[e[1]] = "parallel", status'[e[1]] # "SKIPPED", e[2] \in ready
        PROVE  Cardinality(Running') <= graph.limit
    <3>1. e[1] \in Nodes
      BY <1>0, GraphFacts
    <3>2. status[e[1]] # "SKIPPED"
      BY <3>1, <2>5, <1>0, <1>4
    <3> QED BY <3>2, <2>5, <2>2, <2>3, <1>0, RunningIsFinite DEF LimitOK
  <2> QED BY <2>4, <2>5, <1>2 DEF LimitOK
<1>12. ContextOK'
  <2>1. wrote' \ ready = wrote \ ready
    BY <1>0, <1>4
  <2>2. \A m \in wrote' : wave[m] # 0 /\ status'[m] # "running"
    BY <1>0, <1>3, <1>4 DEF ContextOK
  <2> QED BY <2>1, <2>2, <1>0, <1>2 DEF ContextOK
<1> QED BY <1>5, <1>6, <1>8, <1>9, <1>10, <1>11, <1>12 DEF WorkflowInv, ExecutionOK

LEMMA GreatestNode ==
    ASSUME NEW S \in SUBSET Nodes, S # {}
    PROVE  \E n \in S : \A m \in S : m <= n
<1> USE NodesAreFinite
<1> DEFINE D == {d \in Nat : NodeCount - d \in S}
<1>1. \A n \in S : n \in Nat /\ n <= NodeCount /\ NodeCount - n \in D
  BY DEF Nodes
<1>2. PICK d \in D : \A c \in D : d <= c
  <2>1. D \in SUBSET Nat /\ D # {}
    BY <1>1
  <2> HIDE DEF D
  <2> QED BY <2>1, LeastNumber
<1>3. NodeCount - d \in S /\ \A m \in S : m <= NodeCount - d
  BY <1>1, <1>2
<1> QED BY <1>3

LEMMA EndWaveKeeps ==
    ASSUME WorkflowInv, EndWave PROVE WorkflowInv'
<1>0. /\ graph \in Graphs /\ status \in States /\ phase = "wave" /\ ready # {} /\ runs = 0
      /\ ready \in SUBSET Nodes /\ waves \in Nat /\ wave \in [Nodes -> Nat] /\ wrote \in SUBSET Nodes
      /\ \A m \in Nodes : NodeOK(m) /\ SeenOK(m)
      /\ WaveOK /\ ContextOK /\ LimitOK /\ ValidGraph(graph)
      /\ context \in Nodes \cup {0}
  BY DEF WorkflowInv, WorkflowTypes, PhaseOK, ExecutionOK, States, EndWave, WaveOK
<1>1. /\ ready' = {} /\ phase' = "schedule" /\ \A n \in ready : Decided(status, n)
      /\ UNCHANGED <<graph, status, branch, wrote, seen, wave, waves, stored, runs>>
  BY DEF EndWave
<1>2. \A n \in ready : status[n] \in {"SUCCEEDED", "FAILED"} /\ wave[n] # 0 /\ wave[n] = waves
  BY <1>0, <1>1 DEF Decided, NodeOK, WaveOK
<1>3. PICK c \in Nodes \cup {0} :
          /\ c = context'
          /\ ready \cap wrote = {} => c = context
          /\ ready \cap wrote # {} => c \in ready \cap wrote /\ \A m \in ready \cap wrote : m <= c
  <2>1. CASE ready \cap wrote = {}
    BY <2>1, <1>0 DEF EndWave
  <2>2. CASE ready \cap wrote # {}
    <3>1. \E n \in ready \cap wrote : \A m \in ready \cap wrote : m <= n
      <4>1. ready \cap wrote \in SUBSET Nodes
        BY <1>0
      <4> QED BY <4>1, <2>2, GreatestNode
    <3>2. context' = CHOOSE n \in ready \cap wrote : \A m \in ready \cap wrote : m <= n
      BY <2>2 DEF EndWave
    <3>3. context' \in ready \cap wrote /\ \A m \in ready \cap wrote : m <= context'
      BY <3>1, <3>2
    <3> QED BY <3>3, <2>2, <1>0
  <2> QED BY <2>1, <2>2
<1>4. WorkflowTypes'
  BY <1>0, <1>1, <1>3 DEF WorkflowInv, WorkflowTypes, Phases
<1>5. PhaseOK'
  <2>1. ValidGraph(graph)'
    BY <1>0, <1>1, Zenon DEF ValidGraph
  <2> QED BY <2>1, <1>0, <1>1 DEF PhaseOK
<1>6. ASSUME NEW m \in Nodes PROVE NodeOK(m)' /\ SeenOK(m)'
  <2>1. /\ Incoming(graph, m)' = Incoming(graph, m)
        /\ Reached(status, m)' <=> Reached(status, m)
        /\ \A e \in Incoming(graph, m) : Decided(status, e[1])' <=> Decided(status, e[1])
    BY <1>1 DEF Incoming, Reached, EdgeActive, Decided
  <2>2. status[m] # "running"
    BY <1>0, <1>2 DEF NodeOK
  <2>3. NodeOK(m)'
    BY <2>1, <2>2, <1>0, <1>1 DEF NodeOK
  <2>4. SeenOK(m)'
    BY <2>1, <1>0, <1>1 DEF SeenOK
  <2> QED BY <2>3, <2>4
<1>7. WaveOK'
  <2>1. PICK r \in ready : r \in Nodes
    BY <1>0
  <2>2. r \in Executed /\ Executed \in SUBSET Nodes
    BY <2>1, <1>2 DEF Executed
  <2>3. IsFiniteSet(Executed) /\ Cardinality(Executed) \in Nat
        /\ IsFiniteSet(Executed \ {r}) /\ Cardinality(Executed \ {r}) = Cardinality(Executed) - 1
    BY <2>2, NodesAreFinite, FS_Subset, FS_CardinalityType, FS_RemoveElement
  <2>4. Cardinality(Executed \ ready) <= Cardinality(Executed \ {r}) /\ Cardinality(Executed \ ready) \in Nat
    <3>1. Executed \ ready \subseteq Executed \ {r}
      BY <2>1
    <3> QED BY <3>1, <2>3, FS_Subset, FS_CardinalityType
  <2>5. waves <= Cardinality(Executed \ ready) + 1
    BY <1>0 DEF WaveOK
  <2>6. waves <= Cardinality(Executed)
    BY <2>3, <2>4, <2>5, <1>0
  <2>7. Executed' \ ready' = Executed
    BY <1>1 DEF Executed
  <2>8. waves' <= Cardinality(Executed' \ ready') + 0
    BY <2>3, <2>6, <2>7, <1>1
  <2> QED BY <2>8, <1>0, <1>1 DEF WaveOK
<1>8. LimitOK'
  <2>1. Running' = Running
    BY <1>1 DEF Running
  <2> QED BY <2>1, <1>0, <1>1 DEF LimitOK
<1>9. ContextOK'
  <2>1. \A m \in wrote : wave[m] \in Nat /\ m \in Nodes /\ (m \notin ready => wave[m] < waves)
    BY <1>0 DEF WaveOK
  <2>2. CASE ready \cap wrote = {}
    <3>1. wrote' \ ready' = wrote \ ready /\ c = context
      BY <2>2, <1>1, <1>3
    <3> QED BY <3>1, <1>0, <1>1, <1>3 DEF ContextOK
  <2>3. CASE ready \cap wrote # {}
    <3>1. c \in ready \cap wrote /\ wave[c] = waves /\ \A m \in ready \cap wrote : m <= c
      BY <2>3, <1>2, <1>3
    <3>2. wrote' \ ready' = wrote /\ wrote # {}
      BY <1>1, <3>1
    <3>3. ASSUME NEW m \in wrote PROVE wave[m] < wave[c] \/ (wave[m] = wave[c] /\ m <= c)
      <4>1. CASE m \in ready
        BY <4>1, <3>1, <1>2
      <4>2. CASE m \notin ready
        BY <4>2, <3>1, <2>1
      <4> QED BY <4>1, <4>2
    <3> QED BY <3>1, <3>2, <3>3, <1>0, <1>1, <1>3 DEF ContextOK
  <2> QED BY <2>2, <2>3
<1> QED BY <1>4, <1>5, <1>6, <1>7, <1>8, <1>9 DEF WorkflowInv, ExecutionOK

LEMMA WorkflowSteps ==
    ASSUME WorkflowInv, [WorkflowNext]_workflowVars PROVE WorkflowInv'
<1>1. CASE UNCHANGED workflowVars
  <2> USE <1>1 DEF workflowVars, WorkflowInv
  <2>1. WorkflowTypes'
    BY DEF WorkflowTypes
  <2>2. ValidGraph(graph)' <=> ValidGraph(graph)
    BY Zenon DEF ValidGraph
  <2>3. PhaseOK'
    BY <2>2 DEF PhaseOK
  <2>4. phase # "debugged" => ExecutionOK'
    BY ExecutionStays
  <2> QED BY <2>1, <2>3, <2>4
<1>2. CASE Validate
  BY <1>2, ValidateKeeps
<1>3. CASE Schedule
  BY <1>3, ScheduleKeeps
<1>4. CASE EndGraph
  BY <1>4, EndGraphKeeps
<1>5. CASE EndWave
  BY <1>5, EndWaveKeeps
<1>6. CASE SaveRun
  BY <1>6, SaveRunKeeps
<1>7. ASSUME NEW n \in Nodes, Start(n) PROVE WorkflowInv'
  BY <1>7, StartKeeps
<1>8. ASSUME NEW n \in Nodes, Finish(n) PROVE WorkflowInv'
  BY <1>8, FinishKeeps
<1>9. ASSUME NEW n \in Nodes, Debug(n) PROVE WorkflowInv'
  BY <1>9, DebugKeeps
<1>10. CASE DeleteWorkflow
  BY <1>10, DeleteWorkflowKeeps
<1> QED BY <1>1, <1>2, <1>3, <1>4, <1>5, <1>6, <1>7, <1>8, <1>9, <1>10 DEF WorkflowNext, Execute, Ended

LEMMA WorkflowInvHolds == WorkflowSpec => []WorkflowInv
<1>1. WorkflowInit => WorkflowInv
  BY WorkflowStarts
<1>2. WorkflowInv /\ [WorkflowNext]_workflowVars => WorkflowInv'
  BY WorkflowSteps
<1> QED BY <1>1, <1>2, PTL DEF WorkflowSpec

LEMMA InvDecides == ASSUME WorkflowInv PROVE ValidationDecides
<1>1. ValidationIsExact
  BY ValidIsAcyclic DEF WorkflowInv, WorkflowTypes, PhaseOK, ValidationIsExact
<1>2. NothingStaysPending
  <2> SUFFICES ASSUME phase = "stuck"
               PROVE  /\ \A n \in Nodes : status[n] \notin {"pending", "running"}
                      /\ \E n \in Nodes : status[n] = "SKIPPED"
    BY DEF NothingStaysPending
  <2> QED BY NothingRuns DEF WorkflowInv, PhaseOK
<1> QED BY <1>1, <1>2 DEF ValidationDecides

LEMMA InvIsDeterministic == ASSUME WorkflowInv PROVE WavesAreDeterministic
<1>0. WorkflowTypes /\ PhaseOK /\ (phase # "debugged" => ExecutionOK)
  BY DEF WorkflowInv
<1>1. graph \in Graphs /\ graph.limit \in Nat \ {0} /\ MaxConcurrency \in Nat \ {0}
  BY <1>0, GraphFacts, GraphAssumption DEF WorkflowTypes
<1>2. WorkflowTypeOK
  <2>1. waves \in 0..(NodeCount + 1)
    <3>1. CASE phase = "debugged"
      BY <3>1, <1>0, NodesAreFinite DEF PhaseOK
    <3>2. CASE phase # "debugged"
      <4>1. Executed \ ready \in SUBSET Nodes
        BY DEF Executed
      <4>2. Cardinality(Executed \ ready) <= NodeCount /\ Cardinality(Executed \ ready) \in Nat
        BY <4>1, NodesAreFinite, FS_Subset, FS_CardinalityType
      <4>3. waves <= Cardinality(Executed \ ready) + 1
        BY <3>2, <1>0, <4>2 DEF ExecutionOK, WaveOK, WorkflowTypes
      <4> QED BY <4>2, <4>3, <1>0, NodesAreFinite DEF WorkflowTypes
    <3> QED BY <3>1, <3>2
  <2> QED BY <2>1, <1>0 DEF WorkflowTypeOK, WorkflowTypes, NodeStates
<1>3. WaveIsBounded
  <2>1. Cardinality(Running) <= MaxConcurrency
    <3>1. CASE phase = "debugged"
      <4>1. Running = {}
        BY <3>1, <1>0 DEF Running, PhaseOK
      <4> QED BY <4>1, <1>1, FS_EmptySet
    <3> QED BY <3>1, <1>0 DEF ExecutionOK, LimitOK
  <2>2. ASSUME NEW p \in Nodes, graph.type[p] = "parallel", status[p] # "SKIPPED"
        PROVE  Cardinality({n \in Running : \E e \in graph.edges : e[1] = p /\ e[2] = n}) <= graph.limit
    <3> DEFINE B == {n \in Running : \E e \in graph.edges : e[1] = p /\ e[2] = n}
    <3>1. CASE B = {}
      BY <3>1, <1>1, FS_EmptySet
    <3>2. CASE B # {}
      <4>1. PICK n \in Running : \E e \in graph.edges : e[1] = p /\ e[2] = n
        BY <3>2
      <4>2. PICK e \in graph.edges : e[1] = p /\ e[2] = n
        BY <4>1
      <4>3. phase # "debugged" /\ n \in ready
        BY <4>1, <1>0 DEF Running, PhaseOK, ExecutionOK, NodeOK
      <4>4. Cardinality(Running) <= graph.limit
        BY <4>2, <4>3, <2>2, <1>0 DEF ExecutionOK, LimitOK
      <4>5. Cardinality(B) <= Cardinality(Running) /\ Cardinality(B) \in Nat
        <5>1. B \subseteq Running
          OBVIOUS
        <5> HIDE DEF B
        <5> QED BY <5>1, RunningIsFinite, FS_Subset, FS_CardinalityType
      <4> HIDE DEF B
      <4>6. Cardinality(B) <= graph.limit
        BY <4>4, <4>5, <1>1, RunningIsFinite
      <4> QED BY <4>6 DEF B
    <3> QED BY <3>1, <3>2
  <2> QED BY <2>1, <2>2 DEF WaveIsBounded
<1>4. UpstreamIsSeen
  <2> SUFFICES ASSUME NEW n \in Nodes, wave[n] > 0
               PROVE  /\ \A e \in Incoming(graph, n) :
                            e[1] \in wrote => seen[n] # 0 /\ wave[seen[n]] >= wave[e[1]]
                      /\ seen[n] # 0 => wave[seen[n]] < wave[n]
    BY DEF UpstreamIsSeen
  <2>1. phase # "debugged" /\ wave[n] # 0
    BY <1>0 DEF PhaseOK, WorkflowTypes
  <2> QED BY <2>1, <1>0 DEF ExecutionOK, SeenOK
<1>5. FinishOrderIsInvisible
  <2> SUFFICES ASSUME phase \in {"schedule", "save"}
               PROVE  /\ wrote # {} => context \in wrote
                      /\ \A n \in wrote : wave[n] < wave[context]
                                          \/ (wave[n] = wave[context] /\ n <= context)
    BY DEF FinishOrderIsInvisible
  <2>1. ready = {} /\ ContextOK
    BY <1>0 DEF PhaseOK, ExecutionOK
  <2> QED BY <2>1 DEF ContextOK
<1> QED BY <1>2, <1>3, <1>4, <1>5 DEF WavesAreDeterministic

LEMMA InvIsComplete == ASSUME WorkflowInv PROVE ExecutedIfReached /\ RunsHaveWorkflow
<1>1. ExecutedIfReached
  <2> SUFFICES ASSUME phase \in {"save", "saved", "lost", "stuck"}, NEW n \in Nodes
               PROVE  status[n] # "SKIPPED" <=> Incoming(graph, n) = {} \/ Reached(status, n)
    BY DEF ExecutedIfReached, Reached
  <2>1. NodeOK(n) /\ status[n] \in {"SUCCEEDED", "FAILED", "SKIPPED"}
    BY NothingRuns DEF WorkflowInv, WorkflowTypes, PhaseOK, ExecutionOK, NodeStates
  <2> QED BY <2>1 DEF NodeOK
<1>2. RunsHaveWorkflow
  BY DEF WorkflowInv, WorkflowTypes, PhaseOK, RunsHaveWorkflow
<1> QED BY <1>1, <1>2

\* validate_workflow_graph accepts exactly the acyclic graphs whose edges fit
\* their sources, and _run_graph leaves no node of such a graph pending: for
\* every number of nodes, every graph and every outcome of its nodes.
THEOREM ValidationIsDecisive == WorkflowSpec => []ValidationDecides
BY WorkflowInvHolds, InvDecides, PTL

\* Waves stay within the limits of the executor and of parallel nodes, and the
\* variables do not depend on the order in which the threads of a wave finish.
THEOREM WavesStayDeterministic == WorkflowSpec => []WavesAreDeterministic
BY WorkflowInvHolds, InvIsDeterministic, PTL

\* The safety part of ExecutionIsComplete: a workflow ends with the nodes
\* executed that are reached and no others, and a run that is stored has its
\* workflow.
THEOREM ReachedIsExecuted == WorkflowSpec => [](ExecutedIfReached /\ RunsHaveWorkflow)
BY WorkflowInvHolds, InvIsComplete, PTL

-----------------------------------------------------------------------------
(* Operating the platform from its pages (PlatformOperations), for any set *)
(* of paths and any number of requests and faults.  Publishing first.      *)

\* The invariant behind publish: what has been committed has passed the check,
\* and between the check and the commit the index does not change.
PublishInv ==
    /\ local \cap Sensitive = {} /\ remote \cap Sensitive = {}
    /\ git = "commit" => index \cap Sensitive = {}

\* Everything but the git commands leaves commits and the index alone, and
\* either lets the operation go on or ends it.
LEMMA OthersLeaveGit ==
    ASSUME PublishInv,
           UNCHANGED <<index, local, remote>>, git' \in {git, "idle"}
    PROVE  PublishInv'
BY DEF PublishInv

LEMMA PublishStep == ASSUME PublishInv, [OperationsNext]_operationsVars PROVE PublishInv'
<1>1. CASE UNCHANGED operationsVars
  BY <1>1, OthersLeaveGit DEF operationsVars, repository
<1>2. ASSUME NEW S \in SUBSET Services, RestartService(S) PROVE PublishInv'
  BY <1>2, OthersLeaveGit DEF RestartService, repository
<1>3. ASSUME NEW r \in Requests, ComesDue(r) PROVE PublishInv'
  BY <1>3, OthersLeaveGit DEF ComesDue, repository
<1>4. CASE HeartbeatAges
  BY <1>4, OthersLeaveGit DEF HeartbeatAges, repository
<1>5. CASE Launch
  BY <1>5, OthersLeaveGit DEF Launch, repository
<1>6. CASE Supervise
  <2>1. CASE EnsureChildrenRunning
    BY <2>1, OthersLeaveGit DEF EnsureChildrenRunning, repository
  <2>2. CASE TryWriteHeartbeat
    BY <2>2, OthersLeaveGit DEF TryWriteHeartbeat, repository
  <2>3. CASE ClaimRequest
    BY <2>3, OthersLeaveGit DEF ClaimRequest, repository
  <2>4. CASE NotDue
    BY <2>4, OthersLeaveGit DEF NotDue, repository
  <2>5. ASSUME NEW k \in SUBSET Services, RestartStops(k) PROVE PublishInv'
    BY <2>5, OthersLeaveGit DEF RestartStops, Stopped
  <2>6. CASE RestartStarts
    BY <2>6, OthersLeaveGit DEF RestartStarts, repository
  <2>7. CASE Unlink
    BY <2>7, OthersLeaveGit DEF Unlink, repository
  <2> QED BY <1>6, <2>1, <2>2, <2>3, <2>4, <2>5, <2>6, <2>7 DEF Supervise
<1>7. CASE Crash
  BY <1>7, OthersLeaveGit DEF Crash, repository
<1>8. ASSUME NEW k \in SUBSET Services, Shutdown(k) PROVE PublishInv'
  BY <1>8, OthersLeaveGit DEF Shutdown, Stopped
<1>9. ASSUME NEW s \in Services, ServiceEnds(s) PROVE PublishInv'
  BY <1>9, OthersLeaveGit DEF ServiceEnds
<1>10. CASE Begin
  BY <1>10 DEF Begin, Unchanged, PublishInv
<1>11. CASE Pull
  BY <1>11 DEF Pull, Git, PublishInv
<1>12. CASE Add
  BY <1>12 DEF Add, Git, PublishInv
<1>13. CASE CheckStaged
  BY <1>13 DEF CheckStaged, Git, Unchanged, PublishInv
<1>14. CASE UnstageAll
  BY <1>14 DEF UnstageAll, Git, PublishInv
<1>15. CASE CommitStaged
  BY <1>15 DEF CommitStaged, Git, PublishInv
<1>16. CASE Push
  BY <1>16 DEF Push, Git, PublishInv
<1>17. CASE CommandFails
  BY <1>17, OthersLeaveGit DEF CommandFails
<1>18. CASE ScheduleRestart
  BY <1>18, OthersLeaveGit DEF ScheduleRestart, Git, Unchanged
<1>19. CASE Edit
  BY <1>19, OthersLeaveGit DEF Edit
<1> QED
  BY <1>1, <1>2, <1>3, <1>4, <1>5, <1>6, <1>7, <1>8, <1>9, <1>10, <1>11, <1>12,
     <1>13, <1>14, <1>15, <1>16, <1>17, <1>18, <1>19 DEF OperationsNext

\* publish goes on to its restart only by a push that took everything along.
LEMMA OnlyPushFinishes ==
    ASSUME [OperationsNext]_operationsVars, git \in {"commit", "push"}, git' = "schedule"
    PROVE  local' \subseteq remote'
<1>1. git # git'
  OBVIOUS
<1>2. ~ UNCHANGED repository
  BY <1>1 DEF repository
<1>3. ~ (\E S \in SUBSET Services \ {{}} : RestartService(S)) /\ ~ (\E r \in Requests : ComesDue(r))
  BY <1>2 DEF RestartService, ComesDue
<1>4. ~ HeartbeatAges /\ ~ Launch /\ ~ Crash
  BY <1>2 DEF HeartbeatAges, Launch, Crash
<1>5. ~ Supervise
  BY <1>1, <1>2 DEF Supervise, EnsureChildrenRunning, TryWriteHeartbeat, ClaimRequest, NotDue,
        RestartStops, Stopped, RestartStarts, Unlink
<1>6. ~ (\E k \in SUBSET Services : Shutdown(k)) /\ ~ (\E s \in Services : ServiceEnds(s))
  BY <1>1 DEF Shutdown, Stopped, ServiceEnds
<1>7. ~ Begin /\ ~ Pull /\ ~ Add /\ ~ CheckStaged /\ ~ UnstageAll /\ ~ CommitStaged
  BY DEF Begin, Pull, Add, CheckStaged, UnstageAll, CommitStaged, Git
<1>8. ~ CommandFails /\ ~ ScheduleRestart /\ ~ Edit
  BY <1>1 DEF CommandFails, ScheduleRestart, Edit, Git
<1>9. Push
  BY <1>2, <1>3, <1>4, <1>5, <1>6, <1>7, <1>8 DEF OperationsNext, operationsVars
<1> QED
  BY <1>9 DEF Push

\* What VersionControlService.publish brings to origin, whatever fails, is
\* killed or is edited while it runs: nothing sensitive, and on success
\* everything that has been committed.
THEOREM PublishingIsSound == OperationsSpec => PublishIsSound
<1>1. OperationsInit => PublishInv
  BY DEF OperationsInit, PublishInv
<1>2. PublishInv /\ [OperationsNext]_operationsVars => PublishInv'
  BY PublishStep
<1>3. PublishInv => NothingSensitivePublished
  BY DEF PublishInv, NothingSensitivePublished
<1>4. [OperationsNext]_operationsVars => [(git \in {"commit", "push"} /\ git' = "schedule") => (local' \subseteq remote')]_operationsVars
  BY OnlyPushFinishes
<1> QED
  BY <1>1, <1>2, <1>3, <1>4, PTL DEF OperationsSpec, PublishIsSound, PublishedIsPushed

-----------------------------------------------------------------------------
(* Restart requests.                                                       *)

\* Where an accepted request can be: what the supervisor holds is also in the
\* claimed file; when it has stopped the services none of them is left as its
\* child, and when it has started them they are younger than the request.
RequestInv ==
    /\ request \in {None} \cup 1..accepted
    /\ processing \in {None, Garbage} \cup 1..accepted
    /\ pending # None => pending = processing /\ pending \in 1..accepted
    /\ sup \in {"start", "unlink"} => pending # None
    /\ sup = "start" => \A s \in target[pending] : server[s] # "child"
    /\ sup = "unlink" => \A s \in target[pending] : server[s] = "child" => born[s] >= pending

OperationsInv == OperationsTypeOK /\ RequestInv /\ RequestIsNeverLost

LEMMA Bounds ==
    /\ MaxRequests \in Nat /\ MaxRequestsWithGit \in Nat /\ MaxFaults \in Nat
    /\ MaxRequestsWithGit <= MaxRequests /\ Sensitive \subseteq Paths
BY OperationsAssumption

LEMMA FaultCounts ==
    ASSUME OperationsTypeOK, Fault \/ UNCHANGED faults PROVE faults' \in 0..MaxFaults
BY Bounds DEF OperationsTypeOK, Fault

\* Steps of version control and of the clocks leave the requests alone.
LEMMA RequestsLeftAlone ==
    ASSUME OperationsInv,
           UNCHANGED <<sup, pending, handle, server, born, request, processing, target, accepted, replaced, dropped>>,
           due' \in SUBSET Requests, heartbeat' \in BOOLEAN, UNCHANGED enabled,
           git' \in {"idle", "pull", "add", "check", "unstage", "commit", "push", "schedule"},
           {work, index, local, remote}' \subseteq SUBSET Paths, behind' \in BOOLEAN,
           Fault \/ UNCHANGED faults
    PROVE  OperationsInv'
<1>1. OperationsTypeOK'
  BY FaultCounts DEF OperationsInv, OperationsTypeOK
<1>2. RequestInv' /\ RequestIsNeverLost'
  BY DEF OperationsInv, RequestInv, RequestIsNeverLost, None
<1> QED BY <1>1, <1>2 DEF OperationsInv

LEMMA WriteRequestKeeps ==
    ASSUME OperationsInv, NEW S \in SUBSET Services, accepted < RequestBound, WriteRequest(S),
           UNCHANGED supervisor, UNCHANGED <<enabled, work, index, local, remote, behind, faults>>,
           git' \in {git, "idle"}
    PROVE  OperationsInv'
<1> USE DEF OperationsInv, WriteRequest, supervisor
<1>1. accepted + 1 \in Requests /\ accepted' = accepted + 1
  BY Bounds DEF OperationsTypeOK, RequestBound, Requests
<1>2. replaced' \in SUBSET Requests
  BY <1>1, Bounds DEF OperationsTypeOK, RequestInv, Requests, None
<1>3. target' \in [Requests -> SUBSET Services] /\ \A r \in 1..accepted : target'[r] = target[r]
  BY <1>1, Bounds DEF OperationsTypeOK, Requests
<1>4. OperationsTypeOK'
  BY <1>1, <1>2, <1>3, Bounds DEF OperationsTypeOK, Requests, Files
<1>5. RequestInv'
  BY <1>1, <1>3, Bounds DEF OperationsTypeOK, RequestInv, Requests, None
<1>6. RequestIsNeverLost'
  <2> SUFFICES ASSUME NEW r \in 1..accepted'
               PROVE  RequestIsNeverLost!(r)'
    BY DEF RequestIsNeverLost
  <2>1. CASE r = accepted + 1
    BY <1>1, <2>1
  <2>2. CASE r \in 1..accepted
    BY <1>1, <1>3, <2>2, Bounds DEF OperationsTypeOK, RequestInv, RequestIsNeverLost, None, Requests
  <2> QED BY <1>1, <2>1, <2>2, Bounds DEF OperationsTypeOK
<1> QED BY <1>4, <1>5, <1>6

\* What _start does to a process leaves it younger than every accepted request.
LEMMA StartedKeeps ==
    ASSUME OperationsInv, NEW S, Started(S), UNCHANGED <<control, repository, faults, pending>>
    PROVE  /\ handle' \in [Services -> BOOLEAN]
           /\ server' \in [Services -> {"none", "child", "stray"}]
           /\ born' \in [Services -> 0..MaxRequests]
           /\ \A s \in Services : server'[s] = "child" => handle'[s]
           /\ \A s \in Services : server'[s] = "child" =>
                 (server[s] = "child" /\ born'[s] = born[s] /\ s \in Services)
                 \/ born'[s] = accepted
           /\ RequestIsNeverLost'
<1> USE DEF OperationsInv, Started
<1>1. /\ handle' \in [Services -> BOOLEAN]
      /\ server' \in [Services -> {"none", "child", "stray"}]
      /\ born' \in [Services -> 0..MaxRequests]
  BY DEF OperationsTypeOK
<1>2. \A s \in Services : server'[s] = "child" => handle'[s]
  BY DEF OperationsTypeOK
<1>3. \A s \in Services : server'[s] = "child" =>
          (server[s] = "child" /\ born'[s] = born[s]) \/ born'[s] = accepted
  BY DEF OperationsTypeOK
<1>4. RequestIsNeverLost'
  <2>1. \A r \in 1..accepted : target[r] \subseteq Services
    <3>1. accepted \in Nat /\ accepted <= MaxRequests /\ MaxRequests \in Nat
      BY Bounds DEF OperationsTypeOK, Requests
    <3>2. \A r \in 1..accepted : r \in Requests
      BY <3>1 DEF Requests
    <3>3. target \in [Requests -> SUBSET Services]
      BY DEF OperationsTypeOK
    <3> QED BY <3>2, <3>3, Zenon
  <2> QED BY <1>3, <2>1, Bounds DEF OperationsTypeOK, RequestIsNeverLost, control
<1> QED BY <1>1, <1>2, <1>3, <1>4

LEMMA StoppedKeeps ==
    ASSUME OperationsInv, NEW S, NEW k, Stopped(S, k),
           UNCHANGED <<request, processing, target, accepted, replaced, dropped>>
    PROVE  /\ handle' \in [Services -> BOOLEAN]
           /\ server' \in [Services -> {"none", "child", "stray"}]
           /\ \A s \in Services : server'[s] = "child" => handle'[s] /\ server[s] = "child" /\ s \notin S
           /\ git' \in {git, "idle"}
           /\ RequestIsNeverLost'
<1> USE DEF OperationsInv, Stopped
<1>1. /\ handle' \in [Services -> BOOLEAN]
      /\ server' \in [Services -> {"none", "child", "stray"}]
  BY DEF OperationsTypeOK
<1>2. \A s \in Services : server'[s] = "child" => handle'[s] /\ server[s] = "child" /\ s \notin S
  BY DEF OperationsTypeOK
<1>3. RequestIsNeverLost'
  <2>1. \A r \in 1..accepted : target[r] \subseteq Services
    <3>1. accepted \in Nat /\ accepted <= MaxRequests /\ MaxRequests \in Nat
      BY Bounds DEF OperationsTypeOK, Requests
    <3>2. \A r \in 1..accepted : r \in Requests
      BY <3>1 DEF Requests
    <3>3. target \in [Requests -> SUBSET Services]
      BY DEF OperationsTypeOK
    <3> QED BY <3>2, <3>3, Zenon
  <2> QED BY <1>2, <2>1, Bounds DEF OperationsTypeOK, RequestIsNeverLost
<1> QED BY <1>1, <1>2, <1>3

LEMMA SuperviseStep == ASSUME OperationsInv, Supervise PROVE OperationsInv'
<1> USE DEF OperationsInv
<1>1. CASE EnsureChildrenRunning
  <2>1. PICK S : Started(S)
    BY <1>1 DEF EnsureChildrenRunning
  <2>2. UNCHANGED <<pending, control, repository, faults>> /\ sup' = "heartbeat"
    BY <1>1 DEF EnsureChildrenRunning
  <2>3. OperationsTypeOK'
    BY <2>1, <2>2, StartedKeeps DEF OperationsTypeOK, control, repository
  <2>4. RequestInv'
    BY <2>2 DEF RequestInv, control, None
  <2> QED BY <2>1, <2>2, <2>3, <2>4, StartedKeeps
<1>2. CASE TryWriteHeartbeat
  <2>1. OperationsTypeOK'
    BY <1>2, FaultCounts DEF TryWriteHeartbeat, OperationsTypeOK, repository
  <2> QED BY <1>2, <2>1 DEF TryWriteHeartbeat, RequestInv, RequestIsNeverLost, None
<1>3. CASE ClaimRequest
  <2> DEFINE f == IF processing = None THEN request ELSE processing
  <2>1. /\ sup' = "due" /\ UNCHANGED <<heartbeat, target, accepted, due, replaced>>
        /\ UNCHANGED <<handle, server, born, repository>>
        /\ \/ UNCHANGED <<pending, processing, request, dropped>> /\ (Fault \/ UNCHANGED faults)
           \/ /\ pending = None /\ f # None /\ Parsed(f)
              /\ request' = IF processing = None THEN None ELSE request
    BY <1>3 DEF ClaimRequest
  <2>2. CASE UNCHANGED <<pending, processing, request, dropped>> /\ (Fault \/ UNCHANGED faults)
    <3>1. OperationsTypeOK'
      BY <2>1, <2>2, FaultCounts DEF OperationsTypeOK, repository
    <3> QED BY <2>1, <2>2, <3>1 DEF RequestInv, RequestIsNeverLost, None
  <2>3. CASE /\ pending = None /\ f # None /\ Parsed(f)
             /\ request' = IF processing = None THEN None ELSE request
    <3>1. f \in {Garbage} \cup 1..accepted /\ f \in Files /\ None \notin 1..accepted /\ Garbage # None
      BY <2>3, Bounds DEF OperationsTypeOK, RequestInv, None, Garbage
    <3>2. /\ pending' \in {None, f} /\ processing' \in {None, f} /\ (pending' = f <=> processing' = f)
          /\ (pending' # None => f # Garbage) /\ (Fault \/ UNCHANGED faults)
          /\ dropped' = dropped \/ (dropped' = dropped \cup {f} /\ f # Garbage)
          /\ f # Garbage => processing' = f \/ f \in dropped'
          /\ dropped \subseteq dropped'
      BY <2>3, <3>1 DEF Parsed
    <3>3. OperationsTypeOK'
      <4>1. {pending, request, processing}' \subseteq Files
        BY <2>3, <3>1, <3>2 DEF OperationsTypeOK, Files
      <4>2. dropped' \in SUBSET Requests
        BY <3>1, <3>2, Bounds DEF OperationsTypeOK, Requests
      <4> QED BY <2>1, <3>2, <4>1, <4>2, FaultCounts DEF OperationsTypeOK, repository
    <3>4. RequestInv'
      <4>1. /\ request' \in {None} \cup 1..accepted
            /\ processing' \in {None, Garbage} \cup 1..accepted
        BY <2>3, <3>1, <3>2 DEF RequestInv
      <4>2. pending' # None => pending' = processing' /\ pending' \in 1..accepted
        BY <3>1, <3>2
      <4> QED BY <2>1, <4>1, <4>2 DEF RequestInv, None
    <3>5. RequestIsNeverLost'
      <4> SUFFICES ASSUME NEW r \in 1..accepted PROVE RequestIsNeverLost!(r)'
        BY <2>1 DEF RequestIsNeverLost
      <4>1. RequestIsNeverLost!(r) /\ r # None /\ r # Garbage
        BY Bounds DEF OperationsTypeOK, RequestIsNeverLost, None, Garbage
      <4> QED BY <2>1, <2>3, <3>2, <4>1
    <3> QED BY <3>3, <3>4, <3>5
  <2> QED BY <2>1, <2>2, <2>3
<1>4. CASE NotDue
  BY <1>4 DEF NotDue, OperationsTypeOK, RequestInv, RequestIsNeverLost, None, control, repository
<1>5. ASSUME NEW k \in SUBSET Services, RestartStops(k) PROVE OperationsInv'
  <2>1. /\ Stopped(target[pending], k) /\ UNCHANGED <<pending, control>>
        /\ pending \in due /\ sup' = "start" /\ (Fault \/ UNCHANGED faults)
    BY <1>5 DEF RestartStops, Survivors
  <2>2. UNCHANGED <<request, processing, heartbeat, target, accepted, due, replaced, dropped>>
    BY <2>1 DEF control
  <2>3. OperationsTypeOK'
    BY <2>1, <2>2, StoppedKeeps, FaultCounts DEF OperationsTypeOK, Stopped
  <2>4. pending # None /\ pending \in Requests /\ target[pending] \subseteq Services
    BY <2>1, Bounds DEF OperationsTypeOK, Requests, None
  <2>5. RequestInv'
    BY <2>1, <2>2, <2>4, StoppedKeeps DEF RequestInv, None
  <2> QED BY <2>1, <2>2, <2>3, <2>5, StoppedKeeps
<1>6. CASE RestartStarts
  <2>1. /\ Started(target[pending]) /\ UNCHANGED <<pending, control, repository, faults>>
        /\ sup = "start" /\ sup' = "unlink"
    BY <1>6 DEF RestartStarts
  <2>2. OperationsTypeOK'
    BY <2>1, StartedKeeps DEF OperationsTypeOK, control, repository
  <2>3. pending \in 1..accepted /\ target[pending] \subseteq Services
    BY <2>1, Bounds DEF OperationsTypeOK, RequestInv, Requests
  <2>4. \A s \in target[pending] : server'[s] = "child" => born'[s] >= pending
    BY <2>1, <2>3, StartedKeeps, Bounds DEF RequestInv, OperationsTypeOK
  <2>5. RequestInv'
    BY <2>1, <2>4 DEF RequestInv, control, None
  <2> QED BY <2>1, <2>2, <2>5, StartedKeeps
<1>7. CASE Unlink
  <2>1. OperationsTypeOK'
    BY <1>7 DEF Unlink, OperationsTypeOK, Files, repository
  <2>2. RequestInv'
    BY <1>7 DEF Unlink, RequestInv, None
  <2>3. RequestIsNeverLost'
    BY <1>7, Bounds DEF Unlink, RequestInv, RequestIsNeverLost, OperationsTypeOK, None
  <2> QED BY <2>1, <2>2, <2>3
<1> QED
  BY <1>1, <1>2, <1>3, <1>4, <1>5, <1>6, <1>7 DEF Supervise

LEMMA OperationsStep == ASSUME OperationsInv, [OperationsNext]_operationsVars PROVE OperationsInv'
<1>1. CASE UNCHANGED operationsVars
  BY <1>1 DEF OperationsInv, OperationsTypeOK, RequestInv, RequestIsNeverLost, None, operationsVars, control, supervisor, repository
<1>2. ASSUME NEW S \in SUBSET Services, RestartService(S) PROVE OperationsInv'
  BY <1>2, WriteRequestKeeps DEF RestartService, repository
<1>3. ASSUME NEW r \in Requests, ComesDue(r) PROVE OperationsInv'
  BY <1>3, RequestsLeftAlone DEF ComesDue, supervisor, repository, OperationsInv, OperationsTypeOK
<1>4. CASE HeartbeatAges
  BY <1>4, RequestsLeftAlone DEF HeartbeatAges, supervisor, repository, OperationsInv, OperationsTypeOK
<1>5. CASE Launch
  BY <1>5 DEF Launch, OperationsInv, OperationsTypeOK, RequestInv, RequestIsNeverLost, None, control, repository
<1>6. CASE Supervise
  BY <1>6, SuperviseStep
<1>7. CASE Crash
  <2>1. \A s \in Services : server'[s] # "child"
    BY <1>7 DEF Crash, OperationsInv, OperationsTypeOK
  <2>2. OperationsTypeOK'
    BY <1>7, <2>1, FaultCounts DEF Crash, OperationsInv, OperationsTypeOK, Files, control, repository
  <2>3. RequestInv'
    BY <1>7 DEF Crash, OperationsInv, RequestInv, None, control
  <2>4. RequestIsNeverLost'
    BY <1>7, <2>1, Bounds DEF Crash, OperationsInv, RequestIsNeverLost, OperationsTypeOK, Requests, control
  <2> QED BY <2>2, <2>3, <2>4 DEF OperationsInv
<1>8. ASSUME NEW k \in SUBSET Services, Shutdown(k) PROVE OperationsInv'
  <2>1. /\ Stopped(Services, k) /\ Fault /\ sup' = "down" /\ pending' = None /\ heartbeat' = FALSE
        /\ UNCHANGED <<request, processing, target, accepted, due, replaced, dropped>>
    BY <1>8 DEF Shutdown
  <2>2. /\ handle' \in [Services -> BOOLEAN]
        /\ server' \in [Services -> {"none", "child", "stray"}]
        /\ \A s \in Services : server'[s] = "child" => handle'[s]
        /\ git' \in {git, "idle"} /\ RequestIsNeverLost'
    BY <2>1, StoppedKeeps
  <2>3. UNCHANGED <<born, enabled, work, index, local, remote, behind>>
    BY <2>1 DEF Stopped
  <2>4. faults' \in 0..MaxFaults
    BY <2>1, FaultCounts DEF OperationsInv
  <2>5. OperationsTypeOK'
    BY <2>1, <2>2, <2>3, <2>4 DEF OperationsInv, OperationsTypeOK, Files
  <2>6. RequestInv'
    BY <2>1 DEF OperationsInv, RequestInv, None
  <2> QED BY <2>2, <2>5, <2>6 DEF OperationsInv
<1>9. ASSUME NEW s \in Services, ServiceEnds(s) PROVE OperationsInv'
  <2>1. /\ server' = [server EXCEPT ![s] = "none"] /\ (Fault \/ UNCHANGED faults)
        /\ git' \in {git, "idle"} /\ UNCHANGED <<sup, pending, handle, born, control>>
        /\ UNCHANGED <<enabled, work, index, local, remote, behind>>
    BY <1>9 DEF ServiceEnds
  <2>2. OperationsTypeOK'
    BY <2>1, FaultCounts DEF OperationsInv, OperationsTypeOK, control
  <2>3. \A x \in Services : server'[x] = "child" => server[x] = "child"
    BY <2>1 DEF OperationsInv, OperationsTypeOK
  <2>4. \A r \in 1..accepted : target[r] \subseteq Services
    BY Bounds DEF OperationsInv, OperationsTypeOK, Requests
  <2>5. RequestInv' /\ RequestIsNeverLost'
    BY <2>1, <2>3, <2>4 DEF OperationsInv, RequestInv, RequestIsNeverLost, None, control
  <2> QED BY <2>2, <2>5 DEF OperationsInv
<1>10. CASE Begin
  BY <1>10, RequestsLeftAlone DEF Begin, Unchanged, supervisor, control, OperationsInv, OperationsTypeOK
<1>11. CASE Pull
  BY <1>11, RequestsLeftAlone DEF Pull, Git, supervisor, control, OperationsInv, OperationsTypeOK
<1>12. CASE Add
  BY <1>12, RequestsLeftAlone DEF Add, Git, supervisor, control, OperationsInv, OperationsTypeOK
<1>13. CASE CheckStaged
  BY <1>13, RequestsLeftAlone DEF CheckStaged, Git, Unchanged, supervisor, control, OperationsInv, OperationsTypeOK
<1>14. CASE UnstageAll
  BY <1>14, RequestsLeftAlone DEF UnstageAll, Git, supervisor, control, OperationsInv, OperationsTypeOK
<1>15. CASE CommitStaged
  <2>1. {work, index, local, remote}' \subseteq SUBSET Paths
    BY <1>15 DEF CommitStaged, Git, OperationsInv, OperationsTypeOK
  <2> QED BY <1>15, <2>1, RequestsLeftAlone DEF CommitStaged, Git, supervisor, control, OperationsInv, OperationsTypeOK
<1>16. CASE Push
  <2>1. {work, index, local, remote}' \subseteq SUBSET Paths
    BY <1>16 DEF Push, Git, OperationsInv, OperationsTypeOK
  <2> QED BY <1>16, <2>1, RequestsLeftAlone DEF Push, Git, supervisor, control, OperationsInv, OperationsTypeOK
<1>17. CASE CommandFails
  BY <1>17, RequestsLeftAlone DEF CommandFails, supervisor, control, OperationsInv, OperationsTypeOK
<1>18. CASE ScheduleRestart
  <2>1. CASE SupervisorOnline /\ accepted < RequestBound
    BY <1>18, <2>1, WriteRequestKeeps DEF ScheduleRestart, Git, Unchanged
  <2>2. CASE ~ (SupervisorOnline /\ accepted < RequestBound)
    BY <1>18, <2>2, RequestsLeftAlone
       DEF ScheduleRestart, Git, Unchanged, supervisor, control, OperationsInv, OperationsTypeOK
  <2> QED BY <2>1, <2>2
<1>19. CASE Edit
  <2>1. {work, index, local, remote}' \subseteq SUBSET Paths
    BY <1>19 DEF Edit, OperationsInv, OperationsTypeOK
  <2> QED BY <1>19, <2>1, RequestsLeftAlone DEF Edit, supervisor, control, OperationsInv, OperationsTypeOK
<1> QED
  BY <1>1, <1>2, <1>3, <1>4, <1>5, <1>6, <1>7, <1>8, <1>9, <1>10, <1>11, <1>12,
     <1>13, <1>14, <1>15, <1>16, <1>17, <1>18, <1>19 DEF OperationsNext

\* The fate of a request: the unclaimed one has none yet, and none has two.
FateInv ==
    /\ replaced \cup dropped \subseteq 1..accepted
    /\ request # None => request \notin replaced \cup dropped \cup {processing}
    /\ ClaimedIsNotReplaced

LEMMA WriteRequestFate ==
    ASSUME OperationsInv, FateInv, NEW S, WriteRequest(S) PROVE FateInv'
<1> USE DEF OperationsInv, FateInv, ClaimedIsNotReplaced
<1>1. /\ accepted \in 0..MaxRequests /\ request \in {None} \cup 1..accepted
      /\ processing \in {None, Garbage} \cup 1..accepted
      /\ None \notin 1..accepted /\ Garbage \notin 1..accepted
      /\ None > accepted + 1 \/ None = accepted + 1
  BY Bounds DEF OperationsTypeOK, RequestInv, None, Garbage
<1>2. /\ accepted' = accepted + 1 /\ request' = accepted + 1 /\ UNCHANGED <<processing, dropped>>
      /\ replaced' = IF request = None THEN replaced ELSE replaced \cup {request}
      /\ None' = None
  BY DEF WriteRequest, None
<1>3. replaced' \cup dropped' \subseteq 1..accepted
  BY <1>1, <1>2
<1>4. replaced' \cup dropped' \subseteq 1..accepted'
  <2>1. 1..accepted \subseteq 1..(accepted + 1)
    BY <1>1
  <2> QED BY <1>2, <1>3, <2>1
<1>5. request' # None' => request' \notin replaced' \cup dropped' \cup {processing'}
  <2> SUFFICES ASSUME request' # None PROVE request' \notin replaced' \cup dropped' \cup {processing'}
    BY <1>2
  <2>1. accepted + 1 \notin 1..accepted
    BY <1>1
  <2>2. accepted + 1 # Garbage
    BY <1>1 DEF Garbage
  <2>3. accepted + 1 # processing
    BY <1>1, <1>2, <2>1, <2>2
  <2> QED BY <1>2, <1>3, <2>1, <2>3
<1>6. replaced' \cap (dropped' \cup {processing'}) = {}
  BY <1>1, <1>2
<1> QED BY <1>4, <1>5, <1>6

LEMMA FateStep ==
    ASSUME OperationsInv, FateInv, [OperationsNext]_operationsVars PROVE FateInv'
<1>1. CASE UNCHANGED <<request, processing, replaced, dropped, accepted>>
  BY <1>1 DEF FateInv, ClaimedIsNotReplaced, None
<1>2. ASSUME NEW S, WriteRequest(S) PROVE FateInv'
  BY <1>2, WriteRequestFate
<1>3. CASE ClaimRequest
  <2>1. /\ accepted' = accepted /\ replaced' = replaced /\ None' = None
        /\ \/ UNCHANGED <<processing, request, dropped>>
           \/ /\ processing # None /\ request' = request
              /\ processing' \in {None, processing}
              /\ dropped' = dropped \/ (dropped' = dropped \cup {processing} /\ processing # Garbage)
           \/ /\ request # None /\ request' = None
              /\ processing' \in {None, request}
              /\ dropped' = dropped \/ (dropped' = dropped \cup {request} /\ request # Garbage)
    BY <1>3 DEF ClaimRequest, Parsed, None
  <2>2. /\ request \in {None} \cup 1..accepted
        /\ processing \in {None, Garbage} \cup 1..accepted /\ None \notin 1..accepted
    BY Bounds DEF OperationsInv, OperationsTypeOK, RequestInv, None
  <2> QED BY <2>1, <2>2 DEF FateInv, ClaimedIsNotReplaced
<1>4. CASE Unlink
  <2>1. UNCHANGED <<request, replaced, dropped, accepted>> /\ processing' = None /\ None' = None
    BY <1>4 DEF Unlink, None
  <2>2. request \in {None} \cup 1..accepted /\ None \notin 1..accepted
    BY Bounds DEF OperationsInv, OperationsTypeOK, RequestInv, None
  <2> QED BY <2>1, <2>2 DEF FateInv, ClaimedIsNotReplaced
<1>5. \/ UNCHANGED <<request, processing, replaced, dropped, accepted>>
      \/ \E S : WriteRequest(S)
      \/ ClaimRequest \/ Unlink
  BY DEF OperationsNext, operationsVars, control, supervisor, repository, RestartService, ComesDue,
         HeartbeatAges, Launch, Supervise, EnsureChildrenRunning, TryWriteHeartbeat, NotDue,
         RestartStops, RestartStarts, Crash, Shutdown, ServiceEnds, Begin, Pull, Add, CheckStaged,
         UnstageAll, CommitStaged, Push, CommandFails, ScheduleRestart, Edit
<1> QED BY <1>1, <1>2, <1>3, <1>4, <1>5

\* No restart request that ServiceControlService accepted is lost before the
\* processes it was for are gone, wherever the supervisor is killed, save one whose
\* claimed file could not be read, and none is replaced once it was claimed.
THEOREM RequestsAreKept == OperationsSpec => []RequestsSurvive
<1>1. OperationsInit => OperationsInv /\ FateInv
  <2> SUFFICES ASSUME OperationsInit PROVE OperationsInv /\ FateInv
    OBVIOUS
  <2>1. OperationsTypeOK
    <3>1. /\ handle \in [Services -> BOOLEAN]
          /\ server \in [Services -> {"none", "child", "stray"}]
          /\ \A s \in Services : server[s] = "child" => handle[s]
      BY DEF OperationsInit
    <3>2. /\ born \in [Services -> 0..MaxRequests] /\ accepted \in 0..MaxRequests
          /\ faults \in 0..MaxFaults
      BY Bounds DEF OperationsInit
    <3>3. /\ target \in [Requests -> SUBSET Services] /\ {due, replaced, dropped} \subseteq SUBSET Requests
          /\ {pending, request, processing} \subseteq Files
      BY DEF OperationsInit, Files
    <3>4. /\ sup = "down" /\ heartbeat \in BOOLEAN /\ enabled \in BOOLEAN /\ git = "idle"
          /\ {work, index, local, remote} \subseteq SUBSET Paths /\ behind \in BOOLEAN
      BY DEF OperationsInit
    <3> QED BY <3>1, <3>2, <3>3, <3>4 DEF OperationsTypeOK
  <2>2. RequestInv /\ RequestIsNeverLost
    BY DEF OperationsInit, RequestInv, RequestIsNeverLost, None
  <2>3. FateInv
    <3>1. replaced = {} /\ dropped = {} /\ request = None
      BY DEF OperationsInit
    <3> QED BY <3>1 DEF FateInv, ClaimedIsNotReplaced
  <2> QED BY <2>1, <2>2, <2>3 DEF OperationsInv
<1>2. OperationsInv /\ FateInv /\ [OperationsNext]_operationsVars => OperationsInv' /\ FateInv'
  BY OperationsStep, FateStep
<1>3. OperationsInv /\ FateInv => RequestsSurvive
  BY DEF OperationsInv, FateInv, RequestsSurvive
<1> QED
  BY <1>1, <1>2, <1>3, PTL DEF OperationsSpec
=============================================================================
