------------------------------ MODULE Sessions ------------------------------
(***************************************************************************)
(* Setup, login and logout (auth_routes.py, auth_throttle.py) over the     *)
(* users, the bootstrap row and the sessions of auth_sql_repository.py.    *)
(* A login holds one of the throttle's slots from its first statement to   *)
(* the end of its `with` block.  One client logs in to one account, so the *)
(* throttle has one key; a session is named by the order of its creation.  *)
(***************************************************************************)
EXTENDS RequestThreads, Sequences, FiniteSets

CONSTANTS MaxFailures, MaxConcurrent

ASSUME ThrottleAssumption == MaxFailures \in Nat \ {0} /\ MaxConcurrent \in Nat \ {0}

VARIABLES users,       \* committed administrators, each with its bootstrap row
          sessions,    \* the state of every session ever created
          loggedOut,   \* the sessions whose logout was answered
          failures,    \* recorded failures not yet out of the window
          slots        \* free slots of the throttle

auth == <<users, sessions, loggedOut, failures, slots>>

SessionState == {"live", "expired", "revoked", "deleted"}
AuthOps == {"setup", "login", "logout"}

\* a fresh installation, where only setup is possible, or one with its
\* administrator logged in
AuthInit ==
    /\ users \in (IF "setup" \in workload THEN {0, 1} ELSE {1})
    /\ sessions = IF users = 0 THEN <<>> ELSE <<"live">>
    /\ loggedOut = {} /\ failures = 0 /\ slots = MaxConcurrent

AuthRequest(t) ==
    /\ \/ Receive(t, [op |-> "setup"], "setup")
       \/ \E correct \in BOOLEAN : Receive(t, [op |-> "login", correct |-> correct], "attempt")
       \/ \E s \in DOMAIN sessions : Receive(t, [op |-> "logout", session |-> s], "logout")
    /\ UNCHANGED auth

\* expires_at passes
Expire(s) ==
    /\ "logout" \in workload /\ sessions[s] = "live" /\ Happens
    /\ sessions' = [sessions EXCEPT ![s] = "expired"]
    /\ UNCHANGED <<users, loggedOut, failures, slots, threads>>

-----------------------------------------------------------------------------
(* Setup *)

\* initialize_admin reads the bootstrap row without a lock
ReadBootstrap(t) ==
    /\ At(t, "setup", "setup")
    /\ IF users > 0 THEN Return(t) ELSE Goto(t, "bootstrap") /\ UNCHANGED req
    /\ UNCHANGED <<auth, world>>

BootstrapPending == \E u \in Threads : At(u, "setup", "commit")

\* Mutant: the bootstrap row has no key of its own.
InsertAnotherAdmin(t) ==
    /\ At(t, "setup", "bootstrap") /\ ~BootstrapPending
    /\ Goto(t, "commit") /\ UNCHANGED <<req, auth, world>>

\* the user and the singleton bootstrap row are inserted in one transaction:
\* the row's key makes the insert wait for another's commit, and then fail
InsertBootstrap(t) ==
    /\ At(t, "setup", "bootstrap") /\ ~BootstrapPending
    /\ IF users > 0 THEN Return(t) ELSE Goto(t, "commit") /\ UNCHANGED req
    /\ UNCHANGED <<auth, world>>

CommitSetup(t) ==
    /\ At(t, "setup", "commit")
    /\ users' = users + 1
    /\ Goto(t, "session") /\ UNCHANGED <<req, sessions, loggedOut, failures, slots, world>>

-----------------------------------------------------------------------------
(* Login *)

\* the non-blocking acquire: a login over the limit is refused at once
Attempt(t) ==
    /\ At(t, "login", "attempt")
    /\ IF slots = 0 THEN Return(t) /\ UNCHANGED slots
                    ELSE slots' = slots - 1 /\ Goto(t, "check") /\ UNCHANGED req
    /\ UNCHANGED <<users, sessions, loggedOut, failures, world>>

\* the failures in the window are counted under the lock; a refusal leaves
\* through the finally clause
CheckFailures(t) ==
    /\ At(t, "login", "check")
    /\ IF failures >= MaxFailures THEN Return(t) /\ slots' = slots + 1
                                  ELSE Goto(t, "verify") /\ UNCHANGED <<req, slots>>
    /\ UNCHANGED <<users, sessions, loggedOut, failures, world>>

\* find_user and verify_password: the outcome is recorded inside the block
Verify(t) ==
    /\ At(t, "login", "verify")
    /\ LET valid == users > 0 /\ req[t].correct
       IN  /\ failures' = IF valid THEN 0 ELSE failures + 1
           /\ Goto(t, IF valid THEN "accepted" ELSE "rejected")
    /\ UNCHANGED <<req, users, sessions, loggedOut, slots, world>>

\* the finally clause of the block
Leave(t) ==
    /\ pc[t] \in {"accepted", "rejected"}
    /\ slots' = slots + 1
    /\ IF pc[t] = "accepted" THEN Goto(t, "session") /\ UNCHANGED req ELSE Return(t)
    /\ UNCHANGED <<users, sessions, loggedOut, failures, world>>

\* a failure leaves the window
FailureAges ==
    /\ failures > 0 /\ Happens
    /\ failures' = failures - 1
    /\ UNCHANGED <<users, sessions, loggedOut, slots, threads>>

\* _set_session: create_session first deletes what has expired or was revoked
CreateSession(t) ==
    /\ pc[t] = "session"
    /\ sessions' = Append([s \in DOMAIN sessions |->
                             IF sessions[s] = "live" THEN "live" ELSE "deleted"], "live")
    /\ Return(t) /\ UNCHANGED <<users, loggedOut, failures, slots, world>>

-----------------------------------------------------------------------------
(* Logout, and the middleware in front of the other routes *)

Logout(t) ==
    /\ At(t, "logout", "logout")
    /\ LET s == req[t].session
       IN  /\ sessions' = [sessions EXCEPT ![s] = IF @ = "deleted" THEN @ ELSE "revoked"]
           /\ loggedOut' = loggedOut \union {s}
    /\ Return(t) /\ UNCHANGED <<users, failures, slots, world>>

\* authentication_middleware: resolve_session on the cookie's token
Authenticate(t) ==
    /\ pc[t] = "arrived"
    /\ IF sessions[req[t].session] = "live" THEN Goto(t, "serve") /\ UNCHANGED req ELSE Return(t)
    /\ UNCHANGED <<auth, world>>

ServeAuth(t) ==
    \/ ReadBootstrap(t) \/ InsertBootstrap(t) \/ CommitSetup(t)
    \/ Attempt(t) \/ CheckFailures(t) \/ Verify(t) \/ Leave(t) \/ CreateSession(t)
    \/ Logout(t) \/ Authenticate(t)
-----------------------------------------------------------------------------
(* Properties *)

\* However many setup requests race on a fresh installation, one administrator
\* comes out of it: the check and the insert are apart, the bootstrap row's key
\* is what decides.
OneAdmin == users <= 1

\* Logins that passed the check together may all fail, but no more of them than
\* there are slots: the failures in the window never exceed the limit by more.
FailuresBounded == failures <= MaxFailures + MaxConcurrent - 1

\* Every way out of a login returns its slot, so logins cannot be locked out for
\* good by refused or failed ones.
SlotsAreReturned ==
    slots + Cardinality({t \in Threads : req[t].op = "login"
                            /\ pc[t] \in {"check", "verify", "accepted", "rejected"}}) = MaxConcurrent

\* A request sent after its session's logout was answered is never served,
\* whatever logins, expiries and clean-ups of sessions happen in between.
LoggedOutStaysOut ==
    \A t \in Threads : req[t].op \notin AuthOps \union {"none"} /\ pc[t] # "arrived" => ~req[t].late
=============================================================================
