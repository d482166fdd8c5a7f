------------------------------ MODULE ApiServer ------------------------------
(***************************************************************************)
(* The API server in front of the asset repositories: the authentication   *)
(* middleware resolves the session of every request to an asset route, and *)
(* setup, login and logout, which are exempt, change those sessions while  *)
(* such requests are under way.  Events and the page that follows them are *)
(* the workload of EventStream.                                            *)
(***************************************************************************)
EXTENDS AssetCatalog, Sessions, EventStream

vars == <<assets, auth, streamVars, threads, world>>

Init == ThreadsInit /\ AssetInit /\ AuthInit /\ StreamInit

\* a request to an asset route with the cookie of some session
AssetRequest(t) ==
    /\ \E s \in DOMAIN sessions, request \in AssetRequests :
          Receive(t, With(request, [session |-> s, late |-> s \in loggedOut]), "arrived")
    /\ UNCHANGED <<assets, auth, streamVars>>

Serve(t) ==
    \/ ServeAsset(t) /\ UNCHANGED <<auth, streamVars>>
    \/ ServeAuth(t) /\ UNCHANGED <<assets, streamVars>>

Next ==
    \/ \E t \in Threads : AssetRequest(t) \/ Serve(t)
    \/ (\E t \in Threads : AuthRequest(t)) /\ UNCHANGED <<assets, streamVars>>
    \/ (\E s \in DOMAIN sessions : Expire(s)) /\ UNCHANGED <<assets, streamVars>>
    \/ FailureAges /\ UNCHANGED <<assets, streamVars>>
    \/ StreamNext /\ UNCHANGED <<assets, auth, threads>>

\* a server thread keeps running, and a wait for a row ends with the
\* transaction that holds it; a transaction that has flushed an event commits,
\* a stream polls, and the browser delivers answers and connects again
Fairness ==
    /\ \A t \in Threads : WF_vars(Serve(t))
    /\ WF_vars(StreamStep /\ UNCHANGED <<assets, auth, threads, world>>)

Spec == Init /\ [][Next]_vars /\ Fairness
-----------------------------------------------------------------------------
TypeOK ==
    /\ enum \in [id : 1..MaxEvents + 1, present : BOOLEAN, options : SUBSET Values, version : 0..MaxEvents]
    /\ parameter = NoParameter \/ parameter \in [enum : 1..MaxEvents + 1, default : Values, overtaken : BOOLEAN]
    /\ connector.tested \in 0..connector.config /\ connector.config <= MaxEvents + 1
    /\ \A a \in {"case", "script"} : asset[a].status \in {"DRAFT", "READY", "ARCHIVED"}
    /\ \A r \in Rows : ~Free(r) => pc[locks[r]] \in {"insert", "script", "commit"}
    /\ sessions \in Seq(SessionState) /\ loggedOut \subseteq DOMAIN sessions
    /\ slots \in 0..MaxConcurrent /\ events \in 0..MaxEvents
    /\ {e.cursor : e \in rows} \cup overtaken \subseteq 1..cursors /\ cursors \in 1..MaxCursor
    /\ page.state = "complete" => stream = NoStream

\* No request waits for ever: the row locks, the foreign key waits and the wait
\* for another's bootstrap row never form a cycle, and every way out of a
\* transaction gives its rows up.
RequestsEnd == \A t \in Threads : pc[t] # "idle" ~> pc[t] = "idle"

\* What relates rows of two tables, or a row to the call that tests it, holds
\* under every interleaving of the requests that change them: row locks,
\* versions, foreign keys and unique keys between them leave no way around.
RowsStayConsistent ==
    /\ [](TypeOK /\ NoDanglingParameter /\ DefaultsAreOptions /\ CredentialReadable /\ LinkedOnce)
    /\ TestedAsConfigured /\ NoArchivedLink

\* Setup makes one administrator, the login throttle keeps its limits and its
\* slots, and a session that was logged out serves nothing any more.
SessionsAreSound == OneAdmin /\ FailuresBounded /\ SlotsAreReturned /\ LoggedOutStaysOut

\* The page shows the selected run and passes over none of its events.
PageIsFaithful == ShownIsSelected /\ NothingPassedOver

\* Every request is answered, and every event reaches the page that follows it.
EverybodyIsServed == RequestsEnd /\ EventsArrive
=============================================================================
