------------------------- MODULE OutboundHttpProofs -------------------------
(***************************************************************************)
(* Proofs about OutboundHttp for any behaviour of the name server, any     *)
(* limits, any number of requests and any task: connections go to          *)
(* permitted addresses only, answers are used whole, and a task that fails *)
(* half-way still runs its after steps.  The second part is about          *)
(* SourceStore, the other way contents enter the platform: for any         *)
(* archive, sizes, threads and faults, with StoreInv as its inductive      *)
(* invariant.                                                              *)
(***************************************************************************)
EXTENDS OutboundHttp, SourceStore, FiniteSetTheorems, WellFoundedInduction, TLAPS

\* What is pinned was permitted when it was validated, and permissions do not
\* change during a call; what is tried and what is open is taken from it.
PinnedInv ==
    /\ client \in Clients /\ private \in BOOLEAN /\ dns \in Answers
    /\ Factory => ~private
    /\ client = "runner" => pc = "end" /\ connected = "none"
    /\ client # "runner" => /\ pinned \in Seq(Permitted) /\ todo \in Seq(Permitted)
                            /\ connected \in Permitted \cup {"none"}
    /\ pc \in {"render", "connect", "read", "answer"} => pinned # <<>>
    /\ pc = "connect" => todo # <<>>

\* Where a request that is over leads.
After == {"resolve", "render", "end"}

LEMMA FailRequestLeads ==
    ASSUME NEW how, FailRequest(how) \/ NextRequest(how) \/ End(how) PROVE pc' \in After
BY DEF FailRequest, NextRequest, End, After

LEMMA SamePermitted == ASSUME UNCHANGED environment PROVE Permitted' = Permitted
BY DEF environment, Permitted, LoadTest, Connector, Factory

\* A step that keeps what is pinned, and tries or opens only what was permitted.
LEMMA KeepsPinned ==
    ASSUME PinnedInv, client # "runner", UNCHANGED <<environment, dns, pinned>>,
           todo' \in Seq(Permitted), connected' \in Permitted \cup {"none"},
           pc' \in {"render", "connect", "read", "answer"} => pinned # <<>>,
           pc' = "connect" => todo' # <<>>
    PROVE  PinnedInv'
<1>1. Permitted' = Permitted /\ client' = client /\ private' = private
  BY SamePermitted DEF environment
<1>2. Factory' = Factory
  BY <1>1 DEF Factory
<1> QED BY <1>1, <1>2 DEF PinnedInv

\* An answer that is used and closed, or a request that failed.
LEMMA AnswerKeeps ==
    ASSUME PinnedInv, pc \in {"read", "answer"}, connected' = "none", AnswerFrame,
           pc' \in After
    PROVE  PinnedInv'
<1>1. client # "runner" /\ pinned # <<>>
  BY DEF PinnedInv
<1> QED BY <1>1, KeepsPinned DEF PinnedInv, AnswerFrame, After

\* _validate_public_url and its siblings pin the whole answer or nothing.
LEMMA ValidateKeeps ==
    ASSUME PinnedInv, pc = "resolve", UNCHANGED <<environment, dns, todo, connected>>,
           \/ AllPermitted(dns) /\ pinned' = dns /\ pc' = "render"
           \/ pinned' = <<>> /\ pc' \in {"resolve", "end"}
    PROVE  PinnedInv'
<1>1. Permitted' = Permitted /\ client' = client /\ private' = private /\ client # "runner"
  BY SamePermitted DEF environment, PinnedInv
<1>2. Factory' = Factory
  BY <1>1 DEF Factory
<1>3. dns \in Seq(Addresses)
  BY AnswersAssumption DEF PinnedInv
<1>4. AllPermitted(dns) => dns \in Seq(Permitted) /\ dns # <<>>
  BY <1>3 DEF AllPermitted
<1>5. <<>> \in Seq(Permitted)
  OBVIOUS
<1> QED BY <1>1, <1>2, <1>4, <1>5 DEF PinnedInv

LEMMA EmptyHasNoLength == ~(Len(<<>>) > 0)
OBVIOUS

\* _request_pinned tries the permitted addresses one by one.
LEMMA ConnectKeeps ==
    ASSUME PinnedInv, pc = "connect", Connects \/ Unreachable \/ Aborted PROVE PinnedInv'
<1>1. client # "runner" /\ todo # <<>> /\ todo \in Seq(Permitted) /\ pinned # <<>>
  BY DEF PinnedInv
<1>2. CASE Connects
  <2>1. Head(todo) \in Permitted
    BY <1>1
  <2> QED BY <1>1, <1>2, <2>1, KeepsPinned DEF Connects
<1>3. CASE Unreachable
  <2>1. CASE Len(todo) > 1
    <3>1. Tail(todo) \in Seq(Permitted) /\ Len(Tail(todo)) = Len(todo) - 1 /\ Len(todo) \in Nat
      BY <1>1
    <3>2. Len(Tail(todo)) > 0
      BY <2>1, <3>1
    <3>3. Tail(todo) # <<>>
      BY <3>2, EmptyHasNoLength, Zenon
    <3> QED BY <1>1, <1>3, <2>1, <3>1, <3>3, KeepsPinned DEF Unreachable, PinnedInv
  <2>2. CASE ~(Len(todo) > 1)
    <3>1. todo' = <<>> /\ pc' \in After
      BY <1>3, <2>2, FailRequestLeads DEF Unreachable
    <3> QED BY <1>1, <1>3, <3>1, KeepsPinned DEF Unreachable, PinnedInv, After
  <2> QED BY <2>1, <2>2
<1>4. CASE Aborted
  <2>1. todo' = <<>> /\ pc' \in After
    BY <1>4, FailRequestLeads DEF Aborted
  <2> QED BY <1>1, <1>4, <2>1, KeepsPinned DEF Aborted, PinnedInv, After
<1> QED BY <1>2, <1>3, <1>4

LEMMA BodyKeeps ==
    ASSUME PinnedInv, pc = "read", Chunk \/ Complete \/ Overflow PROVE PinnedInv'
<1>1. client # "runner" /\ pinned # <<>>
  BY DEF PinnedInv
<1>2. CASE Chunk
  BY <1>1, <1>2, KeepsPinned DEF Chunk, PinnedInv
<1>3. CASE Complete
  BY <1>1, <1>3, KeepsPinned DEF Complete, PinnedInv
<1>4. CASE Overflow
  <2>1. pc' \in After
    BY <1>4, FailRequestLeads DEF Overflow
  <2> QED BY <1>4, <2>1, AnswerKeeps DEF Overflow, AnswerFrame
<1> QED BY <1>2, <1>3, <1>4

LEMMA CallKeeps == ASSUME PinnedInv, Call PROVE PinnedInv'
<1>1. CASE LoadValidate
  <2>1. \/ AllPermitted(dns) /\ pinned' = dns /\ pc' = "render"
        \/ pinned' = <<>> /\ pc' \in {"resolve", "end"}
    BY <1>1 DEF LoadValidate, NextRequest, End
  <2> QED BY <1>1, <2>1, ValidateKeeps DEF LoadValidate
<1>2. CASE ConnectorValidate \/ FactoryValidate
  BY <1>2, ValidateKeeps DEF ConnectorValidate, FactoryValidate, End
<1>3. CASE RenderedDestination
  <2>1. pc' \in After
    BY <1>3, FailRequestLeads DEF RenderedDestination
  <2> QED BY <1>3, <2>1, KeepsPinned DEF RenderedDestination, PinnedInv, After
<1>4. CASE Send
  BY <1>4, KeepsPinned DEF Send, PinnedInv
<1>5. CASE LoadConnect \/ ConnectorConnect \/ FactoryConnect
  BY <1>5, ConnectKeeps DEF LoadConnect, ConnectorConnect, FactoryConnect
<1>6. CASE CapturedBody \/ LimitedBody \/ ConnectorBody \/ FactoryBody
  BY <1>6, BodyKeeps DEF CapturedBody, LimitedBody, ConnectorBody, FactoryBody
<1>7. CASE Broken
  <2>1. pc' \in After
    BY <1>7, FailRequestLeads DEF Broken
  <2> QED BY <1>7, <2>1, AnswerKeeps DEF Broken, Close
<1>8. CASE RequestTarget \/ RequestScenarioTarget
  <2>1. pc' \in After
    BY <1>8, FailRequestLeads DEF RequestTarget, RequestScenarioTarget
  <2> QED BY <1>8, <2>1, AnswerKeeps DEF RequestTarget, RequestScenarioTarget, Close
<1>9. CASE Login \/ ExecuteHttp \/ RequireSuccess \/ TestHttp \/ RpcFails
  <2>1. pc' \in After
    BY <1>9 DEF Login, ExecuteHttp, RequireSuccess, TestHttp, RpcFails, End, After
  <2> QED BY <1>9, <2>1, AnswerKeeps DEF Login, ExecuteHttp, RequireSuccess, TestHttp, RpcFails, Close
<1>10. CASE Initialize \/ Initialized
  <2>1. pc' \in After
    BY <1>10 DEF Initialize, Initialized, After
  <2> QED BY <1>10, <2>1, AnswerKeeps DEF Initialize, Initialized, Close
<1>11. CASE ListTools
  <2>1. pc' \in After
    BY <1>11 DEF ListTools, End, After
  <2> QED BY <1>11, <2>1, AnswerKeeps DEF ListTools, Close
<1> QED
  BY <1>1, <1>2, <1>3, <1>4, <1>5, <1>6, <1>7, <1>8, <1>9, <1>10, <1>11 DEF Call

LEMMA PinnedStep == ASSUME PinnedInv, [Next]_vars PROVE PinnedInv'
<1>1. ASSUME UNCHANGED call PROVE PinnedInv'
  <2>1. UNCHANGED <<environment, client, private, dns, pc, pinned, todo, connected>>
    BY <1>1 DEF call, environment
  <2>2. Permitted' = Permitted /\ Factory' = Factory
    BY <2>1, SamePermitted DEF Factory
  <2> QED BY <2>1, <2>2 DEF PinnedInv
<1>2. CASE Call
  BY <1>2, CallKeeps
<1>3. CASE Rebind
  <2>1. UNCHANGED <<environment, client, private, pc, pinned, todo, connected>> /\ dns' \in Answers
    BY <1>3 DEF Rebind, environment
  <2>2. Permitted' = Permitted /\ Factory' = Factory
    BY <2>1, SamePermitted DEF Factory
  <2> QED BY <2>1, <2>2 DEF PinnedInv
<1> QED BY <1>1, <1>2, <1>3 DEF Next, Ended, vars

LEMMA PermittedKinds ==
    ASSUME PinnedInv PROVE ConnectionsArePermitted
<1>1. CASE client = "runner"
  BY <1>1 DEF PinnedInv, ConnectionsArePermitted
<1>2. CASE client # "runner"
  <2>1. /\ "local" \notin Permitted
        /\ "private" \in Permitted \/ "teredo" \in Permitted => private
        /\ "special" \in Permitted => Factory
        /\ "sixtofour" \in Permitted \/ "teredo" \in Permitted => ~Connector
    BY <1>2 DEF PinnedInv, Clients, Permitted, LoadTest, Connector, Factory, LoadIsPublic,
          LoadIsAllowedPrivate, ConnectorIsPublic, ConnectorIsAllowedPrivate, FactoryIsGlobal
  <2> QED BY <1>2, <2>1 DEF PinnedInv, ConnectionsArePermitted
<1> QED BY <1>1, <1>2

LEMMA PinnedInit == Init => PinnedInv
<1> SUFFICES ASSUME Init PROVE PinnedInv
  OBVIOUS
<1>1. /\ client \in Clients /\ private \in BOOLEAN /\ dns \in Answers /\ (Factory => ~private)
      /\ pc \in {"resolve", "end"} /\ (client = "runner" => pc = "end")
  BY DEF Init, Factory
<1>2. pinned = <<>> /\ todo = <<>> /\ connected = "none"
  BY DEF Init
<1> QED BY <1>1, <1>2 DEF PinnedInv

\* However the name server answers and whatever fails, the API's clients
\* connect to permitted addresses only.
THEOREM OnlyPermittedConnections == Spec => []ConnectionsArePermitted
<1>1. PinnedInv /\ [Next]_vars => PinnedInv'
  BY PinnedStep
<1>2. PinnedInv => ConnectionsArePermitted
  BY PermittedKinds
<1> QED BY <1>1, <1>2, PinnedInit, PTL DEF Spec

\* An answer is open only while it is read and used.
ClosedInv == connected = "none" \/ pc \in {"read", "answer"}

LEMMA CallCloses == ASSUME ClosedInv, Call PROVE ClosedInv'
<1>1. CASE LoadValidate \/ ConnectorValidate \/ FactoryValidate \/ RenderedDestination \/ Send
  <2>1. connected' = connected /\ pc \in {"resolve", "render"}
    BY <1>1 DEF LoadValidate, ConnectorValidate, FactoryValidate, RenderedDestination, Send
  <2> QED BY <2>1 DEF ClosedInv
<1>2. CASE LoadConnect \/ ConnectorConnect \/ FactoryConnect
  <2>1. pc = "connect" /\ (Connects \/ Unreachable \/ Aborted)
    BY <1>2 DEF LoadConnect, ConnectorConnect, FactoryConnect
  <2>2. pc' = "read" \/ connected' = connected
    BY <2>1 DEF Connects, Unreachable, Aborted
  <2> QED BY <2>1, <2>2 DEF ClosedInv
<1>3. CASE CapturedBody \/ LimitedBody \/ ConnectorBody \/ FactoryBody
  <2>1. pc = "read" /\ (Chunk \/ Complete \/ Overflow)
    BY <1>3 DEF CapturedBody, LimitedBody, ConnectorBody, FactoryBody
  <2>2. connected' = "none" \/ pc' \in {"read", "answer"}
    BY <2>1 DEF Chunk, Complete, Overflow
  <2> QED BY <2>2 DEF ClosedInv
<1>4. CASE Broken \/ RequestTarget \/ RequestScenarioTarget \/ Login \/ ExecuteHttp \/ RequireSuccess
           \/ TestHttp \/ RpcFails \/ Initialize \/ Initialized \/ ListTools
  <2>1. Close
    BY <1>4 DEF Broken, RequestTarget, RequestScenarioTarget, Login, ExecuteHttp, RequireSuccess,
       TestHttp, RpcFails, Initialize, Initialized, ListTools
  <2> QED BY <2>1 DEF Close, ClosedInv
<1> QED BY <1>1, <1>2, <1>3, <1>4 DEF Call

\* On every error path of every client the answer is closed before the next request
\* begins or the call ends.
THEOREM AnswersStayClosed == Spec => AnswersAreClosed
<1>1. Init => ClosedInv
  BY DEF Init, ClosedInv
<1>2. ASSUME ClosedInv, [Next]_vars PROVE ClosedInv'
  <2>1. CASE Call
    BY <2>1, <1>2, CallCloses
  <2>2. CASE UNCHANGED <<pc, connected>>
    BY <2>2, <1>2 DEF ClosedInv
  <2> QED BY <2>1, <2>2, <1>2 DEF Next, Rebind, Ended, vars, call
<1>3. ClosedInv' => [pc' \in {"resolve", "render", "end"} => connected' = "none"]_vars
  BY DEF ClosedInv
<1> QED BY <1>1, <1>2, <1>3, PTL DEF Spec, AnswersAreClosed

-----------------------------------------------------------------------------
(* What is made of an answer.  The parts of the invariant: the requests    *)
(* and pages left, the chunks held, and the tools read so far, which are   *)
(* those before the cursor as long as the answers belong to the requests.  *)

Counted == client \in {"requests", "scenario"}

RequestsLeft ==
    /\ sent \in Nat
    /\ Counted => sent <= MaxRequests /\ (pc # "end" => sent < MaxRequests)
    /\ client = "mcp" => sent <= MaxPages /\ (pc # "end" => sent < MaxPages)
    /\ ~Counted /\ client # "mcp" => sent = 0

BodyInv == body \in 0..(BodyLimit + 1) /\ extracted \in 0..BodyLimit

PagesInv ==
    /\ phase \in {"none", "initialize", "initialized", "list"}
    /\ phase # "none" => client = "mcp"
    /\ cursor \in Nat /\ tools \in Nat /\ catalogue \in Nat
    /\ pc # "end" => result # "tools" /\ (~endless => tools = cursor /\ cursor <= catalogue)
    /\ result = "tools" => tools = catalogue /\ ~endless

PcInv ==
    /\ pc \in {"resolve", "render", "connect", "read", "answer", "end"}
    /\ todo # <<>> <=> pc = "connect"

UseInv == RequestsLeft /\ BodyInv /\ PagesInv /\ PcInv

LEMMA LimitsAreNumbers ==
    /\ MaxRequests \in Nat /\ MaxRequests > 0 /\ BodyLimit \in Nat /\ BodyLimit > 0
    /\ MaxPages \in Nat /\ MaxPages > 0 /\ PageSize \in Nat /\ PageSize > 0 /\ MaxTools \in Nat
BY OutboundAssumption

\* A request that is over: the next one is within the bound, or there is none.
LEMMA OverRequests ==
    ASSUME RequestsLeft, pc # "end", UNCHANGED environment, NEW how,
           \/ Counted /\ NextRequest(how)
           \/ FailRequest(how)
           \/ End(how) /\ UNCHANGED sent
           \/ pc' \in {"resolve", "render"} /\ UNCHANGED sent
    PROVE  RequestsLeft' /\ pc' \in After
<1>1. client' = client /\ Counted' = Counted
  BY DEF environment, Counted
<1>2. CASE Counted /\ NextRequest(how)
  <2>1. sent' = sent + 1 /\ sent \in Nat /\ sent < MaxRequests /\ MaxRequests \in Nat
    BY <1>2, LimitsAreNumbers DEF RequestsLeft, NextRequest
  <2>2. sent + 1 < MaxRequests \/ pc' = "end"
    BY <1>2 DEF NextRequest, End
  <2>3. sent' \in Nat /\ sent' <= MaxRequests /\ (pc' # "end" => sent' < MaxRequests)
    BY <2>1, <2>2
  <2>4. client # "mcp"
    BY <1>2 DEF Counted
  <2> QED BY <1>1, <1>2, <2>3, <2>4, FailRequestLeads DEF RequestsLeft
<1>3. CASE (End(how) \/ pc' \in {"resolve", "render"}) /\ UNCHANGED sent
  BY <1>1, <1>3 DEF RequestsLeft, End, After
<1> QED BY <1>2, <1>3 DEF FailRequest, Counted

\* The tools are those of the pages before the cursor until the call is over.
LEMMA OverPages ==
    ASSUME PagesInv, UNCHANGED <<client, catalogue, endless, cursor, tools>>, result' # "tools",
           pc # "end", phase' = phase \/ (phase' \in {"initialized", "list"} /\ client = "mcp")
    PROVE  PagesInv'
BY DEF PagesInv

\* The results of a request are never that of a discovery.
LEMMA FailureIsNoDiscovery ==
    ASSUME NEW how, how # "tools", FailRequest(how) \/ NextRequest(how) \/ End(how)
    PROVE  result' # "tools"
BY DEF FailRequest, NextRequest, End

\* A request that is refused, fails or gets an answer that is not accepted.
LEMMA RequestOver ==
    ASSUME UseInv, pc # "end", UNCHANGED <<environment, phase, cursor, tools>>, todo' = <<>>,
           BodyInv', NEW how, how # "tools",
           \/ Counted /\ NextRequest(how)
           \/ FailRequest(how)
           \/ End(how) /\ UNCHANGED sent
    PROVE  UseInv'
<1>1. RequestsLeft' /\ pc' \in After
  BY OverRequests DEF UseInv
<1>2. result' # "tools"
  BY FailureIsNoDiscovery
<1>3. PagesInv'
  BY <1>2, OverPages DEF UseInv, environment
<1>4. PcInv'
  BY <1>1 DEF PcInv, After
<1> QED BY <1>1, <1>3, <1>4 DEF UseInv

\* A step on the way to an answer.
LEMMA OnTheWay ==
    ASSUME UseInv, pc # "end", UNCHANGED <<environment, session, result>>, BodyInv', PcInv', pc' # "end"
    PROVE  UseInv'
<1>1. RequestsLeft'
  BY DEF UseInv, RequestsLeft, environment, session, Counted
<1>2. PagesInv'
  BY DEF UseInv, PagesInv, environment, session, page
<1> QED BY <1>1, <1>2 DEF UseInv

LEMMA ResolveUses ==
    ASSUME PinnedInv, UseInv, LoadValidate \/ ConnectorValidate \/ FactoryValidate \/ RenderedDestination \/ Send
    PROVE  UseInv'
<1>0. BodyInv
  BY DEF UseInv
<1>1. pc \in {"resolve", "render"} /\ todo = <<>>
  BY DEF UseInv, PcInv, LoadValidate, ConnectorValidate, FactoryValidate, RenderedDestination, Send
<1>2. CASE Send
  <2>1. todo' # <<>> /\ pc' = "connect"
    BY <1>1, <1>2 DEF Send, PinnedInv
  <2>2. BodyInv'
    BY <1>0, <1>2, LimitsAreNumbers DEF Send, BodyInv, session, page
  <2> QED BY <1>1, <1>2, <2>1, <2>2, OnTheWay DEF Send, PcInv
<1>3. CASE RenderedDestination
  BY <1>0, <1>1, <1>3, RequestOver DEF RenderedDestination, BodyInv, page
<1>4. CASE LoadValidate \/ ConnectorValidate \/ FactoryValidate
  <2>1. UNCHANGED <<environment, todo, body, page>>
    BY <1>4 DEF LoadValidate, ConnectorValidate, FactoryValidate, session
  <2>2. BodyInv' /\ todo' = <<>>
    BY <1>0, <1>1, <2>1 DEF BodyInv, page
  <2>3. CASE pc' = "render" /\ UNCHANGED <<result, sent>>
    BY <1>1, <2>1, <2>2, <2>3, OnTheWay DEF PcInv, session
  <2>4. \/ pc' = "render" /\ UNCHANGED <<result, sent>>
        \/ Counted /\ NextRequest("request_error")
        \/ End("refused") /\ UNCHANGED sent
    BY <1>4 DEF LoadValidate, ConnectorValidate, FactoryValidate, session, Counted
  <2> QED BY <1>1, <2>1, <2>2, <2>3, <2>4, RequestOver DEF page
<1> QED BY <1>2, <1>3, <1>4

LEMMA ConnectUses ==
    ASSUME PinnedInv, UseInv, pc = "connect", Connects \/ Unreachable \/ Aborted
    PROVE  UseInv'
<1>0. BodyInv' /\ pc # "end"
  BY DEF UseInv, BodyInv, Connects, Unreachable, Aborted, page, session
<1>1. CASE Connects
  BY <1>0, <1>1, OnTheWay DEF Connects, PcInv
<1>2. CASE Aborted
  BY <1>0, <1>2, RequestOver DEF Aborted, page
<1>3. CASE Unreachable
  <2>1. CASE Len(todo) > 1
    <3>1. todo \in Seq(Permitted)
      BY DEF PinnedInv
    <3>2. Len(Tail(todo)) > 0
      BY <2>1, <3>1
    <3>3. Tail(todo) # <<>>
      BY <3>2, EmptyHasNoLength, Zenon
    <3>4. PcInv' /\ pc' # "end"
      BY <1>3, <2>1, <3>3 DEF Unreachable, PcInv
    <3> QED BY <1>0, <1>3, <2>1, <3>4, OnTheWay DEF Unreachable, session
  <2>2. CASE ~(Len(todo) > 1)
    BY <1>0, <1>3, <2>2, RequestOver DEF Unreachable, page
  <2> QED BY <2>1, <2>2
<1> QED BY <1>1, <1>2, <1>3

\* Reading stops one chunk behind the limit, or at it.
LEMMA ReadUses ==
    ASSUME UseInv, pc = "read",
           \/ body <= BodyLimit /\ Chunk
           \/ body < BodyLimit /\ Chunk
           \/ Overflow \/ Complete
    PROVE  UseInv'
<1>1. BodyInv /\ pc # "end" /\ todo = <<>>
  BY DEF UseInv, PcInv
<1>2. CASE body <= BodyLimit /\ Chunk
  <2>1. body \in Nat /\ BodyLimit \in Nat /\ body <= BodyLimit /\ body' = body + 1
    BY <1>1, <1>2, LimitsAreNumbers DEF BodyInv, Chunk
  <2>2. body' \in 0..(BodyLimit + 1)
    BY <2>1
  <2>3. BodyInv'
    BY <1>1, <1>2, <2>2 DEF BodyInv, Chunk, session, page
  <2> QED BY <1>1, <1>2, <2>3, OnTheWay DEF Chunk, PcInv
<1>3. CASE Complete
  BY <1>1, <1>3, OnTheWay DEF Complete, PcInv, BodyInv, session, page
<1>4. CASE Overflow
  <2>1. BodyInv'
    BY <1>1, <1>4, LimitsAreNumbers DEF BodyInv, Overflow, page
  <2> QED BY <1>1, <1>4, <2>1, RequestOver DEF Overflow, page
<1>5. body < BodyLimit => body <= BodyLimit
  BY <1>1, LimitsAreNumbers DEF BodyInv
<1> QED BY <1>2, <1>3, <1>4, <1>5

\* The answer is closed and the call goes on or ends.
LEMMA AnswerUses ==
    ASSUME UseInv, Broken \/ RequestTarget \/ RequestScenarioTarget \/ Login \/ ExecuteHttp
                   \/ RequireSuccess \/ TestHttp \/ RpcFails \/ Initialize \/ Initialized
    PROVE  UseInv'
<1>1. BodyInv /\ pc \in {"read", "answer"} /\ todo = <<>> /\ AnswerFrame /\ body' = 0
  BY DEF UseInv, PcInv, Broken, RequestTarget, RequestScenarioTarget, Login, ExecuteHttp,
     RequireSuccess, TestHttp, RpcFails, Initialize, Initialized, Close
<1>2. 0 \in 0..(BodyLimit + 1)
  BY LimitsAreNumbers
<1>3. ASSUME UNCHANGED extracted PROVE BodyInv'
  BY <1>1, <1>2, <1>3 DEF BodyInv
<1>4. CASE Broken
  BY <1>1, <1>3, <1>4, RequestOver DEF Broken, AnswerFrame, page
<1>5. CASE RequestTarget
  <2>1. PICK how \in {"success", "unexpected_status"} : NextRequest(how)
    BY <1>5 DEF RequestTarget
  <2> QED BY <1>1, <1>3, <1>5, <2>1, RequestOver DEF RequestTarget, Counted, AnswerFrame, page
<1>6. CASE RequestScenarioTarget
  <2>1. PICK how \in {"success", "unexpected_status", "extractor_error"} :
          (body > BodyLimit => how # "success") /\ NextRequest(how)
    BY <1>6 DEF RequestScenarioTarget
  <2>2. result' = how
    BY <2>1 DEF NextRequest, End
  <2>3. body \in Nat /\ BodyLimit \in Nat
    BY <1>1, LimitsAreNumbers DEF BodyInv
  <2>4. extracted' \in 0..BodyLimit
    BY <1>1, <1>6, <2>1, <2>2, <2>3 DEF RequestScenarioTarget, BodyInv
  <2>5. BodyInv'
    BY <1>1, <1>2, <2>4 DEF BodyInv
  <2> QED
    BY <1>1, <1>6, <2>1, <2>5, RequestOver DEF RequestScenarioTarget, Counted, AnswerFrame
<1>7. CASE Login \/ ExecuteHttp \/ RequireSuccess \/ TestHttp \/ RpcFails
  <2>1. PICK how : how # "tools" /\ End(how)
    BY <1>7 DEF Login, ExecuteHttp, RequireSuccess, TestHttp, RpcFails
  <2>2. UNCHANGED session
    BY <1>7 DEF Login, ExecuteHttp, RequireSuccess, TestHttp, RpcFails
  <2> QED BY <1>1, <1>3, <2>1, <2>2, RequestOver DEF AnswerFrame, session, page
<1>8. CASE Initialize \/ Initialized
  <2>1. /\ pc' = "resolve" /\ UNCHANGED <<sent, cursor, tools, extracted, result>>
        /\ phase \in {"initialize", "initialized"} /\ phase' \in {"initialized", "list"}
    BY <1>8 DEF Initialize, Initialized
  <2>2. RequestsLeft'
    BY <1>1, <2>1 DEF UseInv, RequestsLeft, AnswerFrame, environment, Counted
  <2>3. PagesInv'
    BY <1>1, <2>1 DEF UseInv, PagesInv, AnswerFrame, environment
  <2> QED BY <1>1, <1>3, <2>1, <2>2, <2>3 DEF UseInv, PcInv, AnswerFrame
<1> QED BY <1>4, <1>5, <1>6, <1>7, <1>8

\* A page belongs to the request it answers: _parse_mcp_payload takes no other.
LEMMA ListedPage ==
    ASSUME phase = "list", NEW payload \in Payloads
    PROVE  ParseMcpPayload(payload) \in {"nothing", "mine", "invalid"}
<1>1. CASE payload = [stream |-> FALSE, events |-> <<"mine">>]
  <2>1. payload.events = <<"mine">>
    BY <1>1
  <2>2. payload.events[1] = "mine"
    BY <2>1
  <2> QED BY <1>1, <2>1, <2>2 DEF ParseMcpPayload
<1>2. CASE payload.stream = TRUE
  BY <1>2 DEF ParseMcpPayload
<1> QED BY <1>1, <1>2 DEF Payloads

\* The pages add up to the catalogue when the server has no more.
LEMMA PageAdds ==
    ASSUME PagesInv, pc # "end"
    PROVE  /\ tools + PageAt(cursor) \in Nat /\ NextCursor(cursor) \in Nat
           /\ ~endless => tools + PageAt(cursor) = NextCursor(cursor) /\ NextCursor(cursor) <= catalogue
           /\ ~HasNext(cursor) => ~endless /\ tools + PageAt(cursor) = catalogue
<1>1. cursor \in Nat /\ tools \in Nat /\ catalogue \in Nat
  BY DEF PagesInv
<1>2. CASE endless
  BY <1>1, <1>2 DEF PageAt, NextCursor, HasNext
<1>3. CASE ~endless
  <2>1. tools = cursor /\ cursor <= catalogue
    BY <1>3 DEF PagesInv
  <2>2. PageAt(cursor) = Least(PageSize, catalogue - cursor) /\ NextCursor(cursor) = cursor + PageAt(cursor)
    BY <1>3 DEF PageAt, NextCursor
  <2>3. PageAt(cursor) \in Nat /\ PageAt(cursor) <= catalogue - cursor
    BY <1>1, <2>1, <2>2, LimitsAreNumbers DEF Least
  <2>4. ~HasNext(cursor) => ~(cursor + PageAt(cursor) < catalogue)
    BY <1>3, <2>2 DEF HasNext
  <2>5. ~(cursor + PageAt(cursor) < catalogue) => cursor + PageAt(cursor) = catalogue
    BY <1>1, <2>1, <2>3
  <2>6. cursor + PageAt(cursor) \in Nat /\ cursor + PageAt(cursor) <= catalogue
    BY <1>1, <2>1, <2>3
  <2> QED BY <1>3, <2>1, <2>2, <2>4, <2>5, <2>6
<1> QED BY <1>2, <1>3

\* One page more, or the end of the discovery.
LEMMA ListUses == ASSUME UseInv, ListTools PROVE UseInv'
<1>1. BodyInv /\ pc = "answer" /\ todo = <<>> /\ AnswerFrame /\ body' = 0 /\ phase = "list" /\ UNCHANGED <<phase, extracted>>
  BY DEF UseInv, PcInv, ListTools, Close
<1>2. BodyInv'
  BY <1>1, LimitsAreNumbers DEF BodyInv
<1>3. PICK payload \in Payloads :
        /\ ParseMcpPayload(payload) \in {"mine", "old"}
        /\ LET c == Answered(ParseMcpPayload(payload)) IN
             /\ tools' = tools + PageAt(c)
             /\ IF tools' > MaxTools THEN End("mcp_error") /\ UNCHANGED <<cursor, sent>>
                ELSE IF ~HasNext(c) THEN End("tools") /\ UNCHANGED <<cursor, sent>>
                ELSE /\ sent' = sent + 1 /\ cursor' = NextCursor(c)
                     /\ IF sent + 1 < MaxPages THEN pc' = "resolve" /\ UNCHANGED result
                        ELSE End("mcp_error")
  BY DEF ListTools
<1>4. ParseMcpPayload(payload) = "mine"
  BY <1>1, <1>3, ListedPage
<1>5. Answered(ParseMcpPayload(payload)) = cursor
  BY <1>4 DEF Answered
<1>6. /\ tools' = tools + PageAt(cursor)
      /\ \/ End("mcp_error") /\ UNCHANGED <<cursor, sent>>
         \/ ~HasNext(cursor) /\ End("tools") /\ UNCHANGED <<cursor, sent>>
         \/ /\ sent' = sent + 1 /\ cursor' = NextCursor(cursor)
            /\ \/ sent + 1 < MaxPages /\ pc' = "resolve" /\ UNCHANGED result
               \/ End("mcp_error")
  BY <1>3, <1>5
<1>7. client = "mcp" /\ UNCHANGED <<client, catalogue, endless, todo>>
  BY <1>1 DEF UseInv, PagesInv, AnswerFrame, environment
<1>8. PagesInv'
  <2>1. /\ tools + PageAt(cursor) \in Nat /\ NextCursor(cursor) \in Nat
        /\ ~endless => tools + PageAt(cursor) = NextCursor(cursor) /\ NextCursor(cursor) <= catalogue
        /\ ~HasNext(cursor) => ~endless /\ tools + PageAt(cursor) = catalogue
    BY <1>1, PageAdds DEF UseInv
  <2>2. PagesInv /\ pc # "end"
    BY <1>1 DEF UseInv
  <2>3. CASE End("mcp_error") /\ UNCHANGED <<cursor, sent>>
    BY <1>1, <1>6, <1>7, <2>1, <2>2, <2>3 DEF PagesInv, End
  <2>4. CASE ~HasNext(cursor) /\ End("tools") /\ UNCHANGED <<cursor, sent>>
    BY <1>1, <1>6, <1>7, <2>1, <2>2, <2>4 DEF PagesInv, End
  <2>5. CASE /\ cursor' = NextCursor(cursor)
             /\ \/ pc' = "resolve" /\ UNCHANGED result
                \/ End("mcp_error")
    BY <1>1, <1>6, <1>7, <2>1, <2>2, <2>5 DEF PagesInv, End
  <2> QED BY <1>6, <2>3, <2>4, <2>5
<1>9. RequestsLeft'
  <2>1. sent \in Nat /\ sent < MaxPages /\ MaxPages \in Nat /\ ~Counted /\ ~Counted'
    BY <1>1, <1>7, LimitsAreNumbers DEF UseInv, RequestsLeft, Counted
  <2>2. \/ UNCHANGED sent
        \/ sent' = sent + 1 /\ (sent + 1 < MaxPages \/ pc' = "end")
    BY <1>6 DEF End
  <2>3. sent' \in Nat /\ sent' <= MaxPages /\ (pc' # "end" => sent' < MaxPages)
    BY <2>1, <2>2
  <2> QED BY <1>7, <2>1, <2>3 DEF RequestsLeft
<1>10. PcInv'
  BY <1>1, <1>6, <1>7 DEF PcInv, End
<1> QED BY <1>2, <1>8, <1>9, <1>10 DEF UseInv

LEMMA UseStep == ASSUME PinnedInv, UseInv, [Next]_vars PROVE UseInv'
<1>1. CASE Call
  <2>1. CASE LoadConnect \/ ConnectorConnect \/ FactoryConnect
    BY <2>1, ConnectUses DEF LoadConnect, ConnectorConnect, FactoryConnect
  <2>2. CASE CapturedBody \/ LimitedBody \/ ConnectorBody \/ FactoryBody
    BY <2>2, ReadUses DEF CapturedBody, LimitedBody, ConnectorBody, FactoryBody
  <2> QED BY <1>1, <2>1, <2>2, ResolveUses, AnswerUses, ListUses DEF Call
<1>2. CASE Rebind \/ UNCHANGED call
  <2>1. UNCHANGED <<environment, client, catalogue, endless, pc, todo, body, sent, phase, cursor, tools, extracted, result>>
    BY <1>2 DEF Rebind, call, environment, session, page
  <2> QED
    BY <2>1 DEF UseInv, RequestsLeft, BodyInv, PagesInv, PcInv, Counted
<1> QED BY <1>1, <1>2 DEF Next, Ended, vars

LEMMA UseInit == Init => UseInv
<1> SUFFICES ASSUME Init PROVE UseInv
  OBVIOUS
<1>1. catalogue \in 0..(MaxTools + 1)
  BY LimitsAreNumbers DEF Init
<1>2. catalogue \in Nat /\ 0 <= catalogue
  BY <1>1, LimitsAreNumbers
<1>3. /\ sent = 0 /\ cursor = 0 /\ tools = 0 /\ extracted = 0 /\ result = "none" /\ body = 0 /\ todo = <<>>
      /\ pc \in {"resolve", "end"} /\ phase \in {"none", "initialize"} /\ (phase # "none" => client = "mcp")
  BY DEF Init
<1>4. RequestsLeft /\ BodyInv
  BY <1>3, LimitsAreNumbers DEF RequestsLeft, BodyInv
<1> QED BY <1>2, <1>3, <1>4 DEF UseInv, PagesInv, PcInv

-----------------------------------------------------------------------------
(* The steps of an HTTP task.  m is the index of the main request.         *)

Ordered(m) ==
    /\ m \in DOMAIN plan
    /\ \A i \in DOMAIN plan :
          plan[i].phase = IF i < m THEN "before" ELSE IF i = m THEN "main" ELSE "after"

Fails(i) == Decides(i) /\ outcomes[i] \notin {"SUCCEEDED", "skipped"}

FirstFailure ==
    \/ (\A i \in DOMAIN plan : ~Fails(i)) /\ primary = "SUCCEEDED"
    \/ \E i \in DOMAIN plan : /\ Fails(i) /\ primary = outcomes[i]
                              /\ \A j \in DOMAIN plan : Fails(j) => i <= j

\* Up to the main request nothing has failed; behind it the result is that of
\* the first failure, and every after step so far has an outcome.
TaskAt(m) ==
    /\ at \in 0..(Len(plan) + 1) /\ (asking => Running)
    /\ outcomes \in [DOMAIN plan -> Outcomes \cup {"skipped"}]
    /\ primary \in Outcomes \cup {"none"}
    /\ \A i \in DOMAIN plan : i >= at => outcomes[i] = "skipped"
    /\ at > 1 /\ outcomes[1] = "skipped" => at = Len(plan) + 1 /\ primary = "TIMED_OUT"
    /\ at <= m => primary = "none" /\ \A i \in DOMAIN plan : ~Fails(i)
    /\ at > m /\ outcomes[1] # "skipped" =>
          FirstFailure /\ \A i \in DOMAIN plan : m < i /\ i < at => outcomes[i] # "skipped"

\* A step has raised: the task is over, and the after steps before it have an outcome.
TaskRaised(m) ==
    /\ at = Len(plan) + 1 /\ ~asking /\ primary = "INFRA_ERROR"
    /\ \E r \in DOMAIN plan :
          outcomes[r] = "raised" /\ \A i \in DOMAIN plan : m < i /\ i < r => outcomes[i] # "skipped"

TaskInv ==
    /\ client # "runner" => plan = <<>> /\ at = 0 /\ ~asking /\ primary = "none"
    /\ client = "runner" =>
          plan \in Seq(Steps) /\ \E m \in DOMAIN plan : Ordered(m) /\ (TaskAt(m) \/ TaskRaised(m))

\* A task's steps are numbered, and its main request is one of them.
LEMMA PlanIndices ==
    ASSUME plan \in Seq(Steps), NEW m, Ordered(m)
    PROVE  Len(plan) \in Nat /\ DOMAIN plan = 1..Len(plan) /\ m \in 1..Len(plan) /\ 1 \in DOMAIN plan
<1>1. Len(plan) \in Nat /\ DOMAIN plan = 1..Len(plan)
  OBVIOUS
<1> QED BY <1>1 DEF Ordered

\* The after steps are those behind the main request.
LEMMA AfterStepsFollow ==
    ASSUME plan \in Seq(Steps), NEW m, Ordered(m)
    PROVE  FirstAfterStep = m + 1
<1>1. Len(plan) \in Nat /\ DOMAIN plan = 1..Len(plan) /\ m \in 1..Len(plan)
  BY PlanIndices
<1>2. \A i \in DOMAIN plan : plan[i].phase = "after" <=> i > m
  BY <1>1 DEF Ordered
<1>3. PhaseSteps("after") = (m + 1)..Len(plan)
  BY <1>1, <1>2 DEF PhaseSteps
<1>4. Cardinality((m + 1)..Len(plan)) = IF m + 1 > Len(plan) THEN 0 ELSE Len(plan) - (m + 1) + 1
  <2>1. m + 1 \in Int /\ Len(plan) \in Int
    BY <1>1
  <2> QED BY <2>1, FS_Interval, Zenon
<1>5. Len(plan) + 1 - Cardinality((m + 1)..Len(plan)) = m + 1
  BY <1>1, <1>4
<1> QED BY <1>3, <1>5 DEF FirstAfterStep

\* One step of a task ends with an outcome.
LEMMA StepEnds ==
    ASSUME plan \in Seq(Steps), NEW m, Ordered(m), TaskAt(m), Running,
           NEW o \in Outcomes, NEW extracts, EndStep(o, extracts)
    PROVE  TaskAt(m)'
<1>1. /\ Len(plan) \in Nat /\ DOMAIN plan = 1..Len(plan) /\ m \in 1..Len(plan) /\ 1 \in DOMAIN plan
      /\ at \in DOMAIN plan /\ at \in Nat
  BY PlanIndices DEF Running
<1>2. plan' = plan /\ primary' = Primary(o) /\ at' = NextStep(o) /\ ~asking'
  BY DEF EndStep
<1>3. /\ outcomes' \in [DOMAIN plan -> Outcomes \cup {"skipped"}] /\ outcomes'[at] = o
      /\ \A i \in DOMAIN plan : i # at => outcomes'[i] = outcomes[i]
  BY <1>1 DEF EndStep, TaskAt
<1>4. o # "skipped"
  BY DEF Outcomes
<1>5. \A i \in DOMAIN plan : Decides(i)' = Decides(i)
  BY <1>2 DEF Decides
<1>0. PICK k \in Nat : k = at
  BY <1>1
<1>6. /\ Fails(k)' <=> Failed(o)
      /\ \A i \in DOMAIN plan : i # at => Fails(i)' = Fails(i)
      /\ ~Fails(at)
  BY <1>0, <1>1, <1>3, <1>4, <1>5 DEF Fails, Failed, TaskAt
<1>7. outcomes'[1] # "skipped"
  <2>1. CASE at = 1
    BY <1>3, <1>4, <2>1
  <2>2. CASE at # 1
    <3>1. at > 1 /\ at # Len(plan) + 1
      BY <1>1, <2>2
    <3> QED BY <1>1, <1>3, <2>2, <3>1 DEF TaskAt
  <2> QED BY <2>1, <2>2
<1>8. CASE at < m
  <2>1. plan[at].phase = "before"
    BY <1>1, <1>8 DEF Ordered
  <2>2. primary = "none" /\ \A i \in DOMAIN plan : ~Fails(i)
    BY <1>1, <1>8 DEF TaskAt
  <2>3. CASE Failed(o)
    <3>1. at' = m + 1 /\ primary' = o
      BY <1>2, <2>1, <2>3, AfterStepsFollow DEF NextStep, Primary
    <3>2. FirstFailure'
      <4>1. Fails(k)' /\ \A j \in DOMAIN plan : j # at => ~Fails(j)'
        BY <1>0, <1>6, <2>2, <2>3
      <4> QED BY <1>0, <1>1, <1>2, <1>3, <3>1, <4>1 DEF FirstFailure
    <3>3. /\ at' \in 0..(Len(plan) + 1) /\ at' > m /\ ~(at' <= m)
          /\ \A i \in DOMAIN plan : i >= at' => i >= at /\ i # at
          /\ \A i \in DOMAIN plan : ~(m < i /\ i < at')
      BY <1>1, <1>8, <3>1
    <3>4. \A i \in DOMAIN plan : i >= at' => outcomes'[i] = "skipped"
      BY <1>3, <3>3 DEF TaskAt
    <3> QED BY <1>2, <1>3, <1>7, <3>1, <3>2, <3>3, <3>4 DEF TaskAt
  <2>4. CASE ~Failed(o)
    <3>1. at' = at + 1 /\ primary' = primary
      BY <1>2, <2>1, <2>4 DEF NextStep, Primary
    <3>2. \A i \in DOMAIN plan : ~Fails(i)'
      BY <1>0, <1>6, <2>2, <2>4
    <3>3. /\ at' \in 0..(Len(plan) + 1) /\ ~(at' > m)
          /\ \A i \in DOMAIN plan : i >= at' => i >= at /\ i # at
      BY <1>1, <1>8, <3>1
    <3>4. \A i \in DOMAIN plan : i >= at' => outcomes'[i] = "skipped"
      BY <1>3, <3>3 DEF TaskAt
    <3> QED BY <1>2, <1>3, <1>7, <2>2, <3>1, <3>2, <3>3, <3>4 DEF TaskAt
  <2> QED BY <2>3, <2>4
<1>9. CASE at >= m
  <2>1. plan[at].phase = IF at = m THEN "main" ELSE "after"
    BY <1>1, <1>9 DEF Ordered
  <2>2. at' = at + 1
    BY <1>2, <2>1 DEF NextStep
  <2>3. /\ at' \in 0..(Len(plan) + 1) /\ at' > m /\ ~(at' <= m)
        /\ \A i \in DOMAIN plan : i >= at' => i >= at /\ i # at
        /\ \A i \in DOMAIN plan : m < i /\ i < at' => (i = at \/ (m < i /\ i < at))
    BY <1>1, <1>9, <2>2
  <2>4. \A i \in DOMAIN plan : i >= at' => outcomes'[i] = "skipped"
    BY <1>3, <2>3 DEF TaskAt
  <2>5. /\ FirstFailure' /\ primary' \in Outcomes
        /\ \A i \in DOMAIN plan : m < i /\ i < at' => outcomes'[i] # "skipped"
    <3>1. CASE at = m
      <4>1. primary' = o /\ (Failed(o) <=> o # "SUCCEEDED")
        BY <1>1, <1>2, <2>1, <3>1 DEF Primary, Failed, Decides
      <4>2. \A j \in DOMAIN plan : j # at => ~Fails(j)'
        BY <1>1, <1>6, <3>1 DEF TaskAt
      <4>3. FirstFailure'
        BY <1>0, <1>1, <1>2, <1>3, <1>6, <4>1, <4>2 DEF FirstFailure
      <4>4. \A i \in DOMAIN plan : m < i /\ i < at' => outcomes'[i] # "skipped"
        BY <1>1, <2>2, <3>1
      <4> QED BY <4>1, <4>3, <4>4
    <3>2. CASE at # m
      <4>1. at > m /\ at > 1 /\ at # Len(plan) + 1
        BY <1>1, <1>9, <3>2
      <4>2. outcomes[1] # "skipped"
        BY <4>1 DEF TaskAt
      <4>3. FirstFailure /\ \A i \in DOMAIN plan : m < i /\ i < at => outcomes[i] # "skipped"
        BY <4>1, <4>2 DEF TaskAt
      <4>4. primary' = IF Failed(o) /\ primary = "SUCCEEDED" THEN o ELSE primary
        BY <1>2, <2>1, <3>2 DEF Primary
      <4>5. \A i \in DOMAIN plan : m < i /\ i < at' => outcomes'[i] # "skipped"
        BY <1>3, <1>4, <2>3, <4>3
      <4>6. primary' \in Outcomes
        BY <4>3, <4>4 DEF FirstFailure, Fails, TaskAt, Outcomes
      <4>7. FirstFailure'
        <5>1. CASE (\A i \in DOMAIN plan : ~Fails(i)) /\ primary = "SUCCEEDED"
          BY <1>0, <1>1, <1>2, <1>3, <1>6, <4>4, <5>1 DEF FirstFailure
        <5>2. ASSUME NEW i \in DOMAIN plan, Fails(i), primary = outcomes[i],
                     \A j \in DOMAIN plan : Fails(j) => i <= j
              PROVE  FirstFailure'
          <6>1. i # at /\ primary # "SUCCEEDED"
            BY <1>6, <5>2 DEF Fails
          <6>2. outcomes[i] # "skipped"
            BY <5>2 DEF Fails
          <6>3. i <= at
            BY <1>1, <6>2 DEF TaskAt
          <6>4. \A j \in DOMAIN plan : Fails(j)' => i <= j
            BY <1>0, <1>6, <5>2, <6>3
          <6> QED BY <1>2, <1>3, <1>6, <4>4, <5>2, <6>1, <6>4 DEF FirstFailure
        <5> QED BY <4>3, <5>1, <5>2 DEF FirstFailure
      <4> QED BY <4>5, <4>6, <4>7
    <3> QED BY <3>1, <3>2
  <2> QED BY <1>2, <1>3, <1>7, <2>3, <2>4, <2>5 DEF TaskAt
<1> QED BY <1>1, <1>8, <1>9

\* One step of a task raises.
LEMMA RaiseEnds ==
    ASSUME plan \in Seq(Steps), NEW m, Ordered(m), TaskAt(m), StepRaises
    PROVE  TaskRaised(m)'
<1>1. /\ Len(plan) \in Nat /\ DOMAIN plan = 1..Len(plan) /\ m \in 1..Len(plan)
      /\ at \in DOMAIN plan /\ at \in Nat
  BY PlanIndices DEF StepRaises, Running
<1>2. plan' = plan /\ at' = Len(plan) + 1 /\ ~asking' /\ primary' = "INFRA_ERROR"
  BY DEF StepRaises
<1>3. outcomes'[at] = "raised" /\ \A i \in DOMAIN plan : i # at => outcomes'[i] = outcomes[i]
  BY <1>1 DEF StepRaises, TaskAt
<1>4. ASSUME NEW i \in DOMAIN plan, m < i, i < at PROVE outcomes[i] # "skipped"
  <2>1. at > m /\ at > 1 /\ at # Len(plan) + 1
    BY <1>1, <1>4
  <2> QED BY <1>4, <2>1 DEF TaskAt
<1>5. \A i \in DOMAIN plan : m < i /\ i < at => outcomes'[i] # "skipped"
  BY <1>1, <1>3, <1>4
<1>6. PICK r \in DOMAIN plan : r = at
  BY <1>1
<1> QED BY <1>2, <1>3, <1>5, <1>6 DEF TaskRaised

\* Behind a step that raised, a task does nothing more.
LEMMA RaisedIsOver ==
    ASSUME plan \in Seq(Steps), NEW m, TaskRaised(m), AdapterStep \/ DeadlinePasses PROVE FALSE
<1>1. Len(plan) \in Nat /\ DOMAIN plan = 1..Len(plan)
  OBVIOUS
<1>2. at # 0 /\ ~Running /\ AdapterEnded /\ ~asking
  BY <1>1 DEF TaskRaised, Running, AdapterEnded
<1> QED BY <1>2 DEF AdapterStep, DeadlinePasses, StartTask, InvalidStep, DeadlineExceeded, SendRequest,
           RequestFails, ExtractionFails, StepAnswered, StepRaises

\* The adapter's steps, and the deadline, keep the task's part.
LEMMA AdapterKeeps ==
    ASSUME TaskInv, client = "runner", client' = client, AdapterStep \/ DeadlinePasses
    PROVE  TaskInv'
<1>1. plan \in Seq(Steps)
  BY DEF TaskInv
<1>2. PICK m \in DOMAIN plan : Ordered(m) /\ TaskAt(m)
  BY <1>1, RaisedIsOver DEF TaskInv
<1>3. UNCHANGED plan
  BY DEF AdapterStep, StartTask, InvalidStep, DeadlineExceeded, SendRequest, RequestFails,
     ExtractionFails, StepAnswered, StepRaises, EndStep, DeadlinePasses
<1>4. Ordered(m)'
  BY <1>2, <1>3 DEF Ordered
<1>5. TaskAt(m)' \/ TaskRaised(m)'
  <2>1. CASE DeadlinePasses \/ SendRequest
    <3>1. UNCHANGED <<plan, at, primary, outcomes>> /\ (asking' => Running')
      BY <1>2, <2>1 DEF DeadlinePasses, SendRequest, Running, TaskAt
    <3> QED BY <1>2, <3>1 DEF TaskAt, FirstFailure, Fails, Decides
  <2>2. CASE StartTask
    <3>1. Len(plan) \in Nat /\ DOMAIN plan = 1..Len(plan) /\ m \in 1..Len(plan) /\ 1 \in DOMAIN plan
      BY <1>1, <1>2, PlanIndices
    <3>2. at = 0 /\ UNCHANGED <<plan, outcomes>> /\ ~asking'
      BY <1>2, <2>2, <3>1 DEF StartTask, TaskAt, Running
    <3>3. /\ outcomes' \in [DOMAIN plan -> Outcomes \cup {"skipped"}]
          /\ \A i \in DOMAIN plan : outcomes'[i] = "skipped" /\ ~Fails(i)'
      BY <1>2, <3>1, <3>2 DEF TaskAt, Fails
    <3>4. primary = "none"
      BY <1>2, <3>1, <3>2 DEF TaskAt
    <3>5. CASE expired
      <4>1. at' = Len(plan) + 1 /\ primary' = "TIMED_OUT"
        BY <2>2, <3>5 DEF StartTask
      <4>2. at' \in 0..(Len(plan) + 1) /\ ~(at' <= m)
        BY <3>1, <4>1
      <4> QED BY <3>1, <3>2, <3>3, <4>1, <4>2 DEF TaskAt, Outcomes
    <3>6. CASE ~expired
      <4>1. at' = 1 /\ primary' = primary
        BY <2>2, <3>6 DEF StartTask
      <4>2. at' \in 0..(Len(plan) + 1) /\ ~(at' > m) /\ ~(at' > 1)
        BY <3>1, <4>1
      <4> QED BY <3>2, <3>3, <3>4, <4>1, <4>2 DEF TaskAt
    <3> QED BY <3>5, <3>6
  <2>3. CASE InvalidStep \/ DeadlineExceeded \/ RequestFails \/ ExtractionFails \/ StepAnswered
    <3>1. Running
      BY <1>2, <2>3 DEF InvalidStep, DeadlineExceeded, RequestFails, ExtractionFails, StepAnswered, TaskAt
    <3>2. \E o \in Outcomes : \E x : EndStep(o, x)
      BY <2>3 DEF InvalidStep, DeadlineExceeded, RequestFails, ExtractionFails, StepAnswered, Outcomes
    <3> QED BY <1>1, <1>2, <3>1, <3>2, StepEnds
  <2>4. CASE StepRaises
    BY <1>1, <1>2, <2>4, RaiseEnds
  <2> QED BY <2>1, <2>2, <2>3, <2>4 DEF AdapterStep
<1> QED BY <1>1, <1>3, <1>4, <1>5 DEF TaskInv

LEMMA TaskStep == ASSUME TaskInv, [Next]_vars PROVE TaskInv'
<1>1. CASE UNCHANGED adapterVars /\ UNCHANGED client
  BY <1>1 DEF adapterVars, TaskInv, Ordered, TaskAt, TaskRaised, FirstFailure, Fails, Decides, Running
<1>2. CASE (AdapterStep \/ DeadlinePasses) /\ client = "runner" /\ UNCHANGED call
  BY <1>2, AdapterKeeps DEF call, environment
<1>3. CASE (Call \/ Rebind) /\ UNCHANGED adapterVars
  <2>1. UNCHANGED environment
    BY <1>3 DEF Call, Rebind, LoadValidate, ConnectorValidate, FactoryValidate, RenderedDestination, Send,
       LoadConnect, ConnectorConnect, FactoryConnect, Connects, Unreachable, Aborted, CapturedBody,
       LimitedBody, ConnectorBody, FactoryBody, Chunk, Complete, Overflow, Broken, RequestTarget,
       RequestScenarioTarget, Login, ExecuteHttp, RequireSuccess, TestHttp, RpcFails, Initialize,
       Initialized, ListTools, AnswerFrame
  <2> QED BY <1>1, <1>3, <2>1 DEF environment
<1>4. CASE UNCHANGED vars
  BY <1>1, <1>4 DEF vars, call, environment
<1> QED BY <1>2, <1>3, <1>4 DEF Next, Ended

LEMMA TaskInit == Init => TaskInv
<1> SUFFICES ASSUME Init PROVE TaskInv
  OBVIOUS
<1>1. AdapterInit /\ (client # "runner" => plan = <<>>) /\ (client = "runner" => plan \in Plans)
  BY DEF Init
<1>2. ASSUME client = "runner" PROVE plan \in Seq(Steps) /\ \E m \in DOMAIN plan : Ordered(m) /\ TaskAt(m)
  <2>1. plan \in Seq(Steps)
    BY <1>1, <1>2, PlansAssumption
  <2>2. PICK m \in DOMAIN plan : Ordered(m)
    BY <1>1, <1>2, PlansAssumption DEF Ordered
  <2>3. Len(plan) \in Nat /\ m \in 1..Len(plan)
    BY <2>1, <2>2, PlanIndices
  <2>4. TaskAt(m)
    BY <1>1, <2>3 DEF AdapterInit, TaskAt, Fails
  <2> QED BY <2>1, <2>2, <2>4
<1> QED BY <1>1, <1>2 DEF TaskInv, AdapterInit

\* What a task has come to when it ends.
LEMMA TaskEnds == ASSUME TaskInv PROVE AdapterTypeOK /\ TaskRunsToItsEnd
<1>1. CASE client # "runner"
  <2>1. at = 0 /\ Len(plan) = 0 /\ ~asking /\ primary = "none"
    BY <1>1 DEF TaskInv
  <2> QED BY <2>1 DEF AdapterTypeOK, AdapterEnded, TaskRunsToItsEnd, AfterStepsRun, OutcomeIsFirstFailure
<1>2. CASE client = "runner"
  <2>1. plan \in Seq(Steps)
    BY <1>2 DEF TaskInv
  <2>2. PICK m \in DOMAIN plan : Ordered(m) /\ (TaskAt(m) \/ TaskRaised(m))
    BY <1>2 DEF TaskInv
  <2>3. Len(plan) \in Nat /\ DOMAIN plan = 1..Len(plan) /\ m \in 1..Len(plan)
    BY <2>1, <2>2, PlanIndices
  <2>4. ASSUME NEW i \in PhaseSteps("after") PROVE i \in DOMAIN plan /\ m < i
    <3>1. i \in DOMAIN plan /\ plan[i].phase = "after"
      BY <2>4 DEF PhaseSteps
    <3>2. ~(i < m) /\ i # m
      BY <2>2, <3>1 DEF Ordered
    <3> QED BY <2>3, <3>1, <3>2
  <2>5. CASE TaskAt(m)
    <3>1. at \in Nat /\ (AdapterEnded => at > m /\ at = Len(plan) + 1 /\ at > 1)
      BY <2>3, <2>5 DEF AdapterEnded, TaskAt
    <3>2. AdapterEnded => primary # "none"
      BY <2>5, <3>1 DEF TaskAt, FirstFailure, Fails, Outcomes
    <3>3. AdapterTypeOK
      BY <2>5, <3>2 DEF AdapterTypeOK, TaskAt
    <3>4. AfterStepsRun
      <4> SUFFICES ASSUME AdapterEnded, outcomes[1] # "skipped", NEW i \in PhaseSteps("after")
                   PROVE  outcomes[i] # "skipped"
        BY DEF AfterStepsRun
      <4>1. m < i /\ i < at /\ i \in DOMAIN plan
        BY <2>3, <2>4, <3>1
      <4> QED BY <2>5, <3>1, <4>1 DEF TaskAt
    <3>5. OutcomeIsFirstFailure
      <4> SUFFICES ASSUME AdapterEnded, outcomes[1] # "skipped"
                   PROVE  LET failures == {i \in DOMAIN plan : Decides(i) /\ outcomes[i] \notin {"SUCCEEDED", "skipped"}}
                          IN  \/ failures = {} /\ primary = "SUCCEEDED"
                              \/ \E i \in failures : primary = outcomes[i] /\ \A j \in failures : i <= j
        <5>1. ~\E i \in DOMAIN plan : outcomes[i] = "raised"
          BY <2>5 DEF TaskAt, Outcomes
        <5> QED BY <5>1 DEF OutcomeIsFirstFailure
      <4>1. FirstFailure
        BY <2>5, <3>1 DEF TaskAt
      <4> QED BY <4>1 DEF FirstFailure, Fails
    <3> QED BY <3>3, <3>4, <3>5 DEF TaskRunsToItsEnd
  <2>6. CASE TaskRaised(m)
    <3>1. PICK r \in DOMAIN plan :
             outcomes[r] = "raised" /\ \A i \in DOMAIN plan : m < i /\ i < r => outcomes[i] # "skipped"
      BY <2>6 DEF TaskRaised
    <3>2. AdapterTypeOK
      BY <2>3, <2>6 DEF AdapterTypeOK, TaskRaised, Outcomes
    <3>3. AfterStepsRun
      <4> SUFFICES ASSUME NEW i \in PhaseSteps("after"), outcomes[i] = "skipped" PROVE r < i
        BY <3>1 DEF AfterStepsRun
      <4> QED BY <2>3, <2>4, <3>1
    <3>4. OutcomeIsFirstFailure
      BY <2>6, <3>1 DEF OutcomeIsFirstFailure, TaskRaised
    <3> QED BY <3>2, <3>3, <3>4 DEF TaskRunsToItsEnd
  <2> QED BY <2>2, <2>5, <2>6
<1> QED BY <1>1, <1>2

-----------------------------------------------------------------------------
\* However large an answer is, however many pages a server lists and whatever
\* its event stream still carries, no more than the limit is held and what is
\* made of an answer is made of all of it.
THEOREM WholeAnswersAreUsed == Spec => []AnswersAreUsedWhole
<1>1. Init => PinnedInv /\ UseInv /\ TaskInv
  BY PinnedInit, UseInit, TaskInit
<1>2. PinnedInv /\ UseInv /\ TaskInv /\ [Next]_vars => (PinnedInv /\ UseInv /\ TaskInv)'
  BY PinnedStep, UseStep, TaskStep
<1>3. PinnedInv /\ UseInv /\ TaskInv => AnswersAreUsedWhole
  <2> SUFFICES ASSUME PinnedInv, UseInv, TaskInv PROVE AnswersAreUsedWhole
    OBVIOUS
  <2>1. connected \in Addresses \cup {"none"}
    <3>1. client # "runner" => Permitted \subseteq Addresses
      BY DEF PinnedInv, Clients, Permitted, LoadTest, Connector, Factory, LoadIsPublic, Addresses,
         LoadIsAllowedPrivate, ConnectorIsPublic, ConnectorIsAllowedPrivate, FactoryIsGlobal
    <3> QED BY <3>1 DEF PinnedInv
  <2>2. sent \in 0..(IF client = "mcp" THEN MaxPages ELSE MaxRequests)
    BY LimitsAreNumbers DEF UseInv, RequestsLeft
  <2>3. TypeOK
    BY <2>1, <2>2, TaskEnds DEF TypeOK, PinnedInv, UseInv, PcInv, PagesInv
  <2>4. BodyIsBounded /\ ExtractedFromWhole
    BY LimitsAreNumbers DEF UseInv, BodyInv, BodyIsBounded, ExtractedFromWhole
  <2> QED BY <2>3, <2>4 DEF AnswersAreUsedWhole, DiscoveryIsComplete, UseInv, PagesInv
<1> QED BY <1>1, <1>2, <1>3, PTL DEF Spec

\* Whichever of its steps fail or meet the deadline, an HTTP task that has begun
\* executes its after steps and ends with the first failure that counts; one of its
\* steps that raises what nothing catches ends it as an INFRA_ERROR, and only after
\* steps behind that step are left out (HTTPAdapter.run, agent.py).
THEOREM TasksRunToTheirEnd == Spec => []TaskRunsToItsEnd
<1>1. TaskInv /\ [Next]_vars => TaskInv'
  BY TaskStep
<1>2. TaskInv => TaskRunsToItsEnd
  BY TaskEnds
<1> QED BY <1>1, <1>2, TaskInit, PTL DEF Spec

-----------------------------------------------------------------------------
(* SourceStore: slots, stored contents, accepted versions, workspaces.     *)

Entries == [name : Names, dir : BOOLEAN, plain : BOOLEAN, declared : Nat, actual : Nat]
GitSteps == {"join", "rejoin", "wait", "close", "abandon", "returned", "timeout"}
JobSteps == GitSteps \cup {"idle", "put", "replace", "stored", "failed", "fetch"}
FileStates == {"none", "tmp", "whole", "broken"}
Workspaces == [state : {"none", "extract", "ready", "refused"}, entry : Names \cup {"none"},
               good : BOOLEAN, next : Nat \ {0}, files : SUBSET Names, size : Nat]

StoreTypes ==
    /\ source \in Sources /\ slots \in Nat /\ faults \in 0..MaxFaults
    /\ file \in [Parts -> FileStates] /\ step \in [Jobs -> JobSteps] /\ part \in [Jobs -> Parts]
    /\ process \in [Jobs -> {"none", "running", "exited", "failed"}]
    /\ reader \in [Jobs -> {"none", "reading", "chunk", "done", "overflow"}]
    /\ held \in [Jobs -> BOOLEAN]
    /\ scripts \in SUBSET Names /\ workspace \in Workspaces
    /\ inside \in BOOLEAN /\ enabled \in BOOLEAN

\* Only an import from git has a reader and may hold a beginning, and what is
\* going to replace the stored file was accepted as a whole.
JobOK(j) ==
    /\ reader[j] # "none" => step[j] \in GitSteps \cup {"put", "replace"}
    /\ step[j] \in GitSteps => reader[j] # "none"
    /\ step[j] = "fetch" \/ reader[j] # "none" => source.kind = "zip"
    /\ part[j] = "beginning" => step[j] = "put" /\ source.kind = "zip"
    /\ step[j] = "replace" /\ source.kind = "zip" => ArchiveEntries(source, "all", TRUE)

GitJobs == {j \in Jobs : GitJob(j)}
SlotsOK == IsFiniteSet(GitJobs) /\ slots + Cardinality(GitJobs) = GitSlots

StoredOK ==
    /\ file["beginning"] = "none"
    /\ source.kind = "zip" /\ file["all"] # "none" => ArchiveEntries(source, "all", TRUE)
    /\ scripts # {} => file["all"] = "whole" \/ (faults > 0 /\ file["all"] # "none")
    /\ source.kind = "zip" => scripts \subseteq FileNames(source)
    /\ faults = 0 => inside /\ enabled

\* what the files of the archive take, one after the other
Sizes(c) == [i \in 1..Len(c.entries) |-> IF c.entries[i].dir THEN 0 ELSE c.entries[i].actual]
Totals(t, s) ==
    /\ t \in [0..Len(s) -> Nat] /\ t[0] = 0
    /\ \A i \in 1..Len(s) : t[i] = t[i - 1] + s[i]

\* An extraction has come to the entry w.next with every file before it.
ExtractOK(w) ==
    /\ source.kind = "zip" /\ ArchiveEntries(source, "all", TRUE)
    /\ w.entry \in FileNames(source) /\ w.next <= Len(source.entries) + 1
    /\ w.files = {source.entries[i].name : i \in {k \in FilesOf(source) : k < w.next}}
    /\ \E t \in [0..Len(source.entries) -> Nat] :
          /\ Totals(t, Sizes(source))
          /\ t[Len(source.entries)] <= MaxExpanded /\ w.size = t[w.next - 1]

WorkspaceOK(w) ==
    /\ w.state = "refused" => faults > 0
    /\ w.state \in {"extract", "ready"} => w.good
    /\ w.state = "extract" => ExtractOK(w)
    /\ w.state = "ready" => w.entry \in w.files /\ (source.kind = "zip" => w.files = FileNames(source))

StoreInv ==
    /\ StoreTypes /\ (\A j \in Jobs : JobOK(j)) /\ SlotsOK
    /\ StoredOK /\ WorkspaceOK(workspace)

\* The naturals are well ordered, for a set instead of an operator.
LEMMA LeastNumber ==
    ASSUME NEW S \in SUBSET Nat, S # {}
    PROVE  \E n \in S : \A m \in S : n <= m
<1> DEFINE R == {ss \in Nat \X Nat : ss[1] < ss[2]}
<1>1. R = OpToRel(<, Nat)
  BY Zenon DEF OpToRel
<1>2. IsWellFoundedOn(R, Nat)
  BY <1>1, NatLessThanWellFounded, Zenon
<1>3. PICK n \in S : \A m \in S : <<m, n>> \notin R
  <2> HIDE DEF R
  <2> QED BY <1>2, WFMin
<1>4. \A m \in S : ~(m < n)
  BY <1>3
<1> QED BY <1>4

\* Induction up to n, for a set instead of an operator.
LEMMA UpTo ==
    ASSUME NEW n \in Nat, NEW S, 0 \in S, \A k \in 1..n : k - 1 \in S => k \in S
    PROVE  \A k \in 0..n : k \in S
<1> DEFINE Bad == {k \in 0..n : k \notin S}
<1> SUFFICES ASSUME Bad # {} PROVE FALSE
  OBVIOUS
<1>1. PICK k \in Bad : \A m \in Bad : k <= m
  <2>1. Bad \in SUBSET Nat
    OBVIOUS
  <2> HIDE DEF Bad
  <2> QED BY <2>1, LeastNumber
<1>2. k \in 1..n
  BY <1>1
<1>3. k - 1 \in 0..n /\ k - 1 \notin Bad
  BY <1>1, <1>2
<1> QED BY <1>1, <1>2, <1>3

\* AddedUp has partial sums.
LEMMA AddedUpTotals ==
    ASSUME NEW s \in Seq(Nat)
    PROVE  \E t \in [0..Len(s) -> Nat] : Totals(t, s) /\ AddedUp(s) = t[Len(s)]
<1> DEFINE P(m) == \E t \in [0..m -> Nat] : t[0] = 0 /\ \A i \in 1..m : t[i] = t[i - 1] + s[i]
           S == {m \in 0..Len(s) : P(m)}
           Rec(t) == t = [i \in 0..Len(s) |-> IF i = 0 THEN 0 ELSE t[i - 1] + s[i]]
<1>0. Len(s) \in Nat /\ \A i \in 1..Len(s) : s[i] \in Nat
  OBVIOUS
<1>1. 0 \in S
  <2> DEFINE t == [i \in 0..0 |-> 0]
  <2>1. t \in [0..0 -> Nat] /\ t[0] = 0 /\ 1..0 = {}
    OBVIOUS
  <2> HIDE DEF t
  <2>2. P(0)
    BY <2>1
  <2> QED BY <2>2, <1>0
<1>2. ASSUME NEW m \in 1..Len(s), m - 1 \in S
      PROVE  m \in S
  <2>1. PICK t \in [0..(m - 1) -> Nat] : t[0] = 0 /\ \A i \in 1..(m - 1) : t[i] = t[i - 1] + s[i]
    BY <1>2
  <2> DEFINE u == [i \in 0..m |-> IF i = m THEN t[m - 1] + s[m] ELSE t[i]]
  <2>2. t[m - 1] \in Nat /\ s[m] \in Nat
    BY <1>0, <2>1
  <2>3. u \in [0..m -> Nat]
    BY <2>1, <2>2
  <2>4. u[0] = 0
    BY <2>1
  <2>5. ASSUME NEW i \in 1..m PROVE u[i] = u[i - 1] + s[i]
    <3>1. CASE i = m
      BY <3>1
    <3>2. CASE i # m
      BY <3>2, <2>1
    <3> QED BY <3>1, <3>2
  <2> HIDE DEF u
  <2>6. P(m)
    BY <2>3, <2>4, <2>5
  <2>7. m \in 0..Len(s)
    BY <1>0
  <2> HIDE DEF P
  <2> QED BY <2>6, <2>7
<1>3. Len(s) \in S
  <2> HIDE DEF S
  <2>1. \A m \in 0..Len(s) : m \in S
    BY <1>0, <1>1, <1>2, UpTo
  <2> QED BY <2>1, <1>0
<1>4. \E t : Rec(t)
  <2>1. PICK t \in [0..Len(s) -> Nat] : t[0] = 0 /\ \A i \in 1..Len(s) : t[i] = t[i - 1] + s[i]
    BY <1>3
  <2>2. Rec(t)
    <3> SUFFICES \A i \in 0..Len(s) : t[i] = IF i = 0 THEN 0 ELSE t[i - 1] + s[i]
      OBVIOUS
    <3> QED BY <2>1
  <2> HIDE DEF Rec
  <2> QED BY <2>2
<1> DEFINE t == CHOOSE t : Rec(t)
<1>5. Rec(t)
  <2> HIDE DEF Rec
  <2> QED BY <1>4, Zenon
<1>6. AddedUp(s) = t[Len(s)]
  BY Zenon DEF AddedUp
<1> HIDE DEF t
<1>7. t[0] = 0 /\ \A i \in 1..Len(s) : t[i] = t[i - 1] + s[i]
  BY <1>0, <1>5
<1>8. \A i \in 0..Len(s) : t[i] \in Nat
  <2> DEFINE T == {i \in 0..Len(s) : t[i] \in Nat}
  <2>1. 0 \in T
    BY <1>0, <1>7
  <2>2. ASSUME NEW i \in 1..Len(s), i - 1 \in T PROVE i \in T
    <3>1. t[i - 1] \in Nat
      BY <2>2
    <3>2. s[i] \in Nat /\ i \in 0..Len(s)
      BY <1>0
    <3>3. t[i] = t[i - 1] + s[i]
      BY <1>7
    <3>4. t[i] \in Nat
      BY <3>1, <3>2, <3>3
    <3> QED BY <3>2, <3>4
  <2> HIDE DEF T
  <2>3. \A i \in 0..Len(s) : i \in T
    BY <1>0, <2>1, <2>2, UpTo
  <2> QED BY <2>3 DEF T
<1>9. t \in [0..Len(s) -> Nat]
  <2>1. t = [i \in 0..Len(s) |-> t[i]]
    BY <1>5
  <2> QED BY <2>1, <1>8
<1> QED BY <1>6, <1>7, <1>9 DEF Totals

LEMMA SourceFacts ==
    ASSUME NEW c \in Sources
    PROVE  /\ c.kind \in {"text", "zip", "host"}
           /\ c.entries \in Seq(Entries) /\ Len(c.entries) \in Nat
           /\ DOMAIN c.entries = 1..Len(c.entries)
           /\ \A i \in 1..Len(c.entries) : /\ c.entries[i] \in Entries
                                           /\ c.entries[i].name \in Names /\ c.entries[i].actual \in Nat
           /\ FilesOf(c) \in SUBSET (1..Len(c.entries)) /\ FileNames(c) \in SUBSET Names
           /\ Sizes(c) \in Seq(Nat) /\ Len(Sizes(c)) = Len(c.entries)
           /\ \A i \in 1..Len(c.entries) :
                 Sizes(c)[i] = IF i \in FilesOf(c) THEN c.entries[i].actual ELSE 0
           /\ ActualSize(c) = AddedUp(Sizes(c))
<1>1. c.entries \in Seq(Entries) /\ c.kind \in {"text", "zip", "host"}
  BY SourceAssumption DEF Entries
<1>2. /\ Len(c.entries) \in Nat /\ DOMAIN c.entries = 1..Len(c.entries)
      /\ \A i \in 1..Len(c.entries) : c.entries[i] \in Entries
  BY <1>1
<1>3. \A i \in 1..Len(c.entries) : c.entries[i].name \in Names /\ c.entries[i].actual \in Nat
  BY <1>2 DEF Entries
<1>4. FilesOf(c) \in SUBSET (1..Len(c.entries)) /\ FileNames(c) \in SUBSET Names
  BY <1>2, <1>3 DEF FilesOf, FileNames
<1>5. Sizes(c) \in Seq(Nat) /\ Len(Sizes(c)) = Len(c.entries)
  BY <1>2, <1>3 DEF Sizes
<1>6. \A i \in 1..Len(c.entries) : Sizes(c)[i] = IF i \in FilesOf(c) THEN c.entries[i].actual ELSE 0
  BY <1>2 DEF Sizes, FilesOf
<1>7. ActualSize(c) = AddedUp(Sizes(c))
  BY DEF ActualSize, Sizes
<1> QED BY <1>1, <1>2, <1>3, <1>4, <1>5, <1>6, <1>7

\* A step of one job leaves the others as they are.
OnlyJob(j) ==
    /\ source' = source
    /\ \A k \in Jobs : k # j => step'[k] = step[k] /\ reader'[k] = reader[k] /\ part'[k] = part[k]

LEMMA JobsMove ==
    ASSUME \A k \in Jobs : JobOK(k), NEW j \in Jobs, OnlyJob(j), JobOK(j)'
    PROVE  \A k \in Jobs : JobOK(k)'
<1> SUFFICES ASSUME NEW k \in Jobs, k # j PROVE JobOK(k)'
  OBVIOUS
<1>1. JobOK(k) /\ source' = source /\ step'[k] = step[k] /\ reader'[k] = reader[k] /\ part'[k] = part[k]
  BY DEF OnlyJob
<1> QED BY <1>1 DEF JobOK

LEMMA SlotsStay ==
    ASSUME SlotsOK, slots' = slots, NEW j \in Jobs, OnlyJob(j), GitJob(j)' <=> GitJob(j)
    PROVE  SlotsOK'
<1>1. \A k \in Jobs : GitJob(k)' <=> GitJob(k)
  BY DEF OnlyJob, GitJob
<1>2. GitJobs' = GitJobs
  BY <1>1 DEF GitJobs
<1> QED BY <1>2 DEF SlotsOK

LEMMA SlotTaken ==
    ASSUME StoreTypes, SlotsOK, NEW j \in Jobs, OnlyJob(j), ~GitJob(j), GitJob(j)',
           slots # 0, slots' = slots - 1
    PROVE  SlotsOK'
<1>1. \A k \in Jobs : k # j => (GitJob(k)' <=> GitJob(k))
  BY DEF OnlyJob, GitJob
<1>2. GitJobs' = GitJobs \cup {j} /\ j \notin GitJobs
  BY <1>1 DEF GitJobs
<1>3. Cardinality(GitJobs') = Cardinality(GitJobs) + 1 /\ IsFiniteSet(GitJobs')
  BY <1>2, FS_AddElement DEF SlotsOK
<1>4. slots \in Nat /\ Cardinality(GitJobs) \in Nat
  BY FS_CardinalityType DEF StoreTypes, SlotsOK
<1> QED BY <1>3, <1>4 DEF SlotsOK

LEMMA SlotGiven ==
    ASSUME StoreTypes, SlotsOK, NEW j \in Jobs, OnlyJob(j), GitJob(j), ~GitJob(j)', slots' = slots + 1
    PROVE  SlotsOK'
<1>1. \A k \in Jobs : k # j => (GitJob(k)' <=> GitJob(k))
  BY DEF OnlyJob, GitJob
<1>2. GitJobs' = GitJobs \ {j} /\ j \in GitJobs
  BY <1>1 DEF GitJobs
<1>3. Cardinality(GitJobs') = Cardinality(GitJobs) - 1 /\ IsFiniteSet(GitJobs')
  BY <1>2, FS_RemoveElement DEF SlotsOK
<1>4. slots \in Nat /\ Cardinality(GitJobs) \in Nat
  BY FS_CardinalityType DEF StoreTypes, SlotsOK
<1> QED BY <1>3, <1>4 DEF SlotsOK

LEMMA ImportIsOver ==
    ASSUME StoreTypes, \A k \in Jobs : JobOK(k), SlotsOK, NEW j \in Jobs,
           NEW from \in JobSteps, NEW to \in {"stored", "failed"}, ImportOver(j, from, to), source' = source
    PROVE  /\ \A k \in Jobs : JobOK(k)'
           /\ SlotsOK'
           /\ step' \in [Jobs -> JobSteps] /\ part' \in [Jobs -> Parts] /\ slots' \in Nat
           /\ process' \in [Jobs -> {"none", "running", "exited", "failed"}]
           /\ reader' \in [Jobs -> {"none", "reading", "chunk", "done", "overflow"}]
           /\ held' \in [Jobs -> BOOLEAN]
<1>1. /\ step' \in [Jobs -> JobSteps] /\ part' \in [Jobs -> Parts] /\ slots' \in Nat
      /\ process' \in [Jobs -> {"none", "running", "exited", "failed"}]
      /\ reader' \in [Jobs -> {"none", "reading", "chunk", "done", "overflow"}]
      /\ held' \in [Jobs -> BOOLEAN]
  BY DEF StoreTypes, ImportOver, Job, JobSteps, Parts
<1>2. step'[j] = to /\ reader'[j] = "none" /\ part'[j] = "all"
  BY DEF StoreTypes, ImportOver, Job
<1>3. OnlyJob(j)
  BY DEF StoreTypes, ImportOver, Job, OnlyJob
<1>4. JobOK(j)'
  BY <1>2 DEF JobOK, GitSteps
<1>5. ~GitJob(j)'
  BY <1>2 DEF GitJob
<1>6. SlotsOK'
  <2>1. CASE GitJob(j)
    BY <2>1, <1>3, <1>5, SlotGiven DEF ImportOver
  <2>2. CASE ~GitJob(j)
    BY <2>2, <1>3, <1>5, SlotsStay DEF ImportOver
  <2> QED BY <2>1, <2>2
<1> QED BY <1>1, <1>3, <1>4, <1>6, JobsMove

\* Contents, versions and the workspace are as they were.
LEMMA StoredStays ==
    ASSUME StoredOK, file' = file, faults' = faults, Rest
    PROVE  StoredOK'
BY DEF StoredOK, Rest, host

LEMMA WorkspaceStays ==
    ASSUME WorkspaceOK(workspace), source' = source, workspace' = workspace,
           StoreTypes, faults' \in Nat, faults' >= faults
    PROVE  WorkspaceOK(workspace)'
<1>1. ExtractOK(workspace) => ExtractOK(workspace)'
  BY Zenon DEF ExtractOK
<1>2. faults \in Nat
  BY SourceAssumption DEF StoreTypes
<1>3. faults > 0 => faults' > 0
  BY <1>2
<1> QED BY <1>1, <1>3 DEF WorkspaceOK

\* A step of an import that keeps its slot, or takes none.
LEMMA JobGoesOn ==
    ASSUME StoreInv, NEW j \in Jobs, Rest, file' = file, faults' = faults, slots' = slots, OnlyJob(j),
           JobOK(j)', GitJob(j)' <=> GitJob(j),
           step' \in [Jobs -> JobSteps], part' \in [Jobs -> Parts],
           process' \in [Jobs -> {"none", "running", "exited", "failed"}],
           reader' \in [Jobs -> {"none", "reading", "chunk", "done", "overflow"}],
           held' \in [Jobs -> BOOLEAN]
    PROVE  StoreInv'
<1>1. StoreTypes'
  BY DEF StoreInv, StoreTypes, Rest, host
<1>2. (\A k \in Jobs : JobOK(k))'
  BY JobsMove DEF StoreInv
<1>3. SlotsOK'
  BY SlotsStay DEF StoreInv
<1>4. StoredOK'
  BY StoredStays DEF StoreInv
<1>5. WorkspaceOK(workspace)'
  BY WorkspaceStays DEF StoreInv, Rest, StoreTypes
<1> QED BY <1>1, <1>2, <1>3, <1>4, <1>5 DEF StoreInv

LEMMA UploadInv == ASSUME StoreInv, NEW j \in Jobs, Upload(j) PROVE StoreInv'
<1> USE DEF StoreInv, StoreTypes, Upload, Job, GitUnchanged
<1>1. OnlyJob(j) /\ step'[j] = "put" /\ reader'[j] = reader[j] /\ part'[j] = part[j]
  BY DEF OnlyJob, Rest
<1>2. JobOK(j) /\ reader[j] = "none" /\ part[j] = "all"
  BY DEF JobOK, GitSteps, Parts
<1>3. JobOK(j)'
  BY <1>1, <1>2 DEF JobOK, GitSteps
<1>4. GitJob(j)' <=> GitJob(j)
  BY <1>1 DEF GitJob
<1>5. step' \in [Jobs -> JobSteps]
  BY DEF JobSteps
<1> HIDE DEF StoreInv
<1> QED BY <1>1, <1>3, <1>4, <1>5, JobGoesOn DEF StoreInv

LEMMA ImportGitInv == ASSUME StoreInv, NEW j \in Jobs, ImportGit(j) PROVE StoreInv'
<1> USE DEF StoreInv, StoreTypes, ImportGit, Job
<1>1. OnlyJob(j) /\ reader'[j] = reader[j] /\ part'[j] = part[j]
  BY DEF OnlyJob, Rest
<1>2. JobOK(j) /\ reader[j] = "none" /\ part[j] = "all" /\ step[j] = "idle"
  BY DEF JobOK, GitSteps, Parts
<1>3. step' \in [Jobs -> JobSteps] /\ step'[j] \in {"failed", "fetch"}
  BY DEF JobSteps
<1>4. JobOK(j)'
  BY <1>1, <1>2, <1>3 DEF JobOK, GitSteps, Rest
<1>5. CASE slots = 0
  <2>1. GitJob(j)' <=> GitJob(j)
    BY <1>1, <1>2, <1>5 DEF GitJob
  <2> QED BY <1>1, <1>3, <1>4, <1>5, <2>1, JobGoesOn
<1>6. CASE slots # 0
  <2>1. GitJob(j)' /\ ~GitJob(j)
    BY <1>1, <1>2, <1>6 DEF GitJob
  <2>2. SlotsOK'
    BY <1>1, <1>6, <2>1, SlotTaken
  <2>3. (\A k \in Jobs : JobOK(k))'
    BY <1>1, <1>4, JobsMove
  <2>4. StoreTypes'
    BY <1>3, <1>6 DEF Rest, host
  <2>5. StoredOK'
    BY StoredStays
  <2>6. WorkspaceOK(workspace)'
    BY WorkspaceStays, SourceAssumption DEF Rest
  <2> QED BY <2>2, <2>3, <2>4, <2>5, <2>6
<1> QED BY <1>5, <1>6

LEMMA FetchedInv == ASSUME StoreInv, NEW j \in Jobs, Fetched(j) PROVE StoreInv'
<1> USE DEF StoreInv, StoreTypes, Fetched, Job
<1>1. OnlyJob(j) /\ reader'[j] = "reading" /\ part'[j] = part[j] /\ step'[j] = "join" /\ step[j] = "fetch"
  BY DEF OnlyJob, Rest
<1>2. JobOK(j) /\ part[j] = "all" /\ source' = source
  BY <1>1 DEF JobOK, GitSteps, Parts, Rest
<1>3. JobOK(j)'
  BY <1>1, <1>2 DEF JobOK, GitSteps
<1>4. GitJob(j)' /\ GitJob(j)
  BY <1>1 DEF GitJob
<1>5. /\ step' \in [Jobs -> JobSteps] /\ process' \in [Jobs -> {"none", "running", "exited", "failed"}]
      /\ reader' \in [Jobs -> {"none", "reading", "chunk", "done", "overflow"}]
      /\ held' \in [Jobs -> BOOLEAN]
  BY DEF JobSteps, GitSteps
<1> QED BY <1>1, <1>3, <1>4, <1>5, JobGoesOn

LEMMA ArchiveInv == ASSUME StoreInv, NEW j \in Jobs, Archive(j) PROVE StoreInv'
<1> USE DEF StoreInv, StoreTypes, Archive
<1>1. OnlyJob(j) /\ UNCHANGED <<step, reader, part, source>>
  BY DEF OnlyJob, Rest
<1>2. JobOK(j)' /\ (GitJob(j)' <=> GitJob(j))
  BY <1>1 DEF JobOK, GitJob
<1>3. /\ process' \in [Jobs -> {"none", "running", "exited", "failed"}]
      /\ held' \in [Jobs -> BOOLEAN]
  OBVIOUS
<1> QED BY <1>1, <1>2, <1>3, JobGoesOn

LEMMA KilledType ==
    ASSUME StoreTypes, NEW j \in Jobs
    PROVE  Killed(j) \in [Jobs -> {"none", "running", "exited", "failed"}]
BY DEF StoreTypes, Killed

LEMMA ConsumeInv == ASSUME StoreInv, NEW j \in Jobs, Consume(j) PROVE StoreInv'
<1> USE DEF StoreInv, StoreTypes, Consume
<1>1. OnlyJob(j) /\ UNCHANGED <<step, part, source>> /\ reader[j] # "none" /\ reader'[j] # "none"
  BY DEF OnlyJob, Rest
<1>2. JobOK(j)' /\ (GitJob(j)' <=> GitJob(j))
  BY <1>1 DEF JobOK, GitJob
<1>3. /\ process' \in [Jobs -> {"none", "running", "exited", "failed"}]
      /\ reader' \in [Jobs -> {"none", "reading", "chunk", "done", "overflow"}]
      /\ held' \in [Jobs -> BOOLEAN]
  BY KilledType
<1> QED BY <1>1, <1>2, <1>3, JobGoesOn

\* What the steps of _run_git_archive after its start have in common.
LEMMA GitGoesOn ==
    ASSUME StoreInv, NEW j \in Jobs, Rest, file' = file, faults' = faults, slots' = slots, part' = part,
           step[j] \in GitSteps, NEW to \in GitSteps, step' = [step EXCEPT ![j] = to],
           process' = process \/ process' = Killed(j),
           reader' = reader, held' = held
    PROVE  StoreInv'
<1> USE DEF StoreInv, StoreTypes
<1>1. OnlyJob(j) /\ source' = source /\ step'[j] = to /\ part'[j] = part[j]
  BY DEF OnlyJob, Rest
<1>2. JobOK(j) /\ reader[j] # "none" /\ reader'[j] # "none" /\ step[j] \notin {"put", "replace", "fetch"}
  BY DEF JobOK, GitSteps
<1>3. JobOK(j)' /\ (GitJob(j)' <=> GitJob(j))
  BY <1>1, <1>2 DEF JobOK, GitJob, GitSteps
<1>4. /\ process' \in [Jobs -> {"none", "running", "exited", "failed"}]
      /\ reader' \in [Jobs -> {"none", "reading", "chunk", "done", "overflow"}]
      /\ held' \in [Jobs -> BOOLEAN]
      /\ step' \in [Jobs -> JobSteps]
  BY KilledType DEF JobSteps
<1> QED BY <1>1, <1>3, <1>4, JobGoesOn

LEMMA JoinInv ==
    ASSUME StoreInv, NEW j \in Jobs, Join(j) \/ Rejoin(j) \/ Wait(j) \/ CloseStdout(j)
    PROVE  StoreInv'
<1>1. CASE Join(j)
  BY <1>1, GitGoesOn DEF Join, Job, GitSteps
<1>2. CASE Rejoin(j)
  BY <1>2, GitGoesOn DEF Rejoin, Job, GitSteps
<1>3. CASE Wait(j)
  <2>1. PICK to \in {"close", "abandon"} : Job(j, "wait", to)
    BY <1>3 DEF Wait
  <2> QED BY <1>3, <2>1, GitGoesOn DEF Wait, Job, GitSteps
<1>4. CASE CloseStdout(j)
  BY <1>4, GitGoesOn DEF CloseStdout, Job, GitSteps
<1> QED BY <1>1, <1>2, <1>3, <1>4

LEMMA ReturnedInv == ASSUME StoreInv, NEW j \in Jobs, Returned(j) PROVE StoreInv'
<1> USE DEF StoreInv, StoreTypes, Returned, Job
<1>1. OnlyJob(j) /\ source' = source /\ step'[j] = "put" /\ reader'[j] = reader[j] /\ step[j] = "returned"
  BY DEF OnlyJob, Rest
<1>2. JobOK(j) /\ reader[j] # "none" /\ source.kind = "zip"
  BY <1>1 DEF JobOK, GitSteps
<1>3. JobOK(j)' /\ (GitJob(j)' <=> GitJob(j))
  BY <1>1, <1>2 DEF JobOK, GitJob, GitSteps
<1>4. step' \in [Jobs -> JobSteps] /\ part' \in [Jobs -> Parts]
  BY DEF JobSteps, Parts
<1> QED BY <1>1, <1>3, <1>4, JobGoesOn

LEMMA RefusedInv ==
    ASSUME StoreInv, NEW j \in Jobs, PutRefused(j) \/ FetchFails(j) \/ ArchiveRefused(j)
    PROVE  StoreInv'
<1>1. Rest /\ file' = file /\ faults' = faults /\ \E from \in JobSteps : ImportOver(j, from, "failed")
  BY DEF PutRefused, FetchFails, ArchiveRefused, JobSteps, GitSteps
<1>2. PICK from \in JobSteps : ImportOver(j, from, "failed")
  BY <1>1
<1>3. source' = source
  BY <1>1 DEF Rest
<1>4. /\ (\A k \in Jobs : JobOK(k))' /\ SlotsOK'
      /\ step' \in [Jobs -> JobSteps] /\ part' \in [Jobs -> Parts] /\ slots' \in Nat
      /\ process' \in [Jobs -> {"none", "running", "exited", "failed"}]
      /\ reader' \in [Jobs -> {"none", "reading", "chunk", "done", "overflow"}]
      /\ held' \in [Jobs -> BOOLEAN]
  BY <1>2, <1>3, ImportIsOver DEF StoreInv
<1>5. StoreTypes'
  BY <1>1, <1>4 DEF StoreInv, StoreTypes, Rest, host
<1>6. StoredOK'
  BY <1>1, StoredStays DEF StoreInv
<1>7. WorkspaceOK(workspace)'
  BY <1>1, WorkspaceStays, SourceAssumption DEF StoreInv, StoreTypes, Rest
<1> QED BY <1>4, <1>5, <1>6, <1>7 DEF StoreInv

\* Only a whole content is accepted, and of a ZIP only one that passes the check.
LEMMA AcceptedIsWhole ==
    ASSUME StoreInv, NEW j \in Jobs, step[j] = "put", PutAccepts(part[j])
    PROVE  part[j] = "all" /\ (source.kind = "zip" => ArchiveEntries(source, "all", TRUE))
<1>1. CASE source.kind = "zip"
  <2>1. ArchiveEntries(source, part[j], TRUE)
    BY <1>1 DEF PutAccepts
  <2>2. part[j] = "all"
    BY <2>1 DEF ArchiveEntries
  <2> QED BY <2>1, <2>2
<1>2. CASE source.kind # "zip"
  BY <1>2 DEF StoreInv, StoreTypes, JobOK, Parts
<1> QED BY <1>1, <1>2

LEMMA PutBytesInv == ASSUME StoreInv, NEW j \in Jobs, PutBytes(j) PROVE StoreInv'
<1> USE DEF StoreInv, StoreTypes, PutBytes, Job, GitUnchanged
<1>1. part[j] = "all" /\ (source.kind = "zip" => ArchiveEntries(source, "all", TRUE))
  BY AcceptedIsWhole
<1>2. OnlyJob(j) /\ source' = source /\ step'[j] = "replace" /\ reader'[j] = reader[j] /\ part'[j] = part[j]
  BY DEF OnlyJob, Rest
<1>3. JobOK(j)
  OBVIOUS
<1>4. JobOK(j)'
  BY <1>1, <1>2, <1>3 DEF JobOK, GitSteps
<1>5. (\A k \in Jobs : JobOK(k))'
  BY <1>2, <1>4, JobsMove
<1>6. SlotsOK'
  <2>1. GitJob(j)' <=> GitJob(j)
    BY <1>2 DEF GitJob
  <2> QED BY <2>1, <1>2, SlotsStay
<1>7. StoreTypes'
  BY <1>1 DEF Rest, host, JobSteps, Parts, FileStates
<1>8. StoredOK'
  <2>1. /\ file'["beginning"] = file["beginning"]
        /\ file'["all"] = IF file["all"] = "none" THEN "tmp" ELSE file["all"]
    BY <1>1 DEF Parts
  <2> QED BY <1>1, <2>1 DEF StoredOK, Rest, host
<1>9. WorkspaceOK(workspace)'
  BY WorkspaceStays, SourceAssumption DEF Rest
<1> QED BY <1>5, <1>6, <1>7, <1>8, <1>9

LEMMA ReplaceInv == ASSUME StoreInv, NEW j \in Jobs, Replace(j) PROVE StoreInv'
<1>1. Rest /\ faults' = faults /\ ImportOver(j, "replace", "stored") /\ step[j] = "replace"
      /\ file' = [file EXCEPT ![part[j]] = "whole"]
  BY DEF Replace, ImportOver, Job
<1>2. source' = source
  BY <1>1 DEF Rest
<1>3. /\ (\A k \in Jobs : JobOK(k))' /\ SlotsOK'
      /\ step' \in [Jobs -> JobSteps] /\ part' \in [Jobs -> Parts] /\ slots' \in Nat
      /\ process' \in [Jobs -> {"none", "running", "exited", "failed"}]
      /\ reader' \in [Jobs -> {"none", "reading", "chunk", "done", "overflow"}]
      /\ held' \in [Jobs -> BOOLEAN]
  <2>1. "replace" \in JobSteps
    BY DEF JobSteps
  <2> QED BY <1>1, <1>2, <2>1, ImportIsOver DEF StoreInv
<1>4. part[j] = "all" /\ (source.kind = "zip" => ArchiveEntries(source, "all", TRUE))
  BY <1>1 DEF StoreInv, StoreTypes, JobOK, Parts
<1>5. file'["beginning"] = file["beginning"] /\ file'["all"] = "whole" /\ file' \in [Parts -> FileStates]
  BY <1>1, <1>4 DEF StoreInv, StoreTypes, Parts, FileStates
<1>6. StoreTypes'
  BY <1>1, <1>3, <1>5 DEF StoreInv, StoreTypes, Rest, host
<1>7. StoredOK'
  BY <1>1, <1>4, <1>5 DEF StoreInv, StoredOK, Rest, host
<1>8. WorkspaceOK(workspace)'
  BY <1>1, WorkspaceStays, SourceAssumption DEF StoreInv, StoreTypes, Rest
<1> QED BY <1>3, <1>6, <1>7, <1>8 DEF StoreInv

\* The imports are as they were.
LEMMA JobsStay ==
    ASSUME \A k \in Jobs : JobOK(k), SlotsOK, UNCHANGED <<source, jobs>>
    PROVE  (\A k \in Jobs : JobOK(k))' /\ SlotsOK'
<1>1. \A k \in Jobs : JobOK(k)'
  BY DEF jobs, JobOK
<1>2. GitJobs' = GitJobs
  BY DEF jobs, GitJobs, GitJob
<1> QED BY <1>1, <1>2 DEF SlotsOK, jobs

LEMMA ValidateReferenceInv == ASSUME StoreInv, NEW e \in Names, ValidateReference(e) PROVE StoreInv'
<1> USE DEF StoreInv, StoreTypes, ValidateReference
<1>1. (\A k \in Jobs : JobOK(k))' /\ SlotsOK'
  BY JobsStay
<1>2. StoreTypes'
  BY DEF jobs, host
<1>3. StoredOK'
  BY DEF StoredOK, VerifiedContent, host
<1>4. WorkspaceOK(workspace)'
  BY WorkspaceStays, SourceAssumption
<1> QED BY <1>1, <1>2, <1>3, <1>4

LEMMA FaultCounts ==
    ASSUME StoreTypes, Fault PROVE faults' # 0 /\ faults' > 0 /\ faults' \in 0..MaxFaults
BY SourceAssumption DEF StoreTypes, Fault

LEMMA HostMovesInv == ASSUME StoreInv, HostMoves PROVE StoreInv'
<1> USE DEF StoreInv, StoreTypes, HostMoves, Fault
<1>1. (\A k \in Jobs : JobOK(k))' /\ SlotsOK'
  BY JobsStay
<1>2. StoreTypes'
  BY SourceAssumption DEF jobs
<1>3. StoredOK'
  <2>1. faults' # 0 /\ faults' > 0
    BY FaultCounts
  <2> QED BY <2>1 DEF StoredOK
<1>4. WorkspaceOK(workspace)'
  BY WorkspaceStays, SourceAssumption
<1> QED BY <1>1, <1>2, <1>3, <1>4

LEMMA DamageInv == ASSUME StoreInv, Damage PROVE StoreInv'
<1> USE DEF StoreInv, StoreTypes, Damage, Fault
<1>1. (\A k \in Jobs : JobOK(k))' /\ SlotsOK'
  BY JobsStay
<1>2. StoreTypes'
  BY SourceAssumption DEF jobs, host, Parts, FileStates
<1>3. StoredOK'
  <2>1. file'["beginning"] = file["beginning"] /\ file'["all"] = "broken" /\ file["all"] = "whole"
    BY DEF Parts
  <2>2. faults' # 0 /\ faults' > 0
    BY FaultCounts
  <2> QED BY <2>1, <2>2 DEF StoredOK, host
<1>4. WorkspaceOK(workspace)'
  BY WorkspaceStays, SourceAssumption
<1> QED BY <1>1, <1>2, <1>3, <1>4

LEMMA EmptyOK == Empty \in Workspaces /\ WorkspaceOK(Empty)
<1>1. Empty \in Workspaces
  BY DEF Empty, Workspaces
<1>2. Empty.state = "none"
  BY DEF Empty
<1> QED BY <1>1, <1>2 DEF WorkspaceOK

LEMMA CrashInv == ASSUME StoreInv, Crash PROVE StoreInv'
<1> USE DEF StoreInv, StoreTypes, Crash, Fault
<1>1. StoreTypes'
  BY SourceAssumption, EmptyOK DEF JobSteps, Parts
<1>2. (\A k \in Jobs : JobOK(k))'
  <2> SUFFICES ASSUME NEW k \in Jobs PROVE JobOK(k)'
    OBVIOUS
  <2>1. step'[k] \in {"idle", "stored", "failed"} /\ reader'[k] = "none" /\ part'[k] = "all"
    OBVIOUS
  <2> QED BY <2>1 DEF JobOK, GitSteps
<1>3. SlotsOK'
  <2>1. GitJobs' = {}
    BY DEF GitJobs, GitJob
  <2> QED BY <2>1, FS_EmptySet, SourceAssumption DEF SlotsOK
<1>4. StoredOK'
  <2>1. faults' # 0 /\ faults' > 0
    BY FaultCounts
  <2> QED BY <2>1 DEF StoredOK
<1>5. WorkspaceOK(workspace)'
  <2>1. workspace'.state = "none"
    BY DEF Empty
  <2> QED BY <2>1 DEF WorkspaceOK
<1> QED BY <1>1, <1>2, <1>3, <1>4, <1>5

\* materialize: what is refused without a fault was never accepted.
LEMMA MaterializeInv == ASSUME StoreInv, NEW e \in Names, Materialize(e) PROVE StoreInv'
<1> USE DEF StoreInv, StoreTypes, Materialize
<1> DEFINE w == workspace'
<1>1. (\A k \in Jobs : JobOK(k))' /\ SlotsOK'
  BY JobsStay
<1>2. /\ w.state = IF ~VerifiedContent \/ ~Resolves THEN "refused"
                   ELSE IF source.kind = "zip" THEN "extract" ELSE "ready"
      /\ w.entry = e /\ w.good = VerifiedContent /\ w.next = 1 /\ w.size = 0
      /\ w.files = IF VerifiedContent /\ Resolves /\ source.kind # "zip" THEN {e} ELSE {}
  BY DEF Prepared, Empty
<1>3. w \in Workspaces
  <2>1. PICK st \in {"extract", "ready", "refused"}, g \in BOOLEAN, f \in SUBSET Names :
            w.state = st /\ w.good = g /\ w.files = f
    <3>1. w.good \in BOOLEAN
      BY <1>2 DEF VerifiedContent
    <3> QED BY <1>2, <3>1
  <2>2. w = [state |-> st, entry |-> e, good |-> g, next |-> 1, files |-> f, size |-> 0]
    BY <1>2, <2>1 DEF Prepared, Empty
  <2> HIDE DEF w
  <2> QED BY <2>2 DEF Workspaces
<1>4. StoreTypes'
  BY <1>3 DEF jobs, host
<1>5. StoredOK'
  BY DEF StoredOK, host
<1>6. e \in scripts /\ scripts # {} /\ source' = source /\ faults' = faults
  OBVIOUS
<1>7. CASE ~VerifiedContent \/ ~Resolves
  <2>1. faults > 0
    <3>1. CASE ~VerifiedContent
      BY <3>1, <1>6 DEF StoredOK, VerifiedContent
    <3>2. CASE ~Resolves
      BY <3>2, SourceAssumption DEF StoredOK, Resolves, HostInside
    <3> QED BY <3>1, <3>2, <1>7
  <2>2. w.state = "refused"
    BY <1>2, <1>7
  <2>3. WorkspaceOK(workspace)'
    BY <2>1, <2>2, <1>6 DEF WorkspaceOK
  <2> QED BY <1>1, <1>4, <1>5, <2>3
<1>8. CASE VerifiedContent /\ Resolves /\ source.kind # "zip"
  <2>1. w.state = "ready" /\ w.good /\ w.files = {e} /\ w.entry = e
    BY <1>2, <1>8
  <2>2. WorkspaceOK(workspace)'
    BY <2>1, <1>6, <1>8 DEF WorkspaceOK
  <2> QED BY <1>1, <1>4, <1>5, <2>2
<1>9. CASE VerifiedContent /\ Resolves /\ source.kind = "zip"
  <2>1. w.state = "extract" /\ w.good /\ w.files = {} /\ w.next = 1 /\ w.size = 0 /\ w.entry = e
    BY <1>2, <1>9
  <2>2. ArchiveEntries(source, "all", TRUE) /\ e \in FileNames(source)
    BY <1>6, <1>9 DEF StoredOK, VerifiedContent
  <2>3. source \in Sources /\ Len(source.entries) \in Nat
    BY SourceFacts
  <2>4. w.next <= Len(source.entries) + 1
    BY <2>1, <2>3
  <2>5. w.files = {source.entries[i].name : i \in {k \in FilesOf(source) : k < w.next}}
    <3>1. {k \in FilesOf(source) : k < 1} = {}
      BY <2>3, SourceFacts
    <3> HIDE DEF w
    <3> QED BY <3>1, <2>1
  <2>6. PICK t \in [0..Len(source.entries) -> Nat] :
            Totals(t, Sizes(source)) /\ ActualSize(source) = t[Len(source.entries)]
    <3>1. Sizes(source) \in Seq(Nat) /\ Len(Sizes(source)) = Len(source.entries)
          /\ ActualSize(source) = AddedUp(Sizes(source))
      BY <2>3, SourceFacts
    <3>2. PICK t \in [0..Len(Sizes(source)) -> Nat] :
              Totals(t, Sizes(source)) /\ AddedUp(Sizes(source)) = t[Len(Sizes(source))]
      BY <3>1, AddedUpTotals
    <3> QED BY <3>1, <3>2
  <2>7. t[Len(source.entries)] <= MaxExpanded
    BY <2>2, <2>6 DEF ArchiveEntries
  <2>8. w.size = t[w.next - 1]
    BY <2>1, <2>6 DEF Totals
  <2>9. ExtractOK(workspace)'
    <3> HIDE DEF w, StoreInv, StoreTypes, Materialize
    <3>1. ExtractOK(w)
      BY <1>9, <2>1, <2>2, <2>4, <2>5, <2>6, <2>7, <2>8 DEF ExtractOK
    <3> QED BY <3>1, <1>6, Zenon DEF ExtractOK, w
  <2>10. WorkspaceOK(workspace)'
    BY <2>1, <2>9, <1>6 DEF WorkspaceOK
  <2> QED BY <1>1, <1>4, <1>5, <2>10
<1> QED BY <1>7, <1>8, <1>9

LEMMA MinIsLeast ==
    ASSUME NEW S \in SUBSET Nat, S # {}
    PROVE  Min(S) \in S /\ \A y \in S : Min(S) <= y
<1>1. \E x \in S : \A y \in S : x <= y
  BY LeastNumber
<1> QED BY <1>1 DEF Min

LEMMA TotalsGrow ==
    ASSUME NEW s \in Seq(Nat), NEW t, Totals(t, s), NEW m \in 0..Len(s)
    PROVE  t[m] <= t[Len(s)]
<1> DEFINE n == Len(s) - m
           S == {d \in 0..n : t[m] <= t[m + d]}
<1>1. n \in Nat /\ t[m] \in Nat /\ m + n = Len(s)
  BY DEF Totals
<1>2. 0 \in S
  BY <1>1
<1>3. ASSUME NEW d \in 1..n, d - 1 \in S PROVE d \in S
  <2>1. m + d \in 1..Len(s) /\ m + (d - 1) = (m + d) - 1 /\ m + (d - 1) \in 0..Len(s)
    BY <1>1
  <2>2. t[m + d] = t[(m + d) - 1] + s[m + d]
    BY <2>1 DEF Totals
  <2>3. t[(m + d) - 1] \in Nat /\ s[m + d] \in Nat
    BY <2>1 DEF Totals
  <2>4. t[m] <= t[(m + d) - 1]
    BY <1>3, <2>1
  <2>5. t[m] <= t[m + d]
    BY <2>2, <2>3, <2>4, <1>1
  <2> QED BY <2>5, <1>1
<1>4. \A d \in 0..n : d \in S
  <2> HIDE DEF S, n
  <2> QED BY <1>1, <1>2, <1>3, UpTo
<1>5. n \in S
  <2>1. n \in 0..n
    BY <1>1
  <2> HIDE DEF S, n
  <2> QED BY <1>4, <2>1
<1> QED BY <1>5, <1>1

LEMMA TotalsFlat ==
    ASSUME NEW s \in Seq(Nat), NEW t, Totals(t, s), NEW l \in 0..Len(s), NEW m \in 0..Len(s), l <= m,
           \A i \in (l + 1)..m : s[i] = 0
    PROVE  t[m] = t[l]
<1> DEFINE n == m - l
           S == {d \in 0..n : t[l + d] = t[l]}
<1>1. n \in Nat /\ t[l] \in Nat /\ l + n = m
  BY DEF Totals
<1>2. 0 \in S
  BY <1>1
<1>3. ASSUME NEW d \in 1..n, d - 1 \in S PROVE d \in S
  <2>1. l + d \in 1..Len(s) /\ l + d \in (l + 1)..m /\ l + (d - 1) = (l + d) - 1 /\ (l + d) - 1 \in 0..Len(s)
    BY <1>1
  <2>2. t[l + d] = t[(l + d) - 1] + s[l + d]
    BY <2>1 DEF Totals
  <2>3. s[l + d] = 0 /\ t[(l + d) - 1] \in Nat
    BY <2>1 DEF Totals
  <2>4. t[(l + d) - 1] = t[l]
    BY <1>3, <2>1
  <2>5. t[l + d] = t[l]
    BY <2>2, <2>3, <2>4, <1>1
  <2> QED BY <2>5, <1>1
<1>4. \A d \in 0..n : d \in S
  <2> HIDE DEF S, n
  <2> QED BY <1>1, <1>2, <1>3, UpTo
<1>5. n \in S
  <2>1. n \in 0..n
    BY <1>1
  <2> HIDE DEF S, n
  <2> QED BY <1>4, <2>1
<1> QED BY <1>5, <1>1

\* The positions just before two ordered positions are ordered.
LEMMA OneLess ==
    ASSUME NEW n \in Nat, NEW x \in Nat \ {0}, NEW k \in 1..n, x <= k
    PROVE  x - 1 \in 0..n /\ k - 1 \in 0..n /\ x - 1 <= k - 1
OBVIOUS

\* The next file of an accepted archive has a free name and fits.
LEMMA NextFileFits ==
    ASSUME StoreInv, workspace.state = "extract",
           NEW k \in FilesOf(source), k >= workspace.next,
           \A i \in FilesOf(source) : i >= workspace.next => i >= k
    PROVE  /\ ~Occupied(source.entries[k].name)
           /\ workspace.size + source.entries[k].actual <= MaxExpanded
           /\ \A w : /\ w.entry = workspace.entry
                     /\ w.files = workspace.files \cup {source.entries[k].name}
                     /\ w.next = k + 1 /\ w.size = workspace.size + source.entries[k].actual
                     => ExtractOK(w)
<1> DEFINE w == workspace
           n == Len(source.entries)
           s == Sizes(source)
<1>1. ExtractOK(w) /\ w.next \in Nat \ {0} /\ w.size \in Nat /\ source \in Sources
  BY DEF StoreInv, StoreTypes, Workspaces, WorkspaceOK
<1>2. /\ n \in Nat /\ DOMAIN source.entries = 1..n /\ FilesOf(source) \in SUBSET (1..n)
      /\ s \in Seq(Nat) /\ Len(s) = n
      /\ \A i \in 1..n : s[i] = IF i \in FilesOf(source) THEN source.entries[i].actual ELSE 0
      /\ \A i \in 1..n : source.entries[i].name \in Names /\ source.entries[i].actual \in Nat
  BY <1>1, SourceFacts
<1>3. k \in 1..n /\ w.next <= k
  BY <1>1, <1>2
<1>4. /\ source.kind = "zip" /\ ArchiveEntries(source, "all", TRUE)
      /\ w.entry \in FileNames(source)
      /\ w.files = {source.entries[i].name : i \in {i \in FilesOf(source) : i < w.next}}
  BY <1>1 DEF ExtractOK
<1>5. PICK t \in [0..n -> Nat] : Totals(t, s) /\ t[n] <= MaxExpanded /\ w.size = t[w.next - 1]
  BY <1>1 DEF ExtractOK
<1> HIDE DEF w, n, s
<1>0. n \in Nat /\ Len(s) = n /\ s \in Seq(Nat) /\ w.next \in Nat \ {0} /\ k \in 1..n /\ w.next <= k
  BY <1>1, <1>2, <1>3
<1>6. t[k - 1] = t[w.next - 1]
  <2>1. w.next - 1 \in 0..Len(s) /\ k - 1 \in 0..Len(s) /\ w.next - 1 <= k - 1
    <3>1. PICK x \in Nat \ {0} : x = w.next /\ x <= k
      BY <1>0
    <3>2. x - 1 \in 0..n /\ k - 1 \in 0..n /\ x - 1 <= k - 1
      BY <1>0, <3>1, OneLess, Zenon
    <3> QED BY <1>0, <3>1, <3>2
  <2>2. ASSUME NEW i \in ((w.next - 1) + 1)..(k - 1) PROVE s[i] = 0
    <3>1. i \in 1..n /\ i >= w.next /\ ~(i >= k)
      BY <1>0
    <3>2. i \notin FilesOf(source)
      BY <3>1 DEF w
    <3> QED BY <3>1, <3>2, <1>2
  <2>3. PICK l \in 0..Len(s), m \in 0..Len(s) : l = w.next - 1 /\ m = k - 1
    BY <2>1
  <2>4. l <= m /\ \A i \in (l + 1)..m : s[i] = 0
    BY <2>1, <2>2, <2>3
  <2>5. t[m] = t[l]
    <3>1. s \in Seq(Nat) /\ Totals(t, s)
      BY <1>0, <1>5
    <3> QED BY <3>1, <2>4, TotalsFlat, Zenon
  <2> QED BY <2>3, <2>5
<1>7. w.size + source.entries[k].actual = t[k]
  <2>1. t[k] = t[k - 1] + s[k]
    BY <1>2, <1>3, <1>5 DEF Totals
  <2>2. s[k] = source.entries[k].actual
    BY <1>2, <1>3
  <2> QED BY <1>5, <1>6, <2>1, <2>2
<1>8. t[k] <= MaxExpanded
  <2>1. t[k] <= t[n]
    <3>1. Totals(t, s) /\ k \in 0..Len(s)
      BY <1>0, <1>5
    <3>2. t[k] <= t[Len(s)]
      BY <1>0, <3>1, TotalsGrow, Zenon
    <3> QED BY <1>0, <3>2
  <2>2. t[k] \in Nat /\ t[n] \in Nat /\ t[n] <= MaxExpanded /\ MaxExpanded \in Nat
    BY <1>0, <1>5, SourceAssumption
  <2> QED BY <2>1, <2>2
<1>9. ~Occupied(source.entries[k].name)
  <2> SUFFICES ASSUME NEW f \in w.files
               PROVE  /\ Fold[f] # Fold[source.entries[k].name]
                      /\ \A p \in Parents[source.entries[k].name] : Fold[f] # Fold[p]
                      /\ \A p \in Parents[f] : Fold[p] # Fold[source.entries[k].name]
    BY DEF Occupied, w
  <2>1. PICK i \in FilesOf(source) : i < w.next /\ f = source.entries[i].name
    BY <1>4
  <2>2. i # k /\ i \in DOMAIN source.entries /\ k \in DOMAIN source.entries
    <3>1. i \in 1..n
      BY <1>2, <2>1
    <3> QED BY <1>0, <1>2, <2>1, <3>1
  <2>3. NoDuplicates(source) /\ NoFileIsParent(source)
    BY <1>4 DEF ArchiveEntries
  <2> QED BY <2>1, <2>2, <2>3 DEF NoDuplicates, NoFileIsParent
<1>10. ASSUME NEW v, v.entry = w.entry, v.files = w.files \cup {source.entries[k].name},
              v.next = k + 1, v.size = w.size + source.entries[k].actual
       PROVE  ExtractOK(v)
  <2>1. {i \in FilesOf(source) : i < k + 1} = {i \in FilesOf(source) : i < w.next} \cup {k}
    <3>1. \A i \in FilesOf(source) : i < k + 1 <=> (i < w.next \/ i = k)
      <4> SUFFICES ASSUME NEW i \in FilesOf(source) PROVE i < k + 1 <=> (i < w.next \/ i = k)
        OBVIOUS
      <4>1. i \in Nat /\ (i >= w.next => i >= k)
        BY <1>2 DEF w
      <4> QED BY <4>1, <1>1, <1>3
    <3> QED BY <3>1
  <2>2. v.files = {source.entries[i].name : i \in {i \in FilesOf(source) : i < v.next}}
    BY <1>4, <1>10, <2>1
  <2>3. v.next <= n + 1 /\ v.next - 1 = k
    BY <1>2, <1>3, <1>10
  <2>4. v.size = t[v.next - 1]
    BY <1>7, <1>10, <2>3
  <2> QED BY <1>4, <1>5, <1>10, <2>2, <2>3, <2>4 DEF ExtractOK, n, s
<1> QED BY <1>7, <1>8, <1>9, <1>10 DEF w

LEMMA ExtractInv == ASSUME StoreInv, Extract PROVE StoreInv'
<1> DEFINE rest == {i \in FilesOf(source) : i >= workspace.next}
           e == source.entries[Min(rest)]
           size == workspace.size + e.actual
<1>1. (\A k \in Jobs : JobOK(k))' /\ SlotsOK'
  BY JobsStay DEF StoreInv, Extract
<1>2. /\ workspace \in Workspaces /\ workspace.state = "extract" /\ ExtractOK(workspace) /\ workspace.good
      /\ source \in Sources /\ source' = source /\ faults \in Nat
  BY SourceAssumption DEF StoreInv, StoreTypes, Extract, WorkspaceOK
<1>3. /\ FilesOf(source) \in SUBSET Nat /\ FileNames(source) \in SUBSET Names
      /\ \A i \in FilesOf(source) : source.entries[i].name \in Names /\ source.entries[i].actual \in Nat
      /\ workspace.next \in Nat /\ rest \in SUBSET Nat /\ workspace.size \in Nat
  BY <1>2, SourceFacts DEF Workspaces
<1>4. ASSUME workspace' \in Workspaces, faults' = faults \/ Fault, WorkspaceOK(workspace)'
      PROVE  StoreInv'
  <2>1. faults' \in 0..MaxFaults /\ faults' >= faults
    BY <1>2, <1>4, FaultCounts, SourceAssumption DEF StoreInv, StoreTypes, Fault
  <2>2. StoreTypes'
    BY <2>1, <1>4 DEF StoreInv, StoreTypes, Extract, jobs, host
  <2>3. StoredOK'
    <3>1. (faults > 0 => faults' > 0) /\ (faults' = 0 => faults = 0)
      BY <1>2, <2>1
    <3> QED BY <3>1 DEF StoreInv, StoredOK, Extract, host
  <2> QED BY <1>1, <1>4, <2>2, <2>3 DEF StoreInv
<1>5. CASE rest = {} /\ faults' = faults
           /\ workspace' = [workspace EXCEPT !.state =
                              IF workspace.entry \in FileNames(source) THEN "ready" ELSE "refused"]
  <2>1. workspace.entry \in FileNames(source)
    BY <1>2 DEF ExtractOK
  <2>2. {i \in FilesOf(source) : i < workspace.next} = FilesOf(source)
    BY <1>3, <1>5
  <2>3. workspace.files = FileNames(source)
    BY <1>2, <2>2 DEF ExtractOK, FileNames
  <2>4. workspace' \in Workspaces /\ workspace'.state = "ready" /\ workspace'.files = workspace.files
        /\ workspace'.entry = workspace.entry /\ workspace'.good
    BY <1>2, <1>5, <2>1 DEF Workspaces
  <2>5. WorkspaceOK(workspace)'
    BY <1>2, <2>1, <2>3, <2>4 DEF WorkspaceOK
  <2> QED BY <1>4, <1>5, <2>4, <2>5
<1>6. CASE rest # {} /\ faults' = faults
           /\ workspace' = IF Occupied(e.name) \/ size > MaxExpanded
                           THEN [workspace EXCEPT !.state = "conflict"]
                           ELSE [workspace EXCEPT !.files = @ \cup {e.name}, !.size = size,
                                                  !.next = Min(rest) + 1]
  <2> DEFINE k == Min(rest)
  <2>1. k \in rest /\ \A i \in rest : k <= i
    <3> HIDE DEF rest
    <3> QED BY <1>3, <1>6, MinIsLeast
  <2>2. /\ k \in FilesOf(source) /\ k >= workspace.next /\ k \in Nat
        /\ \A i \in FilesOf(source) : i >= workspace.next => i >= k
    <3> HIDE DEF k
    <3> QED BY <2>1, <1>3
  <2>3. e.name \in Names /\ size \in Nat /\ k + 1 \in Nat \ {0}
    <3> HIDE DEF k
    <3> QED BY <2>2, <1>3 DEF k
  <2>4. /\ ~Occupied(e.name) /\ size <= MaxExpanded
        /\ \A w : /\ w.entry = workspace.entry /\ w.files = workspace.files \cup {e.name}
                  /\ w.next = k + 1 /\ w.size = size
                  => ExtractOK(w)
    <3> HIDE DEF k
    <3>1. /\ ~Occupied(source.entries[k].name)
          /\ workspace.size + source.entries[k].actual <= MaxExpanded
          /\ \A w : /\ w.entry = workspace.entry
                    /\ w.files = workspace.files \cup {source.entries[k].name}
                    /\ w.next = k + 1 /\ w.size = workspace.size + source.entries[k].actual
                    => ExtractOK(w)
      BY <2>2, <1>2, NextFileFits
    <3> QED BY <3>1 DEF k
  <2> HIDE DEF rest, e, size
  <2>5. workspace' = [workspace EXCEPT !.files = @ \cup {e.name}, !.size = size, !.next = k + 1]
    BY <1>6, <2>3, <2>4, SourceAssumption
  <2> HIDE DEF k
  <2>6. /\ workspace' \in Workspaces /\ workspace'.state = "extract" /\ workspace'.good
        /\ workspace'.entry = workspace.entry /\ workspace'.files = workspace.files \cup {e.name}
        /\ workspace'.next = k + 1 /\ workspace'.size = size
    BY <1>2, <2>3, <2>5 DEF Workspaces
  <2>7. ExtractOK(workspace')
    BY <2>4, <2>6
  <2>8. ExtractOK(workspace)'
    BY <2>7, <1>2, Zenon DEF ExtractOK
  <2>9. WorkspaceOK(workspace)'
    BY <2>6, <2>8 DEF WorkspaceOK
  <2> QED BY <1>4, <1>6, <2>6, <2>9
<1>7. CASE Fault /\ workspace' = [workspace EXCEPT !.state = "refused"]
  <2>1. workspace' \in Workspaces /\ workspace'.state = "refused"
    BY <1>2, <1>7 DEF Workspaces
  <2>2. faults' > 0
    BY <1>7, FaultCounts DEF StoreInv
  <2>3. WorkspaceOK(workspace)'
    BY <2>1, <2>2 DEF WorkspaceOK
  <2> QED BY <1>4, <1>7, <2>1, <2>3
<1> QED BY <1>5, <1>6, <1>7 DEF Extract

LEMMA StoreStep == ASSUME StoreInv, [StoreNext]_storeVars PROVE StoreInv'
<1>1. CASE UNCHANGED storeVars
  <2>1. UNCHANGED <<source, file, step, part, slots, process, held, reader, scripts, workspace, inside, enabled, faults>>
    BY <1>1 DEF storeVars, jobs, host
  <2>2. (\A k \in Jobs : JobOK(k))' /\ SlotsOK'
    BY <1>1, JobsStay DEF StoreInv, storeVars
  <2>3. StoreTypes' /\ StoredOK'
    BY <2>1 DEF StoreInv, StoreTypes, StoredOK
  <2>4. WorkspaceOK(workspace)'
    BY <2>1, WorkspaceStays, SourceAssumption DEF StoreInv, StoreTypes
  <2> QED BY <2>2, <2>3, <2>4 DEF StoreInv
<1>2. CASE \E j \in Jobs : \/ Upload(j) \/ ImportGit(j) \/ Put(j) \/ GitMain(j) \/ Archive(j) \/ Consume(j)
  BY <1>2, UploadInv, ImportGitInv, PutBytesInv, ReplaceInv, RefusedInv, FetchedInv, JoinInv, ReturnedInv,
     ArchiveInv, ConsumeInv DEF Put, GitMain
<1>3. CASE \E e \in Names : ValidateReference(e) \/ Materialize(e)
  BY <1>3, ValidateReferenceInv, MaterializeInv
<1>4. CASE Extract \/ HostMoves \/ Crash \/ Damage
  BY <1>4, ExtractInv, HostMovesInv, CrashInv, DamageInv
<1> QED BY <1>1, <1>2, <1>3, <1>4 DEF StoreNext

LEMMA StoreStart == StoreInit => StoreInv
<1> SUFFICES ASSUME StoreInit PROVE StoreInv
  OBVIOUS
<1> USE DEF StoreInit
<1>1. StoreTypes
  BY SourceAssumption, EmptyOK DEF StoreTypes, Parts, FileStates, JobSteps
<1>2. \A j \in Jobs : JobOK(j)
  BY DEF JobOK, GitSteps
<1>3. SlotsOK
  <2>1. GitJobs = {}
    BY DEF GitJobs, GitJob
  <2> QED BY <2>1, FS_EmptySet, SourceAssumption DEF SlotsOK
<1>4. StoredOK
  BY DEF StoredOK, Parts
<1>5. WorkspaceOK(workspace)
  BY EmptyOK
<1> QED BY <1>1, <1>2, <1>3, <1>4, <1>5 DEF StoreInv

LEMMA StoreAlways == StoreSpec => []StoreInv
<1>1. StoreInv /\ [StoreNext]_storeVars => StoreInv'
  BY StoreStep
<1> QED BY StoreStart, <1>1, PTL DEF StoreSpec

\* Whatever a job does to the stored files, only the disk breaks one.
LEMMA NobodyBreaks ==
    ASSUME StoreInv, [StoreNext]_storeVars
    PROVE  [\A p \in Parts : file'[p] = "broken" /\ file[p] # "broken" => faults' > faults]_storeVars
<1> SUFFICES ASSUME StoreNext, NEW p \in Parts, file'[p] = "broken", file[p] # "broken"
             PROVE  faults' > faults
  OBVIOUS
<1>0. file \in [Parts -> FileStates] /\ faults \in Nat
  BY SourceAssumption DEF StoreInv, StoreTypes
<1>1. file' # file
  OBVIOUS
<1>2. ASSUME NEW j \in Jobs PROVE ~PutBytes(j) /\ ~Replace(j)
  <2>1. part[j] \in Parts
    BY DEF StoreInv, StoreTypes
  <2> QED BY <1>0, <2>1 DEF PutBytes, Replace
<1>3. ASSUME NEW j \in Jobs
      PROVE  ~Upload(j) /\ ~ImportGit(j) /\ ~Put(j) /\ ~GitMain(j) /\ ~Archive(j) /\ ~Consume(j)
  BY <1>1, <1>2 DEF Upload, ImportGit, Put, PutRefused, GitMain, Fetched, FetchFails, Join, Rejoin, Wait,
     CloseStdout, Returned, ArchiveRefused, Archive, Consume
<1>4. Damage
  BY <1>1, <1>3 DEF StoreNext, ValidateReference, Materialize, Extract, HostMoves, Crash
<1> QED BY <1>0, <1>4 DEF Damage, Fault

\* A source that is stored is whole: neither a killed API nor a second writer leaves
\* a part of it under its digest, and the beginning of an archive that git did not
\* get through the pipe in time is refused (_atomic_write, _run_git_archive, put_archive).
THEOREM ContentsStayWhole == StoreSpec => OnlyWholeContents
<1>1. StoreInv => BeginningIsRefused
  BY DEF StoreInv, StoredOK, BeginningIsRefused
<1>2. StoreInv /\ [StoreNext]_storeVars
      => [\A p \in Parts : file'[p] = "broken" /\ file[p] # "broken" => faults' > faults]_storeVars
  BY NobodyBreaks
<1> QED BY StoreAlways, <1>1, <1>2, PTL DEF StoreSpec, OnlyWholeContents, StoredIsWhole

LEMMA SlotsAreBounded == ASSUME StoreInv PROVE slots \in 0..GitSlots
<1>1. Cardinality(GitJobs) \in Nat
  BY FS_CardinalityType DEF StoreInv, SlotsOK
<1> QED BY <1>1, SourceAssumption DEF StoreInv, StoreTypes, SlotsOK

\* A version that validate_reference accepted unpacks into exactly its files, without
\* a conflict of names or sizes, and is refused only after a fault (materialize).
THEOREM AcceptedVersionsRun == StoreSpec => []AcceptedCanRun
<1>1. StoreInv => AcceptedCanRun
  <2> SUFFICES ASSUME StoreInv PROVE AcceptedCanRun
    OBVIOUS
  <2>1. StoreTypeOK
    <3>1. workspace.files \subseteq Names
      BY DEF StoreInv, StoreTypes, Workspaces
    <3> QED BY <3>1, SlotsAreBounded DEF StoreInv, StoreTypes, StoreTypeOK, JobSteps, GitSteps, FileStates
  <2>2. AcceptedExtracts
    BY DEF StoreInv, StoreTypes, Workspaces, AcceptedExtracts
  <2>3. WorkspaceIsExact /\ VersionCanRun
    BY DEF StoreInv, WorkspaceOK, WorkspaceIsExact, VersionCanRun
  <2> QED BY <2>1, <2>2, <2>3 DEF AcceptedCanRun
<1> QED BY StoreAlways, <1>1, PTL

\* Every slot that is taken belongs to an import that is still going on: whichever
\* way an import from git ends, and also when the API is killed, its slot is free
\* again (import_git), so that at most GitSlots of them run at a time.
THEOREM SlotsStayReturned == StoreSpec => []SlotsAreReturned
<1>1. StoreInv => SlotsAreReturned
  BY DEF StoreInv, SlotsOK, GitJobs, SlotsAreReturned
<1> QED BY StoreAlways, <1>1, PTL
=============================================================================
