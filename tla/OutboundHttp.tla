---------------------------- MODULE OutboundHttp ----------------------------
(***************************************************************************)
(* Requests the system sends out: the HTTP adapter of the Runner           *)
(* (HttpAdapter) and, in the API, the load test executor                   *)
(* (load_test_executor.py), the connector client (connector_client.py) and *)
(* the data factory's HTTP nodes (data_factory_executor.py).  Each of these *)
(* validates the addresses a host name resolves to, connects to one of     *)
(* those addresses, reads a bounded part of the answer and closes it.  The *)
(* name server, the network and the remote server are the environment:     *)
(* names are rebound, connections fail, bodies and tool lists do not end,  *)
(* an event stream carries answers to other requests.                      *)
(***************************************************************************)
EXTENDS HttpAdapter

CONSTANTS
    Answers,       \* what a name can resolve to: sequences of kinds of address
    MaxRequests,   \* bound: requests of one load test thread
    BodyLimit,     \* chunks of a body that are kept (1 MiB)
    MaxPages,      \* pages of a tool discovery (100)
    MaxTools,      \* tools of a discovery (1000)
    PageSize       \* bound: tools on one page of the server

ASSUME OutboundAssumption ==
    \A n \in {MaxRequests, BodyLimit, MaxPages, MaxTools, PageSize} : n \in Nat \ {0}

VARIABLES
    client,      \* which code sends: one of Clients
    private,     \* the host is in allowed_private_hosts
    dns,         \* what the host name resolves to at the moment
    catalogue,   \* tools of the MCP server; it never stops listing when endless
    endless,
    pc,
    pinned,      \* the addresses validated for this destination
    todo,        \* those not yet tried for this request
    connected,   \* the address of the open response, or "none"
    body,        \* chunks of it read so far
    sent,        \* requests, or pages, that have been answered
    phase,       \* of an MCP session
    cursor,      \* the page to ask for, in tools
    tools,       \* tools kept
    extracted,   \* chunks of the body that scenario variables were last taken from
    result       \* of the last request, and of the whole call at pc = "end"

environment == <<client, private, catalogue, endless>>
page == <<phase, cursor, tools, extracted>>
session == <<sent, page>>
call == <<environment, dns, pc, pinned, todo, connected, body, session, result>>
vars == <<call, adapterVars>>

\* Kinds of address, as far as the clients' checks tell them apart.  "special" is
\* global and refused by load tests and connectors all the same (multicast, NAT64,
\* 192.0.0.0/24); "sixtofour" and "teredo" are 2002::/16 and 2001::/32, which only
\* the connector's _BLOCKED_NETWORKS names.  The first is global in some versions of
\* Python; where it is not, it is treated as the second.  "local" is loopback,
\* link-local, unspecified, reserved and the other networks both lists name.
Addresses == {"public", "private", "special", "sixtofour", "teredo", "local"}
ASSUME AnswersAssumption == Answers \subseteq Seq(Addresses)

Clients == {"requests", "scenario", "login", "http", "mcp", "factory", "runner"}
LoadTest == client \in {"requests", "scenario", "login"}
Connector == client \in {"http", "mcp"}
Factory == client = "factory"

Init ==
    /\ client \in Clients
    /\ private \in IF client \in {"factory", "runner"} THEN {FALSE} ELSE BOOLEAN
    /\ dns \in Answers /\ (client = "runner" => dns = <<>>)
    /\ catalogue \in IF client = "mcp" THEN 0..(MaxTools + 1) ELSE {0}
    /\ endless \in IF client = "mcp" THEN BOOLEAN ELSE {FALSE}
    /\ pc = (IF client = "runner" THEN "end" ELSE "resolve") /\ pinned = <<>> /\ todo = <<>> /\ connected = "none" /\ body = 0
    /\ sent = 0 /\ cursor = 0 /\ tools = 0 /\ extracted = 0 /\ result = "none"
    /\ phase = IF client = "mcp" THEN "initialize" ELSE "none"
    /\ plan \in (IF client = "runner" THEN Plans ELSE {<<>>}) /\ AdapterInit

\* The name is bound to other addresses, at any time.
Rebind ==
    /\ pc # "end"
    /\ dns' \in Answers \ {dns}
    /\ UNCHANGED <<environment, pc, pinned, todo, connected, body, session, result>>

-----------------------------------------------------------------------------
(* Which addresses are permitted.                                          *)

LoadIsPublic == {"public", "sixtofour"}
LoadIsAllowedPrivate == {"public", "private", "sixtofour", "teredo"}
ConnectorIsPublic == {"public"}
ConnectorIsAllowedPrivate == {"public", "private"}
FactoryIsGlobal == {"public", "special", "sixtofour"}

Permitted ==
    CASE LoadTest /\ ~private -> LoadIsPublic
      [] LoadTest /\ private -> LoadIsAllowedPrivate
      [] Connector /\ ~private -> ConnectorIsPublic
      [] Connector /\ private -> ConnectorIsAllowedPrivate
      [] Factory -> FactoryIsGlobal

AllPermitted(answer) == answer # <<>> /\ \A i \in DOMAIN answer : answer[i] \in Permitted

-----------------------------------------------------------------------------
(* One request: resolve, connect, read, close.                             *)

End(how) == pc' = "end" /\ result' = how

\* What a load test thread does after a request: the next one, or none is left.
NextRequest(how) ==
    /\ sent' = sent + 1
    /\ IF sent + 1 < MaxRequests
       THEN pc' = (IF client = "scenario" THEN "resolve" ELSE "render") /\ result' = how
       ELSE End(how)

\* A request that got no answer, or an answer that is not accepted.
FailRequest(how) ==
    IF client \in {"requests", "scenario"} THEN NextRequest(how)
    ELSE End(how) /\ UNCHANGED sent

\* _validate_public_url: at the start of a run in REQUESTS mode, before each
\* request of a scenario, before a login.  A scenario counts a refusal as a
\* failed request (a LoadTestExecutionError is a ValueError) and goes on.
LoadValidate ==
    /\ pc = "resolve" /\ LoadTest
    /\ \/ AllPermitted(dns) /\ pinned' = dns /\ pc' = "render" /\ UNCHANGED <<result, sent>>
       \/ /\ pinned' = <<>>
          /\ IF client = "scenario" THEN NextRequest("request_error")
             ELSE End("refused") /\ UNCHANGED sent
    /\ UNCHANGED <<environment, dns, todo, connected, body, page>>

ConnectorValidate ==
    /\ pc = "resolve" /\ Connector
    /\ \/ AllPermitted(dns) /\ pinned' = dns /\ pc' = "render" /\ UNCHANGED result
       \/ pinned' = <<>> /\ End("refused")
    /\ UNCHANGED <<environment, dns, todo, connected, body, session>>

FactoryValidate ==
    /\ pc = "resolve" /\ Factory
    /\ \/ AllPermitted(dns) /\ pinned' = dns /\ pc' = "render" /\ UNCHANGED result
       \/ pinned' = <<>> /\ End("refused")
    /\ UNCHANGED <<environment, dns, todo, connected, body, session>>

\* The URL's dynamic templates are rendered for this request: _rendered_destination
\* refuses another scheme, host or port than the one that was validated.
RenderedDestination ==
    /\ pc = "render" /\ client = "requests"
    /\ FailRequest("template_error")
    /\ UNCHANGED <<environment, dns, pinned, todo, connected, body, page>>

\* Mutant: the name is resolved again when the connection is made.
SendByName ==
    /\ pc = "render" /\ dns # <<>> /\ pc' = "connect" /\ todo' = dns /\ body' = 0
    /\ UNCHANGED <<environment, dns, pinned, connected, session, result>>

Send ==
    /\ pc = "render" /\ pc' = "connect" /\ todo' = pinned /\ body' = 0
    /\ UNCHANGED <<environment, dns, pinned, connected, session, result>>

\* _request_pinned: the validated addresses in turn, until one answers.
Connects ==
    /\ connected' = Head(todo) /\ pc' = "read" /\ todo' = <<>>
    /\ UNCHANGED <<environment, dns, pinned, body, session, result>>

Unreachable ==
    /\ IF Len(todo) > 1 THEN todo' = Tail(todo) /\ UNCHANGED <<pc, result, sent>>
       ELSE todo' = <<>> /\ FailRequest("request_error")
    /\ UNCHANGED <<environment, dns, pinned, connected, body, page>>

\* Anything but an HTTPError or an OSError is not tried again.
Aborted ==
    /\ todo' = <<>> /\ FailRequest("request_error")
    /\ UNCHANGED <<environment, dns, pinned, connected, body, page>>

LoadConnect == pc = "connect" /\ LoadTest /\ (Connects \/ Unreachable \/ Aborted)
ConnectorConnect == pc = "connect" /\ Connector /\ (Connects \/ Unreachable \/ Aborted)
FactoryConnect == pc = "connect" /\ Factory /\ (Connects \/ Unreachable \/ Aborted)

Chunk ==
    /\ body' = body + 1
    /\ UNCHANGED <<environment, dns, pc, pinned, todo, connected, session, result>>
Complete ==
    /\ pc' = "answer"
    /\ UNCHANGED <<environment, dns, pinned, todo, connected, body, session, result>>
Overflow ==
    /\ connected' = "none" /\ body' = 0 /\ FailRequest("request_error")
    /\ UNCHANGED <<environment, dns, pinned, todo, page>>

\* _read_captured_body stops one chunk behind the limit: the body is truncated.
CapturedBody ==
    /\ pc = "read" /\ client \in {"requests", "scenario"}
    /\ \/ body <= BodyLimit /\ Chunk
       \/ Complete

\* _read_limited_body, _read_body and _read_bounded_body give up there.
LimitedBody ==
    /\ pc = "read" /\ client = "login"
    /\ \/ body < BodyLimit /\ Chunk
       \/ body = BodyLimit /\ Overflow
       \/ Complete
ConnectorBody ==
    /\ pc = "read" /\ Connector
    /\ \/ body < BodyLimit /\ Chunk
       \/ body = BodyLimit /\ Overflow
       \/ Complete
FactoryBody ==
    /\ pc = "read" /\ Factory
    /\ \/ body < BodyLimit /\ Chunk
       \/ body = BodyLimit /\ Overflow
       \/ Complete

Close == connected' = "none" /\ body' = 0
AnswerFrame == UNCHANGED <<environment, dns, pinned, todo>>

\* The connection breaks while the answer is read.
Broken ==
    /\ pc = "read" /\ Close /\ FailRequest("request_error")
    /\ AnswerFrame /\ UNCHANGED <<page>>

\* _request_target: only the status decides.
RequestTarget ==
    /\ pc = "answer" /\ client = "requests" /\ Close
    /\ \E how \in {"success", "unexpected_status"} : NextRequest(how)
    /\ AnswerFrame /\ UNCHANGED <<page>>

\* Mutant: values are extracted from a truncated body.
ScenarioTargetTruncated ==
    /\ pc = "answer" /\ client = "scenario" /\ Close
    /\ \E how \in {"success", "unexpected_status", "extractor_error"} : NextRequest(how)
    /\ extracted' = IF result' = "success" THEN body ELSE extracted
    /\ AnswerFrame /\ UNCHANGED <<phase, cursor, tools>>

\* _request_scenario_target extracts variables, never from a truncated body.
RequestScenarioTarget ==
    /\ pc = "answer" /\ client = "scenario" /\ Close
    /\ \E how \in {"success", "unexpected_status", "extractor_error"} :
          (body > BodyLimit => how # "success") /\ NextRequest(how)
    /\ extracted' = IF result' = "success" THEN body ELSE extracted
    /\ AnswerFrame /\ UNCHANGED <<phase, cursor, tools>>

\* _login: the status, the JSON, the path of the token, the token; every other
\* error is reported as login_request_failed.
Login ==
    /\ pc = "answer" /\ client = "login" /\ Close
    /\ \E how \in {"token", "login_http_error", "login_response_invalid",
                   "login_token_path_missing", "login_token_invalid"} : End(how)
    /\ AnswerFrame /\ UNCHANGED session

\* _execute_http of a data factory node.
ExecuteHttp ==
    /\ pc = "answer" /\ Factory /\ Close
    /\ \E how \in {"SUCCEEDED", "FAILED"} : End(how)
    /\ AnswerFrame /\ UNCHANGED session

\* _require_success refuses redirects and errors before the body is read.
RequireSuccess ==
    /\ pc = "read" /\ Connector /\ body = 0 /\ Close /\ End("status_error")
    /\ AnswerFrame /\ UNCHANGED session

\* The end of _test_validated for an HTTP connector.
TestHttp ==
    /\ pc = "answer" /\ client = "http" /\ Close /\ End("connected")
    /\ AnswerFrame /\ UNCHANGED session

-----------------------------------------------------------------------------
(* _test_mcp: initialize, the notification, then the tools page by page.   *)

\* What the body of an answer holds: a JSON value, or the events of a stream in
\* order.  "old" answers the request before, "note" is no answer to anything.
Payloads ==
    {[stream |-> FALSE, events |-> <<"mine">>]}
    \cup [stream : {TRUE}, events : {<<>>} \cup [1..1 -> {"mine", "old", "note"}]
                                  \cup [1..2 -> {"mine", "old", "note"}]]

\* _parse_mcp_payload: the first event with the expected id; a notification has
\* no id and takes any event.
ParseMcpPayload(payload) ==
    IF payload.events = <<>> THEN "nothing"
    ELSE IF ~payload.stream \/ phase = "initialized" THEN payload.events[1]
    ELSE IF \E i \in DOMAIN payload.events : payload.events[i] = "mine" THEN "mine" ELSE "invalid"

\* The server's page at a cursor; the answer before this one held the page before.
Least(a, b) == IF a < b THEN a ELSE b
PageAt(c) == IF endless THEN 0 ELSE Least(PageSize, catalogue - c)
NextCursor(c) == IF endless THEN c ELSE c + PageAt(c)
HasNext(c) == endless \/ NextCursor(c) < catalogue
Answered(event) == IF event = "old" /\ cursor >= PageSize THEN cursor - PageSize ELSE cursor

\* _rpc: an answer that is not accepted ends the test.
RpcFails ==
    /\ pc = "answer" /\ client = "mcp" /\ Close /\ End("mcp_error")
    /\ AnswerFrame /\ UNCHANGED session

Initialize ==
    /\ pc = "answer" /\ phase = "initialize" /\ Close
    /\ \E payload \in Payloads : ParseMcpPayload(payload) = "mine"
    /\ phase' = "initialized" /\ pc' = "resolve"
    /\ AnswerFrame /\ UNCHANGED <<sent, cursor, tools, extracted, result>>

Initialized ==
    /\ pc = "answer" /\ phase = "initialized" /\ Close
    /\ phase' = "list" /\ pc' = "resolve"
    /\ AnswerFrame /\ UNCHANGED <<sent, cursor, tools, extracted, result>>

\* Mutant: the discovery has no page limit.
ListToolsUnbounded ==
    /\ pc = "answer" /\ phase = "list" /\ Close
    /\ tools' = tools + PageAt(cursor)
    /\ IF ~HasNext(cursor) THEN End("tools") /\ UNCHANGED <<cursor, sent>>
       ELSE cursor' = NextCursor(cursor) /\ pc' = "resolve" /\ UNCHANGED <<sent, result>>
    /\ AnswerFrame /\ UNCHANGED <<phase, extracted>>

ListTools ==
    /\ pc = "answer" /\ phase = "list" /\ Close
    /\ \E payload \in Payloads :
          /\ ParseMcpPayload(payload) \in {"mine", "old"}
          /\ LET c == Answered(ParseMcpPayload(payload)) IN
             /\ tools' = tools + PageAt(c)
             /\ IF tools' > MaxTools THEN End("mcp_error") /\ UNCHANGED <<cursor, sent>>
                ELSE IF ~HasNext(c) THEN End("tools") /\ UNCHANGED <<cursor, sent>>
                ELSE /\ sent' = sent + 1 /\ cursor' = NextCursor(c)
                     /\ IF sent + 1 < MaxPages THEN pc' = "resolve" /\ UNCHANGED result
                        ELSE End("mcp_error")
    /\ AnswerFrame /\ UNCHANGED <<phase, extracted>>

-----------------------------------------------------------------------------
Call ==
    \/ LoadValidate \/ ConnectorValidate \/ FactoryValidate
    \/ RenderedDestination \/ Send
    \/ LoadConnect \/ ConnectorConnect \/ FactoryConnect
    \/ CapturedBody \/ LimitedBody \/ ConnectorBody \/ FactoryBody \/ Broken
    \/ RequestTarget \/ RequestScenarioTarget \/ Login \/ ExecuteHttp
    \/ RequireSuccess \/ TestHttp
    \/ RpcFails \/ Initialize \/ Initialized \/ ListTools

Ended == pc = "end" /\ (client = "runner" => AdapterEnded) /\ UNCHANGED vars

Next ==
    \/ (Call \/ Rebind) /\ UNCHANGED adapterVars
    \/ (AdapterStep \/ DeadlinePasses) /\ client = "runner" /\ UNCHANGED call
    \/ Ended

\* The calling thread runs.  In the API connecting and each read time out and the
\* reads of an answer are limited; the adapter limits only the time between two
\* reads, so that nothing is assumed of a request it has sent.
Spec ==
    /\ Init /\ [][Next]_vars
    /\ WF_vars(Call /\ UNCHANGED adapterVars)
    /\ WF_vars(AdapterStep /\ ~asking /\ UNCHANGED call)

-----------------------------------------------------------------------------
TypeOK ==
    /\ AdapterTypeOK /\ client \in Clients /\ dns \in Answers
    /\ pc \in {"resolve", "render", "connect", "read", "answer", "end"}
    /\ connected \in Addresses \cup {"none"}
    /\ todo # <<>> <=> pc = "connect"
    /\ sent \in 0..(IF client = "mcp" THEN MaxPages ELSE MaxRequests)
    /\ phase \in {"none", "initialize", "initialized", "list"}

\* Whatever the name server answers between validation and connection, and
\* however many requests follow one validation, a connection goes to an address
\* its client may reach: never a local one, one that is not global only for a host
\* that is listed as private, multicast and the like only from the data factory, and
\* a tunnel of IPv6 over IPv4 never from a connector.
ConnectionsArePermitted ==
    /\ connected # "local"
    /\ connected \in {"private", "teredo"} => private
    /\ connected = "special" => Factory
    /\ connected \in {"sixtofour", "teredo"} => ~Connector

\* No more of an answer is held than the limit and the chunk that tells that
\* there is more, even when the server does not stop sending.
BodyIsBounded == body <= BodyLimit + 1

\* Variables of a scenario come from complete answers only.
ExtractedFromWhole == extracted <= BodyLimit

\* A tool discovery that succeeds has all tools of the server and each once,
\* over several pages, with answers to earlier requests still in the stream.
DiscoveryIsComplete == result = "tools" => tools = catalogue /\ ~endless

\* No answer is left open when a request is over, on any of its error paths.
AnswersAreClosed == [][pc' \in {"resolve", "render", "end"} => connected' = "none"]_vars

\* A call of the API ends, with a server that never stops sending, a list of pages
\* without end or a name that is rebound all the time.  A task of the runner ends,
\* whatever its steps come to, unless a server keeps one request of it for ever:
\* the adapter reads an answer of any length, and only the deadline of the
\* container around it ends that.
CallEnds == <>(pc = "end" /\ (client = "runner" => AdapterEnded)) \/ <>[]asking

\* Of an answer no more is held than the limit allows, and what is made of it,
\* a scenario's variables or a list of tools, is made of all of it.
AnswersAreUsedWhole == TypeOK /\ BodyIsBounded /\ ExtractedFromWhole /\ DiscoveryIsComplete

\* An HTTP task runs its after steps and reports the first failure that counts,
\* whichever of its steps fail or meet the deadline; only a step that raises what
\* nothing catches ends it early, and then it is an INFRA_ERROR.
TaskRunsToItsEnd == AfterStepsRun /\ OutcomeIsFirstFailure

\* Every call ends that its server lets go, and no request of it leaves an answer open on the way.
CallsEndClosed == AnswersAreClosed /\ CallEnds
=============================================================================
