------------------------- MODULE PlatformOperations -------------------------
(***************************************************************************)
(* How the platform is operated from its own pages: the restart requests   *)
(* the API leaves in the control directory (service_control_service.py),   *)
(* the supervisor that carries them out and keeps the two services alive   *)
(* (scripts/platform_supervisor.py), and the git operations that end in    *)
(* such a request (version_control_service.py, version_control_routes.py). *)
(* A restart of the backend kills the git operation it is executing.       *)
(***************************************************************************)
EXTENDS Naturals, FiniteSets

CONSTANTS
    Paths, Sensitive,   \* paths of the repository; those _is_sensitive names
    MaxRequests,        \* restart requests accepted
    MaxRequestsWithGit, \* and when version control is enabled
    MaxFaults           \* crashes, failed commands and files that cannot be written

ASSUME OperationsAssumption ==
    /\ Sensitive \subseteq Paths
    /\ {MaxRequests, MaxRequestsWithGit, MaxFaults} \subseteq Nat
    /\ MaxRequestsWithGit <= MaxRequests

Services == {"frontend", "backend"}
Requests == 1..MaxRequests
None == MaxRequests + 1
Garbage == 0                   \* a control file that does not parse
Files == {Garbage, None} \cup Requests

VARIABLES
    sup, pending,              \* the supervisor: where its loop is, the request it holds
    request, processing,       \* restart-request.json, restart-request.processing.json
    heartbeat,                 \* heartbeat.json is there and at most 5 seconds old
    handle,                    \* per service: _processes is not None
    server,                    \* who holds the port: "none", "child" or a "stray" process
    born,                      \* requests accepted before it was started
    target, accepted, due, replaced, dropped,   \* the requests and what became of them
    enabled,                   \* Settings.version_control_enabled
    git,                       \* the git operation in progress and its next command
    work, index, local, remote,   \* paths changed in the tree, staged, committed, pushed
    behind,                    \* origin has a commit that the branch has not
    faults

control == <<request, processing, heartbeat, target, accepted, due, replaced, dropped>>
supervisor == <<sup, pending, handle, server, born>>
repository == <<enabled, git, work, index, local, remote, behind>>
operationsVars == <<control, supervisor, repository, faults>>

OperationsInit ==
    /\ sup = "down" /\ pending = None /\ heartbeat = FALSE
    /\ request = None /\ processing \in {None, Garbage}
    /\ handle = [s \in Services |-> FALSE] /\ server = [s \in Services |-> "none"]
    /\ born = [s \in Services |-> 0]
    /\ target = [r \in Requests |-> {}] /\ accepted = 0
    /\ due = {} /\ replaced = {} /\ dropped = {}
    /\ enabled \in BOOLEAN /\ git = "idle"
    /\ work = {} /\ index = {} /\ local = {} /\ remote = {} /\ behind \in BOOLEAN
    /\ faults = 0

Fault == faults < MaxFaults /\ faults' = faults + 1

-----------------------------------------------------------------------------
(* ServiceControlService.request_restart and the routes that reach it      *)

SupervisorOnline == heartbeat

RequestBound == IF enabled THEN MaxRequestsWithGit ELSE MaxRequests

\* The new file takes the place of one that nobody has claimed.
WriteRequest(services) ==
    /\ accepted' = accepted + 1
    /\ target' = [target EXCEPT ![accepted'] = services]
    /\ replaced' = IF request = None THEN replaced ELSE replaced \cup {request}
    /\ request' = accepted'
    /\ UNCHANGED <<processing, heartbeat, due, dropped>>

RestartService(services) ==
    /\ server["backend"] # "none" /\ SupervisorOnline /\ accepted < RequestBound
    /\ WriteRequest(services)
    /\ UNCHANGED <<supervisor, repository, faults>>

\* The clock: a request's two seconds pass, a heartbeat that is not renewed
\* becomes older than five.
ComesDue(r) ==
    /\ r <= accepted /\ r \notin due /\ due' = due \cup {r}
    /\ UNCHANGED <<request, processing, heartbeat, target, accepted, replaced, dropped>>
    /\ UNCHANGED <<supervisor, repository, faults>>

HeartbeatAges ==
    /\ heartbeat /\ heartbeat' = FALSE
    /\ UNCHANGED <<request, processing, target, accepted, due, replaced, dropped>>
    /\ UNCHANGED <<supervisor, repository, faults>>

-----------------------------------------------------------------------------
(* PlatformSupervisor                                                      *)

\* The child that finds its port occupied exits at once.
Started(services) ==
    /\ handle' = [s \in Services |-> handle[s] \/ s \in services]
    /\ server' = [s \in Services |->
                    IF s \in services /\ server[s] = "none" THEN "child" ELSE server[s]]
    /\ born' = [s \in Services |->
                    IF s \in services /\ server[s] = "none" THEN accepted ELSE born[s]]

\* taskkill, wait, kill, wait: `survivors` are still there after all of it.
Stopped(services, survivors) ==
    /\ handle' = [s \in Services |-> handle[s] /\ s \notin services]
    /\ server' = [s \in Services |->
                    IF s \notin services \/ server[s] # "child" THEN server[s]
                    ELSE IF s \in survivors THEN "stray" ELSE "none"]
    /\ git' = IF server'["backend"] = "none" THEN "idle" ELSE git
    /\ UNCHANGED <<born, enabled, work, index, local, remote, behind>>

Survivors(services, survivors) ==
    IF survivors = {} THEN UNCHANGED faults ELSE survivors \subseteq services /\ Fault

\* run: _validate_layout refuses occupied ports.
Launch ==
    /\ sup = "down" /\ \A s \in Services : server[s] = "none"
    /\ sup' = "ensure"
    /\ UNCHANGED <<pending, handle, server, born, control, repository, faults>>

\* Mutant: a child that has ended counts as long as there is a handle.
EnsureHandles ==
    /\ sup = "ensure" /\ sup' = "heartbeat"
    /\ Started({s \in Services : ~handle[s]})
    /\ UNCHANGED <<pending, control, repository, faults>>

\* A child that is alive is the one a handle refers to.
EnsureChildrenRunning ==
    /\ sup = "ensure" /\ sup' = "heartbeat"
    /\ Started({s \in Services : ~handle[s] \/ server[s] # "child"})
    /\ UNCHANGED <<pending, control, repository, faults>>

TryWriteHeartbeat ==
    /\ sup = "heartbeat" /\ sup' = "claim"
    /\ \/ heartbeat' = TRUE /\ UNCHANGED faults
       \/ UNCHANGED heartbeat /\ Fault
    /\ UNCHANGED <<request, processing, target, accepted, due, replaced, dropped>>
    /\ UNCHANGED <<pending, handle, server, born, repository>>

\* Mutant: the claim is removed before it is carried out.
ParsedAndRemoved(file) ==
    /\ pending' = (IF file = Garbage THEN None ELSE file) /\ processing' = None
    /\ UNCHANGED <<dropped, faults>>

\* parse_control_request; a file that does not parse is removed, and so is a request
\* that cannot be read at the moment, since _read_json answers None to an OSError too.
Parsed(file) ==
    \/ /\ file = Garbage /\ pending' = None /\ processing' = None
       /\ UNCHANGED <<dropped, faults>>
    \/ /\ file # Garbage /\ pending' = file /\ processing' = file
       /\ UNCHANGED <<dropped, faults>>
    \/ /\ file # Garbage /\ pending' = None /\ processing' = None
       /\ dropped' = dropped \cup {file} /\ Fault

ClaimRequest ==
    /\ sup = "claim" /\ sup' = "due"
    /\ \/ /\ pending # None
          /\ UNCHANGED <<pending, processing, request, dropped, faults>>
       \/ /\ pending = None /\ processing # None
          /\ Parsed(processing) /\ UNCHANGED request
       \/ /\ pending = None /\ processing = None /\ request # None
          /\ Parsed(request) /\ request' = None
       \/ /\ pending = None /\ processing = None
          /\ UNCHANGED <<pending, processing, request, dropped>>
          /\ IF request = None THEN UNCHANGED faults ELSE Fault
    /\ UNCHANGED <<heartbeat, target, accepted, due, replaced>>
    /\ UNCHANGED <<handle, server, born, repository>>

NotDue ==
    /\ sup = "due" /\ pending \notin due
    /\ sup' = "ensure"
    /\ UNCHANGED <<pending, handle, server, born, control, repository, faults>>

\* _restart: all of its services stop before one of them starts.
RestartStops(survivors) ==
    /\ sup = "due" /\ pending \in due
    /\ sup' = "start"
    /\ Survivors(target[pending], survivors) /\ Stopped(target[pending], survivors)
    /\ UNCHANGED <<pending, control>>

RestartStarts ==
    /\ sup = "start" /\ sup' = "unlink"
    /\ Started(target[pending])
    /\ UNCHANGED <<pending, control, repository, faults>>

Unlink ==
    /\ sup = "unlink" /\ sup' = "ensure"
    /\ pending' = None /\ processing' = None
    /\ UNCHANGED <<request, heartbeat, target, accepted, due, replaced, dropped>>
    /\ UNCHANGED <<handle, server, born, repository, faults>>

\* An interrupt, or an exception of the loop (a child that cannot be started):
\* the finally clause of run.
Shutdown(survivors) ==
    /\ sup # "down" /\ sup' = "down" /\ pending' = None /\ heartbeat' = FALSE
    /\ Fault /\ Stopped(Services, survivors)
    /\ UNCHANGED <<request, processing, target, accepted, due, replaced, dropped>>

\* The supervisor is killed: its children go on without it.
Crash ==
    /\ sup # "down" /\ sup' = "down" /\ pending' = None /\ Fault
    /\ handle' = [s \in Services |-> FALSE]
    /\ server' = [s \in Services |-> IF server[s] = "child" THEN "stray" ELSE server[s]]
    /\ UNCHANGED <<born, control, repository>>

\* A service ends by itself; a stray process ends at last.
ServiceEnds(s) ==
    /\ server[s] # "none" /\ server' = [server EXCEPT ![s] = "none"]
    /\ IF server[s] = "child" THEN Fault ELSE UNCHANGED faults
    /\ git' = IF s = "backend" THEN "idle" ELSE git
    /\ UNCHANGED <<sup, pending, handle, born, control>>
    /\ UNCHANGED <<enabled, work, index, local, remote, behind>>

-----------------------------------------------------------------------------
(* VersionControlService: one operation at a time, under its lock.  A      *)
(* command that fails or times out ends the operation where it is.         *)

Git(command, next) ==
    /\ git = command /\ git' = next
    /\ UNCHANGED <<enabled, supervisor>>

Unchanged == UNCHANGED <<work, index, local, remote, behind, faults>>

Begin ==
    /\ enabled /\ git = "idle" /\ server["backend"] # "none"
    /\ \/ git' = "add"
       \/ work = {} /\ index = {} /\ git' = "pull"     \* _status_unlocked is clean
    /\ Unchanged /\ UNCHANGED <<enabled, supervisor, control>>

\* git pull --ff-only
Pull ==
    /\ Git("pull", "schedule")
    /\ behind => local \subseteq remote
    /\ behind' = FALSE /\ UNCHANGED <<work, index, local, remote, faults>>
    /\ UNCHANGED control

\* git add --all
Add ==
    /\ Git("add", "check")
    /\ index' = work /\ UNCHANGED <<work, local, remote, behind, faults>>
    /\ UNCHANGED control

CheckStaged ==
    /\ Git("check", IF index \cap Sensitive # {} THEN "unstage" ELSE "commit")
    /\ Unchanged /\ UNCHANGED control

UnstageAll ==
    /\ Git("unstage", "idle")
    /\ index' = {} /\ UNCHANGED <<work, local, remote, behind, faults>>
    /\ UNCHANGED control

\* Mutant: with nothing to commit there is nothing to push either.
CommitOrNothing ==
    /\ Git("commit", IF index = {} THEN "schedule" ELSE "push")
    /\ local' = local \cup index /\ index' = {}
    /\ work' = (work \ index) \cup (index \ work)
    /\ UNCHANGED <<remote, behind, faults>>
    /\ UNCHANGED control

\* Only what is staged is committed; what has changed back since is a change again.
CommitStaged ==
    /\ Git("commit", "push")
    /\ local' = local \cup index /\ index' = {}
    /\ work' = (work \ index) \cup (index \ work)
    /\ UNCHANGED <<remote, behind, faults>>
    /\ UNCHANGED control

\* git push, which a branch that is behind cannot do
Push ==
    /\ Git("push", "schedule") /\ ~behind
    /\ remote' = remote \cup local /\ UNCHANGED <<work, index, local, behind, faults>>
    /\ UNCHANGED control

\* A rejected pull or push, or any command that fails or runs out of time, the
\* status that is read at the end included.
CommandFails ==
    /\ git # "idle" /\ git' = "idle"
    /\ IF \/ git = "pull" /\ behind /\ ~(local \subseteq remote)
          \/ git = "push" /\ behind
       THEN UNCHANGED faults ELSE Fault
    /\ UNCHANGED <<supervisor, control>>
    /\ UNCHANGED <<enabled, work, index, local, remote, behind>>

\* _schedule_restart, which is silent when the supervisor is not online
ScheduleRestart ==
    /\ Git("schedule", "idle")
    /\ IF SupervisorOnline /\ accepted < RequestBound
       THEN WriteRequest(Services) ELSE UNCHANGED control
    /\ Unchanged

\* People work in the tree; what they stage or commit by hand, which publish would
\* push too, is not modelled.
Edit ==
    /\ enabled
    /\ \E p \in Paths : work' = work \cup {p} \/ work' = work \ {p}
    /\ UNCHANGED <<enabled, git, index, local, remote, behind, supervisor, control, faults>>

-----------------------------------------------------------------------------

Supervise ==
    \/ EnsureChildrenRunning \/ TryWriteHeartbeat \/ ClaimRequest
    \/ NotDue \/ \E k \in SUBSET Services : RestartStops(k)
    \/ RestartStarts \/ Unlink

OperationsNext ==
    \/ \E services \in SUBSET Services \ {{}} : RestartService(services)
    \/ \E r \in Requests : ComesDue(r)
    \/ HeartbeatAges \/ Launch \/ Supervise \/ Crash
    \/ \E k \in SUBSET Services : Shutdown(k)
    \/ \E s \in Services : ServiceEnds(s)
    \/ Begin \/ Pull \/ Add \/ CheckStaged \/ UnstageAll \/ CommitStaged \/ Push
    \/ CommandFails \/ ScheduleRestart \/ Edit

\* The supervisor's loop goes on, the clock runs, and process.kill ends the
\* backend, which has no children; the frontend's kill ends a shell only.
OperationsFairness ==
    /\ WF_operationsVars(Supervise)
    /\ \A r \in Requests : WF_operationsVars(ComesDue(r))
    /\ WF_operationsVars(server["backend"] = "stray" /\ ServiceEnds("backend"))

OperationsSpec == OperationsInit /\ [][OperationsNext]_operationsVars /\ OperationsFairness

-----------------------------------------------------------------------------

\* The state has its types, and the supervisor has a handle on every child it has
\* (PlatformSupervisor._processes), so that it can stop it.
OperationsTypeOK ==
    /\ sup \in {"down", "ensure", "heartbeat", "claim", "due", "start", "unlink"}
    /\ {pending, request, processing} \subseteq Files
    /\ heartbeat \in BOOLEAN
    /\ handle \in [Services -> BOOLEAN]
    /\ server \in [Services -> {"none", "child", "stray"}]
    /\ born \in [Services -> 0..MaxRequests]
    /\ target \in [Requests -> SUBSET Services] /\ accepted \in 0..MaxRequests
    /\ {due, replaced, dropped} \subseteq SUBSET Requests
    /\ enabled \in BOOLEAN
    /\ git \in {"idle", "pull", "add", "check", "unstage", "commit", "push", "schedule"}
    /\ faults \in 0..MaxFaults
    /\ {work, index, local, remote} \subseteq SUBSET Paths /\ behind \in BOOLEAN
    /\ \A s \in Services : server[s] = "child" => handle[s]

\* No accepted restart request is lost, whenever the supervisor is killed: it is
\* in one of the two control files until the processes it was for are gone, unless
\* a later request took its place unclaimed (_write_request_unlocked) or its claimed
\* file could not be read (_read_json).
RequestIsNeverLost ==
    \A r \in 1..accepted :
        \/ r \in replaced \cup dropped \/ request = r \/ processing = r
        \/ \A s \in target[r] : server[s] # "child" \/ born[s] >= r

\* A request that was claimed is not replaced any more: a later one takes the place
\* of what the supervisor has not seen, and of nothing else.
ClaimedIsNotReplaced == replaced \cap (dropped \cup {processing}) = {}

\* A path that _is_sensitive names never reaches origin, whatever is left staged
\* by an operation that failed, timed out or was killed with the backend, and
\* whatever people do in the tree while publish runs.
NothingSensitivePublished == remote \cap Sensitive = {}

\* When publish reports success, everything committed is at origin, also what an
\* earlier publish committed and failed to push.
PublishedIsPushed ==
    [][(git \in {"commit", "push"} /\ git' = "schedule") => (local' \subseteq remote')]_operationsVars

\* An accepted request leads to processes that were started after it, unless it is
\* replaced, cannot be read when it is claimed, or a process outlives its taskkill
\* and keeps the port: the request is carried out although the supervisor may crash
\* and be started again.
RestartHappens ==
    []<>(sup # "down") =>
        \A r \in Requests :
            r <= accepted ~>
                \/ r \in replaced \cup dropped
                \/ \A s \in target[r] :
                       server[s] = "stray" \/ (server[s] = "child" /\ born[s] >= r)

\* A service that has ended, by itself or stopped for a restart, is running again
\* after some rounds of the loop (_ensure_children_running).
ServicesComeBack ==
    <>[](sup # "down") => \A s \in Services : []<>(server[s] # "none")

\* A restart request that can be read survives every crash until it is carried out.
RequestsSurvive == OperationsTypeOK /\ RequestIsNeverLost /\ ClaimedIsNotReplaced

\* What reaches origin is everything that was committed and nothing sensitive.
PublishIsSound == []NothingSensitivePublished /\ PublishedIsPushed

\* The supervisor carries requests out and keeps the services up.
SupervisorDelivers == RestartHappens /\ ServicesComeBack
=============================================================================
