---------------------------- MODULE EventPipeline ----------------------------
(***************************************************************************)
(* One attempt executed in a container, from the Runner agent to the       *)
(* database: runner/container_entrypoint.py writes events and the result   *)
(* as lines to its stdout, a reader thread of SubprocessDockerClient       *)
(* (services/docker_executor.py) hands each line to DockerExecutor's       *)
(* consume and on to RunnerManager's persist_event, while another thread   *)
(* waits for the process and its deadline.  Or the attempt is executed on  *)
(* the host (services/host_executor.py): the agent runs in the manager's   *)
(* process and each of its threads calls persist_event itself, under the   *)
(* emit lock.  The reaper may expire the attempt meanwhile.                *)
(***************************************************************************)
EXTENDS RunnerAgent

CONSTANTS
    PipeLines,  \* lines the pipe and its buffers hold before a write blocks
    NoLine

ASSUME PipelineAssumption == PipeLines \in Nat \ {0} /\ NoLine \notin Events

VARIABLES
    process,    \* the docker CLI: "none", "running", "exited" or "killed";
                \* "hosted" when the agent runs without one
    exitCode,
    pipe,       \* lines written and not read
    closed,     \* the client has closed its end of stdout
    reader,     \* where read_stdout, or the emitting thread, is in handling `line`
    line,
    received,   \* outcome of the result line consume has seen
    sinkError,  \* stdout_errors is not empty
    client,     \* where SubprocessDockerClient.run is
    timedOut,
    alive,      \* a reader was still alive after its join
    outcome,    \* of DockerExecutor.execute, as the manager sees it
    reported,   \* `outcome` is the one the container reported
    spool,      \* the attempt's artifact spool exists
    stored,     \* seq of artifact events whose file is in the artifact store
    rows,       \* seq of artifact events whose row is in the artifacts table
    events,     \* rows of the attempt in the events table, by cursor
    attempt     \* state of the attempt

transportVars == <<process, exitCode, pipe, closed>>
readerVars == <<reader, line, received, sinkError, stored, rows, events>>
clientVars == <<client, timedOut, alive, outcome, reported, spool>>
vars == <<agentVars, transportVars, readerVars, clientVars, attempt>>

ResultLine == [type |-> "RESULT", seq |-> 0]
Final == {"SUCCEEDED", "FAILED", "TIMED_OUT", "INFRA_ERROR"}

TypeOK ==
    /\ AgentTypeOK
    /\ process \in {"none", "running", "exited", "killed", "hosted"} /\ exitCode \in 0..1
    /\ pipe \in Seq(Events \cup {ResultLine}) /\ Len(pipe) <= PipeLines
    /\ {closed, sinkError, timedOut, alive, reported, spool} \subseteq BOOLEAN
    /\ reader \in {"reading", "collect", "record", "renew", "append", "ended"}
    /\ line \in Events \cup {NoLine}
    /\ received \in Final \cup {"NONE"} /\ outcome \in Final \cup {"NONE"}
    /\ client \in {"start", "waiting", "hosted", "closing", "joining", "done"}
    /\ events \in Seq(Events) /\ rows \subseteq Nat /\ stored \subseteq Nat
    /\ attempt \in Final \cup {"RUNNING", "LOST"}

Init ==
    /\ AgentInit
    /\ process = "none" /\ exitCode = 0 /\ pipe = <<>> /\ closed = FALSE
    /\ reader = "reading" /\ line = NoLine /\ received = "NONE" /\ sinkError = FALSE
    /\ client = "start" /\ timedOut = FALSE /\ alive = FALSE
    /\ outcome = "NONE" /\ reported = FALSE /\ spool = FALSE
    /\ stored = {} /\ rows = {} /\ events = <<>> /\ attempt = "RUNNING"

-----------------------------------------------------------------------------
(* The agent, and what it writes inside the container.                     *)

\* The host's adapters stream: they leave no output for the main thread to emit.
AgentRuns ==
    /\ process \in {"running", "hosted"}
    /\ AgentStep \/ \E t \in Threads : EmitBegin(t)
    /\ process = "hosted" /\ phase = "logs" => holder' # "main"
    /\ UNCHANGED <<transportVars, readerVars, clientVars, attempt>>

Write(l) == Len(pipe) < PipeLines /\ pipe' = Append(pipe, l)

WriteEvent(t) ==
    /\ process = "running"
    /\ Emitted(t)
    /\ Write(pending)
    /\ UNCHANGED <<process, exitCode, closed, readerVars, clientVars, attempt>>

WriteResult ==
    /\ process = "running" /\ phase = "returned"
    /\ Write(ResultLine)
    /\ phase' = "exit"
    /\ UNCHANGED <<verdict, failed, streams, broken, beat, stop, seq, holder, pending,
                   process, exitCode, closed, readerVars, clientVars, attempt>>

\* The entrypoint returned 0; or it raised, was killed by its memory limit,
\* or the docker CLI failed.
ProcessExits ==
    /\ process = "running"
    /\ process' = "exited"
    /\ (phase = "exit" /\ exitCode' = 0) \/ exitCode' = 1
    /\ UNCHANGED <<agentVars, pipe, closed, readerVars, clientVars, attempt>>

-----------------------------------------------------------------------------
(* read_stdout, consume and persist_event.                                 *)

\* persist_event begins with the event's type.
Persisting(l) ==
    /\ line' = l
    /\ reader' = CASE l.type = "ARTIFACT" -> "collect"
                   [] l.type = "HEARTBEAT" -> "renew"
                   [] OTHER -> "append"

ReadLine ==
    /\ reader = "reading" /\ ~closed /\ pipe # <<>>
    /\ pipe' = Tail(pipe)
    /\ LET l == Head(pipe)
       IN  IF l = ResultLine
           THEN received' = verdict /\ UNCHANGED <<reader, line>>
           ELSE Persisting(l) /\ UNCHANGED received
    /\ UNCHANGED <<agentVars, process, exitCode, closed, sinkError, stored, rows,
                   events, clientVars, attempt>>

\* End of file; or ValueError, because the stream was closed meanwhile.
ReadEnds ==
    /\ reader = "reading"
    /\ closed \/ (pipe = <<>> /\ process \in {"exited", "killed"})
    /\ reader' = "ended"
    /\ UNCHANGED <<agentVars, transportVars, line, received, sinkError, stored, rows,
                   events, clientVars, attempt>>

\* Mutant: the row is written before the file is stored.
RecordThenStore ==
    /\ reader = "collect"
    /\ rows' = rows \cup {line.seq} /\ reader' = "record"
    /\ UNCHANGED <<agentVars, transportVars, line, received, sinkError, stored, events,
                   clientVars, attempt>>

\* ArtifactCollector.collect: the file first, then its row.
StoreArtifact ==
    /\ reader = "collect" /\ spool
    /\ stored' = stored \cup {line.seq} /\ reader' = "record"
    /\ UNCHANGED <<agentVars, transportVars, line, received, sinkError, rows, events,
                   clientVars, attempt>>

\* The artifact's row: create_artifact is idempotent in the artifact's identity.
InsertArtifact == rows' = rows \cup {line.seq}

RecordArtifact ==
    /\ reader = "record"
    /\ InsertArtifact /\ reader' = "append"
    /\ UNCHANGED <<agentVars, transportVars, line, received, sinkError, stored, events,
                   clientVars, attempt>>

RenewLease ==
    /\ reader = "renew" /\ attempt = "RUNNING"
    /\ reader' = "append"
    /\ UNCHANGED <<agentVars, transportVars, line, received, sinkError, stored, rows,
                   events, clientVars, attempt>>

\* The row's insert, which the unique key on attempt and seq may refuse.
InsertEvent ==
    /\ \A i \in DOMAIN events : events[i].seq # line.seq
    /\ events' = Append(events, line)

AppendEvent ==
    /\ reader = "append" /\ process # "hosted"
    /\ InsertEvent
    /\ reader' = "reading" /\ line' = NoLine
    /\ UNCHANGED <<agentVars, transportVars, received, sinkError, stored, rows,
                   clientVars, attempt>>

\* Any step of persist_event may raise; a heartbeat of an attempt that holds
\* no lease always does.  The reader stops reading.
PersistRaises ==
    /\ reader \in {"collect", "record", "append", "renew"} /\ process # "hosted"
    /\ sinkError' = TRUE /\ reader' = "ended" /\ line' = NoLine
    /\ UNCHANGED <<agentVars, transportVars, received, stored, rows, events,
                   clientVars, attempt>>

Persist == StoreArtifact \/ RecordArtifact \/ RenewLease
ReaderStep == ReadLine \/ ReadEnds \/ Persist \/ AppendEvent \/ PersistRaises

-----------------------------------------------------------------------------
(* On the host: the sink is called by the thread that holds the emit lock. *)

HostSink ==
    /\ process = "hosted" /\ holder # Nobody /\ reader = "reading"
    /\ Persisting(pending)
    /\ UNCHANGED <<agentVars, transportVars, received, sinkError, stored, rows, events,
                   clientVars, attempt>>

HostAppend ==
    /\ process = "hosted" /\ reader = "append"
    /\ InsertEvent
    /\ Emitted(holder)
    /\ reader' = "reading" /\ line' = NoLine
    /\ UNCHANGED <<transportVars, received, sinkError, stored, rows, clientVars, attempt>>

\* persist_event raises into the thread, for some errors after the row was
\* committed: the next event has the same number and meets the unique key.
HostRaises ==
    /\ process = "hosted" /\ reader \in {"collect", "record", "append", "renew"}
    /\ SinkRaises(holder)
    /\ UNCHANGED events \/ (reader = "append" /\ InsertEvent)
    /\ reader' = "reading" /\ line' = NoLine
    /\ UNCHANGED <<transportVars, received, sinkError, stored, rows, clientVars, attempt>>

-----------------------------------------------------------------------------
(* DockerExecutor.execute and SubprocessDockerClient.run.                  *)

Return(o, byContainer) ==
    /\ client' = "done" /\ outcome' = o /\ reported' = byContainer /\ spool' = FALSE

\* The deadline has passed before anything is started.
DeadlinePassed ==
    /\ client = "start"
    /\ Return("TIMED_OUT", FALSE)
    /\ UNCHANGED <<agentVars, transportVars, readerVars, timedOut, alive, attempt>>

\* validate_spec refuses the container's image, limits, labels or directories, the
\* docker CLI cannot be started or rejects the task on its stdin, or the host's
\* paths are refused: an error, before the agent has emitted anything.
StartRefused ==
    /\ client = "start"
    /\ Return("INFRA_ERROR", FALSE)
    /\ UNCHANGED <<agentVars, transportVars, readerVars, timedOut, alive, attempt>>

Launch ==
    /\ client = "start"
    /\ client' = "waiting" /\ spool' = TRUE /\ process' = "running"
    /\ UNCHANGED <<agentVars, exitCode, pipe, closed, readerVars, timedOut, alive,
                   outcome, reported, attempt>>

HostLaunch ==
    /\ client = "start"
    /\ client' = "hosted" /\ spool' = TRUE /\ process' = "hosted"
    /\ UNCHANGED <<agentVars, exitCode, pipe, closed, readerVars, timedOut, alive,
                   outcome, reported, attempt>>

\* Mutant: an error that left run() does not become INFRA_ERROR.
HostReturnsVerdict ==
    /\ client = "hosted" /\ phase \in {"returned", "raised"}
    /\ Return(IF verdict = "NONE" THEN "INFRA_ERROR" ELSE verdict, TRUE)
    /\ UNCHANGED <<agentVars, transportVars, readerVars, timedOut, alive, attempt>>

\* RunnerAgent.run returned or raised; threads it stopped waiting for go on.
HostReturns ==
    /\ client = "hosted" /\ phase \in {"returned", "raised"}
    /\ IF phase = "returned" THEN Return(verdict, TRUE) ELSE Return("INFRA_ERROR", FALSE)
    /\ UNCHANGED <<agentVars, transportVars, readerVars, timedOut, alive, attempt>>

ProcessEnded ==
    /\ client = "waiting" /\ process = "exited"
    /\ client' = "closing"
    /\ UNCHANGED <<agentVars, transportVars, readerVars, timedOut, alive, outcome,
                   reported, spool, attempt>>

\* Mutant: the process is killed at its deadline and then waited for again.
DeadlineWaitsAgain ==
    /\ client = "waiting" /\ process = "running"
    /\ process' = "killed" /\ timedOut' = TRUE
    /\ UNCHANGED <<agentVars, exitCode, pipe, closed, readerVars, client, alive,
                   outcome, reported, spool, attempt>>

Deadline ==
    /\ client = "waiting" /\ process = "running"
    /\ process' = "killed" /\ timedOut' = TRUE /\ client' = "closing"
    /\ UNCHANGED <<agentVars, exitCode, pipe, closed, readerVars, alive, outcome,
                   reported, spool, attempt>>

\* The finally block closes the stream before it joins the reader.
CloseStreams ==
    /\ client = "closing"
    /\ closed' = TRUE /\ client' = "joining"
    /\ UNCHANGED <<agentVars, process, exitCode, pipe, readerVars, timedOut, alive,
                   outcome, reported, spool, attempt>>

\* What run and execute make of a reader that has ended.
Conclude ==
    CASE sinkError -> Return("INFRA_ERROR", FALSE)
      [] timedOut /\ ~sinkError -> Return("TIMED_OUT", FALSE)
      [] ~timedOut /\ ~sinkError /\ (exitCode # 0 \/ received = "NONE") ->
            Return("INFRA_ERROR", FALSE)
      [] OTHER -> Return(received, TRUE)

Joined ==
    /\ client = "joining" /\ reader = "ended"
    /\ Conclude
    /\ UNCHANGED <<agentVars, transportVars, readerVars, timedOut, alive, attempt>>

\* Mutant: a reader that is still alive is not looked for.
JoinTimesOutUnseen ==
    /\ client = "joining" /\ reader # "ended"
    /\ Conclude
    /\ UNCHANGED <<agentVars, transportVars, readerVars, timedOut, alive, attempt>>

\* join(timeout=5) gave up on a reader that is still in persist_event.
JoinTimesOut ==
    /\ client = "joining" /\ reader # "ended"
    /\ alive' = TRUE
    /\ Return("INFRA_ERROR", FALSE)
    /\ UNCHANGED <<agentVars, transportVars, readerVars, timedOut, attempt>>

ClientStep == \/ DeadlinePassed \/ StartRefused \/ Launch \/ ProcessEnded \/ Deadline
              \/ CloseStreams \/ Joined \/ JoinTimesOut
              \/ HostLaunch \/ HostReturns

\* The steps the caller of HostExecutor.execute waits for.
HostStep ==
    \/ HostSink \/ HostAppend \/ HostRaises
    \/ process = "hosted" /\ Persist
    \/ process = "hosted" /\ AgentRuns /\ (MainStep \/ EmitBegin("main"))

-----------------------------------------------------------------------------
\* The manager completes the attempt unless it was lost.
CompleteAttempt ==
    /\ client = "done" /\ attempt = "RUNNING"
    /\ attempt' = outcome
    /\ UNCHANGED <<agentVars, transportVars, readerVars, clientVars>>

\* The reaper found the lease expired.
Lose ==
    /\ attempt = "RUNNING"
    /\ attempt' = "LOST"
    /\ UNCHANGED <<agentVars, transportVars, readerVars, clientVars>>

Next ==
    \/ AgentRuns \/ (\E t \in Threads : WriteEvent(t)) \/ WriteResult \/ ProcessExits
    \/ ReaderStep \/ HostSink \/ HostAppend \/ HostRaises
    \/ ClientStep \/ CompleteAttempt \/ Lose

Spec == Init /\ [][Next]_vars

\* The client's thread runs on, and its wait has a deadline.  Nothing is
\* assumed of the container, of the reader or of the reaper.  On the host the
\* adapter ends its child at the deadline, and calls of the database return or
\* raise; nothing is assumed of the child's output and of the heartbeat.
FairSpec == Spec /\ WF_vars(ClientStep) /\ WF_vars(HostStep)

-----------------------------------------------------------------------------
\* The events of an attempt are persisted in the order of their numbers and
\* without a gap, although four threads emit them, one may fail to persist and
\* on the host the next thread reuses the number of an event that failed.
EventsInOrder == \A i \in DOMAIN events : events[i].seq = i - 1

\* Every persisted artifact event has its row and every row its file.
ArtifactsAreBacked ==
    /\ \A i \in DOMAIN events : events[i].type = "ARTIFACT" => events[i].seq \in rows
    /\ rows \subseteq stored

\* If the executor reports the agent's verdict, the whole record is there:
\* FINISHED was persisted, and ERROR exactly when the verdict is not a success.
ReportedResultIsComplete ==
    reported =>
        LET types == {events[i].type : i \in DOMAIN events}
        IN  "FINISHED" \in types /\ ("ERROR" \in types <=> outcome # "SUCCEEDED")

\* Once the executor has reported the container's verdict no event of the
\* attempt is appended any more, neither by a slow reader nor by a heartbeat
\* written after the result.  The host executor does not promise this: a thread
\* whose join timed out may still be in persist_event.
NoEventAfterReport == [][reported /\ process # "hosted" => UNCHANGED events]_vars

\* The executor returns, even if the reader has failed, the pipe is full and
\* every thread of the agent waits for the emit lock.
ExecutorReturns == <>(client = "done")

\* What is persisted of an attempt is consistent at every moment, whatever the
\* reader, the sink, the store or the container failed at: events are numbered
\* without a gap, and an artifact event has its row and its file.
RecordIsConsistent == TypeOK /\ EventsInOrder /\ ArtifactsAreBacked
=============================================================================
