----------------------------- MODULE RunnerAgent -----------------------------
(***************************************************************************)
(* RunnerAgent.run of runner/agent.py, in the Runner container or on the   *)
(* API's host: the main thread emits the protocol's events in a fixed      *)
(* order, a heartbeat thread and the adapter's two output readers emit     *)
(* between them, and all of them number their events under one lock.       *)
(*                                                                         *)
(* _emit is two steps, so that threads can meet in it: EmitBegin takes the *)
(* lock and builds the event, Emitted is the sink returning and SinkRaises *)
(* the sink raising.  What the sink does is for the module that extends    *)
(* this one to say.                                                        *)
(***************************************************************************)
EXTENDS Naturals, Sequences, FiniteSets

CONSTANTS
    LogThreads,  \* the adapter's readers of its child's stdout and stderr
    Outcomes,    \* outcomes an adapter may report
    MaxOutput,   \* bound: no LOG, ARTIFACT or HEARTBEAT begins at or past this seq
    Nobody,      \* the emit lock is free
    NoEvent

ASSUME AgentAssumption ==
    /\ MaxOutput \in Nat
    /\ IsFiniteSet(LogThreads) /\ {"main", "beat"} \cap LogThreads = {}
    /\ Nobody \notin LogThreads \cup {"main", "beat"}
    /\ Outcomes \subseteq {"SUCCEEDED", "FAILED", "TIMED_OUT", "INFRA_ERROR"}

VARIABLES
    phase,    \* where run() is
    verdict,  \* result.outcome, once the adapter has returned
    failed,   \* an exception is leaving run()
    streams,  \* output readers of the adapter that still read and emit
    broken,   \* reader_errors is not empty: the sink raised in an output reader
    beat,     \* heartbeat thread: "off", "waiting", "due", "failed" or "ended"
    stop,     \* _heartbeat_stop
    seq,      \* _seq
    holder,   \* holder of _emit_lock
    pending   \* the event its holder has built

agentVars == <<phase, verdict, failed, streams, broken, beat, stop, seq, holder, pending>>

Threads == {"main", "beat"} \cup LogThreads
EventTypes == {"STARTED", "LOG", "ARTIFACT", "ASSERTION", "EXTRACTION", "ERROR",
               "FINISHED", "HEARTBEAT"}
Events == [type : EventTypes, seq : Nat]

\* What run() emits at each of its points, and where it goes then.
EmittedAt == [started |-> "STARTED", logs |-> "LOG", artifacts |-> "ARTIFACT",
              assertion |-> "ASSERTION", extraction |-> "EXTRACTION",
              error |-> "ERROR", finished |-> "FINISHED"]

After == [started |-> "adapter", logs |-> "logs", artifacts |-> "artifacts",
          assertion |-> "extraction", extraction |-> "error",
          error |-> "finished", finished |-> "stopping"]
Phases == DOMAIN After \cup {"adapter", "streaming", "stopping", "joining",
                             "returned", "raised", "exit"}

AgentTypeOK ==
    /\ phase \in Phases
    /\ verdict \in {"SUCCEEDED", "FAILED", "TIMED_OUT", "INFRA_ERROR", "NONE"}
    /\ {failed, broken, stop} \subseteq BOOLEAN
    /\ streams \subseteq LogThreads
    /\ beat \in {"off", "waiting", "due", "failed", "ended"}
    /\ seq \in Nat
    /\ holder \in Threads \cup {Nobody}
    /\ pending \in Events \cup {NoEvent}

AgentInit ==
    /\ phase = "started" /\ verdict = "NONE" /\ failed = FALSE
    /\ streams = {} /\ broken = FALSE /\ beat = "off" /\ stop = FALSE
    /\ seq = 0 /\ holder = Nobody /\ pending = NoEvent

-----------------------------------------------------------------------------
(* _emit.                                                                  *)

\* The event thread t is about to emit, if it is about to emit one.
Due(t, type) ==
    \/ /\ t = "main" /\ phase \in DOMAIN EmittedAt /\ type = EmittedAt[phase]
       /\ phase \in {"logs", "artifacts"} => seq < MaxOutput
       /\ phase = "error" => verdict # "SUCCEEDED"
    \/ t = "beat" /\ beat = "due" /\ type = "HEARTBEAT"
    \/ t \in streams /\ type = "LOG" /\ seq < MaxOutput

EmitBegin(t) ==
    /\ holder = Nobody /\ holder' = t
    /\ \E type \in EventTypes :
          Due(t, type) /\ pending' = [type |-> type, seq |-> seq]
    /\ UNCHANGED <<phase, verdict, failed, streams, broken, beat, stop, seq>>

\* The sink took the event: the next number, the lock free, and t goes on.
Emitted(t) ==
    /\ holder = t
    /\ seq' = seq + 1 /\ holder' = Nobody /\ pending' = NoEvent
    /\ phase' = IF t = "main" THEN After[phase] ELSE phase
    /\ beat' = IF t = "beat" \/ pending.type = "STARTED" THEN "waiting" ELSE beat
    /\ UNCHANGED <<verdict, failed, streams, broken, stop>>

\* The sink raised: the number is not used up.  In the main thread the error
\* leaves run(), in the heartbeat thread it is kept for run() to raise, and an
\* output reader goes on reading but emits no more.
SinkRaises(t) ==
    /\ holder = t
    /\ holder' = Nobody /\ pending' = NoEvent
    /\ phase' = IF t # "main" THEN phase ELSE IF phase = "started" THEN "raised" ELSE "stopping"
    /\ failed' = (failed \/ t = "main")
    /\ beat' = IF t = "beat" THEN "failed" ELSE beat
    /\ stop' = (stop \/ t = "beat")
    /\ streams' = streams \ {t} /\ broken' = (broken \/ t \in streams)
    /\ UNCHANGED <<verdict, seq>>

-----------------------------------------------------------------------------
(* The adapter: a streaming one reads its child's output in two threads,   *)
(* any other returns its output with its result.                           *)

StartStreaming ==
    /\ phase = "adapter"
    /\ phase' = "streaming" /\ streams' = LogThreads
    /\ UNCHANGED <<verdict, failed, broken, beat, stop, seq, holder, pending>>

StreamEnds(t) ==
    /\ t \in streams /\ holder # t
    /\ streams' = streams \ {t}
    /\ UNCHANGED <<phase, verdict, failed, broken, beat, stop, seq, holder, pending>>

\* The adapter returns, or raises, which is INFRA_ERROR; a reader that does
\* not end within its join makes it INFRA_ERROR too, and lives on.  An error of
\* a reader is raised unless the child was timed out.
AdapterReturns(outcome) ==
    /\ \/ phase = "adapter" /\ phase' = "logs"
       \/ /\ phase = "streaming" /\ phase' = "artifacts"
          /\ streams = {} \/ outcome = "INFRA_ERROR"
          /\ broken => outcome \in {"INFRA_ERROR", "TIMED_OUT"}
    /\ verdict' = outcome
    /\ UNCHANGED <<failed, streams, broken, beat, stop, seq, holder, pending>>

\* The output, the artifacts, the extraction and the error have been dealt
\* with or there are none.
Skip ==
    /\ holder # "main"
    /\ \/ phase = "logs" /\ phase' = "artifacts"
       \/ phase = "artifacts" /\ phase' = "assertion"
       \/ phase = "extraction" /\ phase' = After["extraction"]
       \/ phase = "error" /\ verdict = "SUCCEEDED" /\ phase' = "finished"
    /\ UNCHANGED <<verdict, failed, streams, broken, beat, stop, seq, holder, pending>>

\* Too many artifacts, or too large ones.
ArtifactsRejected ==
    /\ phase = "artifacts" /\ holder # "main"
    /\ phase' = "stopping" /\ failed' = TRUE
    /\ UNCHANGED <<verdict, streams, broken, beat, stop, seq, holder, pending>>

-----------------------------------------------------------------------------
(* The heartbeat thread and its end.                                       *)

BeatDue ==
    /\ beat = "waiting" /\ ~stop /\ seq < MaxOutput
    /\ beat' = "due"
    /\ UNCHANGED <<phase, verdict, failed, streams, broken, stop, seq, holder, pending>>

BeatEnds ==
    /\ beat = "waiting" /\ stop
    /\ beat' = "ended"
    /\ UNCHANGED <<phase, verdict, failed, streams, broken, stop, seq, holder, pending>>

StopBeat ==
    /\ phase = "stopping"
    /\ stop' = TRUE /\ phase' = "joining"
    /\ UNCHANGED <<verdict, failed, streams, broken, beat, seq, holder, pending>>

\* join(timeout): the heartbeat thread has ended, or is waited for no longer.
JoinBeat ==
    /\ phase = "joining"
    /\ phase' = IF failed \/ beat = "failed" THEN "raised" ELSE "returned"
    /\ UNCHANGED <<verdict, failed, streams, broken, beat, stop, seq, holder, pending>>

\* The steps of the thread that called run, apart from _emit.
MainStep ==
    \/ StartStreaming \/ \E o \in Outcomes : AdapterReturns(o)
    \/ Skip \/ ArtifactsRejected \/ StopBeat \/ JoinBeat

\* Every step that is neither _emit nor the writing of the result.
AgentStep ==
    \/ MainStep \/ \E t \in LogThreads : StreamEnds(t)
    \/ BeatDue \/ BeatEnds
=============================================================================
