------------------------- MODULE EventPipelineProofs -------------------------
(***************************************************************************)
(* What is persisted of an attempt: for any number of output readers, any  *)
(* pipe and any bound on the output, the events are numbered without a gap *)
(* and backed by their artifacts, a verdict that is reported comes with    *)
(* the whole record, and nothing is appended after the container's.        *)
(***************************************************************************)
EXTENDS EventPipeline, TLAPS

-----------------------------------------------------------------------------
(* The invariant.                                                          *)

Types(s) == {s[i].type : i \in DOMAIN s}

\* The types T make a whole record of an attempt that ended with verdict v.
Complete(T, v) == "FINISHED" \in T /\ ("ERROR" \in T <=> v # "SUCCEEDED")

Working == {"started", "adapter", "streaming", "logs", "artifacts", "assertion",
            "extraction", "error"}

\* What run() has emitted, T, at phase ph with verdict v and, if fl, an error
\* that is leaving it.
Progress(ph, v, fl, T) ==
    /\ ph \in Working => "ERROR" \notin T
    /\ ph = "finished" => ("ERROR" \in T <=> v # "SUCCEEDED")
    /\ ph \in {"stopping", "joining", "returned"} /\ ~fl => Complete(T, v)

\* The event of the lock's holder is the one its thread is due to emit.
AgentInv ==
    /\ holder # Nobody => pending \in Events /\ pending.seq = seq
    /\ holder = "main" => phase \in DOMAIN EmittedAt /\ pending.type = EmittedAt[phase]
    /\ holder = "main" /\ phase = "error" => verdict # "SUCCEEDED"
    /\ holder \notin {Nobody, "main"} => pending.type \in {"HEARTBEAT", "LOG"}
    /\ phase \in {"returned", "exit"} => ~failed
    /\ phase \notin {"started", "adapter", "streaming", "raised"} => failed \/ verdict # "NONE"

\* persist_event is at work on a line, and has stored what it has passed.
ReaderInv ==
    /\ reader \in {"reading", "ended"} <=> line = NoLine
    /\ reader \in {"collect", "record"} => line.type = "ARTIFACT"
    /\ reader = "renew" => line.type = "HEARTBEAT"
    /\ reader = "record" => line.seq \in stored
    /\ reader = "append" /\ line.type = "ARTIFACT" => line.seq \in rows

\* Before a start nothing has happened, and on the host there is no pipe.
ModeInv ==
    /\ process = "hosted" =>
          /\ pipe = <<>> /\ ~closed /\ received = "NONE" /\ reader # "ended"
          /\ client \in {"hosted", "done"} /\ phase # "exit"
          /\ line # NoLine => holder # Nobody /\ line = pending
    /\ process = "none" =>
          /\ client \in {"start", "done"} /\ pipe = <<>> /\ ~closed /\ received = "NONE"
          /\ reader = "reading" /\ events = <<>> /\ seq = 0 /\ phase = "started" /\ ~reported
    /\ client = "start" => process = "none"
    /\ client = "hosted" => process = "hosted"

\* What the executor has returned.
OutcomeInv ==
    /\ client # "done" => ~reported
    /\ client = "done" => outcome \in Final
    /\ reported /\ process # "hosted" =>
          reader = "ended" /\ received # "NONE" /\ outcome = received
    /\ reported /\ process = "hosted" => phase = "returned" /\ outcome = verdict

\* Lines p of a pipe hold the events numbered from b up to n, and the result at r
\* unless r is past the end.
PipeOK(p, b, n, r) ==
    /\ r \in 1..(Len(p) + 1)
    /\ r <= Len(p) => p[r] = ResultLine
    /\ \A i \in 1..Len(p) :
          i # r => p[i] \in Events /\ p[i].seq = b + i - (IF i < r THEN 1 ELSE 2)
    /\ n = b + Len(p) - (IF r <= Len(p) THEN 1 ELSE 0)

TypesBefore(p, r) == {p[i].type : i \in 1..(r - 1)}

\* Events persisted, or being persisted: how many, and of which types.
Base == Len(events) + (IF line = NoLine THEN 0 ELSE 1)
Seen == Types(events) \cup (IF line = NoLine THEN {} ELSE {line.type})

\* What lies before the result line is the whole record, and no error after it.
ResultAt(r) ==
    r <= Len(pipe) =>
        /\ phase = "exit"
        /\ Complete(Seen \cup TypesBefore(pipe, r), verdict)
        /\ \A i \in 1..Len(pipe) : i > r => pipe[i].type # "ERROR"

Emission ==
    phase # "exit" =>
        Progress(phase, verdict, failed, Seen \cup TypesBefore(pipe, Len(pipe) + 1))

\* Between the container and a reader that still reads nothing is lost.
PipeInv ==
    process # "hosted" /\ reader # "ended" =>
        /\ line # NoLine => line.seq = Len(events)
        /\ Emission
        /\ \E r \in 1..(Len(pipe) + 1) : PipeOK(pipe, Base, seq, r) /\ ResultAt(r)

\* Once the result has been read the record is whole and stays so.
ReceivedInv ==
    received # "NONE" =>
        /\ phase = "exit" /\ Complete(Types(events), received)
        /\ reader # "ended" => /\ line # NoLine => line.type # "ERROR"
                               /\ \A i \in 1..Len(pipe) : pipe[i].type # "ERROR"

\* On the host the number of an event that failed after its row was committed
\* is used once more, and refused.
HostInv ==
    process = "hosted" =>
        /\ seq <= Len(events) /\ Len(events) <= seq + 1
        /\ Progress(phase, verdict, failed, Types(events))

PipelineInv ==
    /\ TypeOK /\ AgentInv /\ ReaderInv /\ ModeInv /\ OutcomeInv
    /\ PipeInv /\ ReceivedInv /\ HostInv /\ EventsInOrder /\ ArtifactsAreBacked

-----------------------------------------------------------------------------
(* Lines of the pipe.                                                      *)

LEMMA ResultIsNoEvent == ResultLine \notin Events
BY DEF ResultLine, Events, EventTypes

Lines == Events \cup {ResultLine}

LEMMA EventWritten ==
    ASSUME NEW p \in Seq(Lines), NEW b \in Nat, NEW n \in Nat, NEW r \in Nat,
           PipeOK(p, b, n, r), NEW e \in Events, e.seq = n
    PROVE  PipeOK(Append(p, e), b, n + 1, IF r <= Len(p) THEN r ELSE r + 1)
<1> DEFINE q == Append(p, e)  m == IF r <= Len(p) THEN r ELSE r + 1
<1>1. Len(p) \in Nat /\ Len(q) = Len(p) + 1 /\ q[Len(p) + 1] = e /\ \A i \in 1..Len(p) : q[i] = p[i]
  BY DEF Lines
<1>2. r \in 1..(Len(p) + 1)
  BY DEF PipeOK
<1> HIDE DEF q
<1>3. m \in 1..(Len(q) + 1) /\ (m <= Len(q) => m = r /\ r <= Len(p))
  BY <1>1, <1>2
<1>4. m <= Len(q) => q[m] = ResultLine
  BY <1>1, <1>2, <1>3 DEF PipeOK
<1>5. ASSUME NEW i \in 1..Len(q), i # m
      PROVE  q[i] \in Events /\ q[i].seq = b + i - (IF i < m THEN 1 ELSE 2)
  <2>1. CASE i = Len(p) + 1
    <3>1. q[i] = e
      BY <1>1, <2>1
    <3>2. n = b + i - (IF i < m THEN 1 ELSE 2)
      BY <1>1, <1>2, <2>1 DEF PipeOK
    <3> QED BY <3>1, <3>2
  <2>2. CASE i # Len(p) + 1
    <3>1. i \in 1..Len(p) /\ i # r /\ q[i] = p[i] /\ (i < m <=> i < r)
      BY <1>1, <1>2, <1>5, <2>2
    <3> QED BY <3>1 DEF PipeOK
  <2> QED BY <2>1, <2>2
<1>6. n + 1 = b + Len(q) - (IF m <= Len(q) THEN 1 ELSE 0)
  <2>1. n = b + Len(p) - (IF r <= Len(p) THEN 1 ELSE 0)
    BY DEF PipeOK
  <2> QED BY <1>1, <1>2, <2>1
<1>7. PipeOK(q, b, n + 1, m)
  BY <1>3, <1>4, <1>5, <1>6 DEF PipeOK
<1> QED BY <1>7 DEF q

LEMMA ResultWritten ==
    ASSUME NEW p \in Seq(Lines), NEW b \in Nat, NEW n \in Nat, PipeOK(p, b, n, Len(p) + 1)
    PROVE  PipeOK(Append(p, ResultLine), b, n, Len(p) + 1)
<1> DEFINE q == Append(p, ResultLine)  m == Len(p) + 1
<1>1. Len(p) \in Nat /\ Len(q) = Len(p) + 1 /\ q[Len(p) + 1] = ResultLine /\ \A i \in 1..Len(p) : q[i] = p[i]
  BY DEF Lines
<1> HIDE DEF q
<1>2. ASSUME NEW i \in 1..Len(q), i # m
      PROVE  q[i] \in Events /\ q[i].seq = b + i - (IF i < m THEN 1 ELSE 2)
  <2>1. i \in 1..Len(p) /\ q[i] = p[i]
    BY <1>1, <1>2
  <2> QED BY <2>1 DEF PipeOK
<1>3. n = b + Len(q) - (IF m <= Len(q) THEN 1 ELSE 0)
  BY <1>1 DEF PipeOK
<1>4. m \in 1..(Len(q) + 1) /\ q[m] = ResultLine
  BY <1>1
<1>5. PipeOK(q, b, n, m)
  BY <1>2, <1>3, <1>4 DEF PipeOK
<1> QED BY <1>5 DEF q

LEMMA Tails ==
    ASSUME NEW p \in Seq(Lines), p # <<>>
    PROVE  /\ Tail(p) \in Seq(Lines) /\ Len(Tail(p)) = Len(p) - 1 /\ Len(p) >= 1
           /\ Head(p) = p[1] /\ Head(p) \in Lines
           /\ \A i \in 1..(Len(p) - 1) : Tail(p)[i] = p[i + 1]
OBVIOUS

LEMMA EventRead ==
    ASSUME NEW p \in Seq(Lines), p # <<>>, Head(p) # ResultLine,
           NEW b \in Nat, NEW n \in Nat, NEW r \in Nat, PipeOK(p, b, n, r)
    PROVE  r > 1 /\ Head(p) \in Events /\ Head(p).seq = b /\ PipeOK(Tail(p), b + 1, n, r - 1)
<1>1. r > 1 /\ Head(p) \in Events /\ Head(p).seq = b
  BY Tails DEF PipeOK
<1> DEFINE q == Tail(p)
<1>2. /\ Len(q) = Len(p) - 1 /\ Len(p) >= 1 /\ Len(p) \in Nat
      /\ \A i \in 1..(Len(p) - 1) : q[i] = p[i + 1]
  BY Tails
<1> HIDE DEF q
<1>3. PipeOK(q, b + 1, n, r - 1)
  BY <1>1, <1>2 DEF PipeOK
<1> QED BY <1>1, <1>3 DEF q

LEMMA ResultRead ==
    ASSUME NEW p \in Seq(Lines), p # <<>>, Head(p) = ResultLine,
           NEW b \in Nat, NEW n \in Nat, NEW r \in Nat, PipeOK(p, b, n, r)
    PROVE  r = 1 /\ PipeOK(Tail(p), b, n, Len(Tail(p)) + 1)
<1>1. r = 1
  BY Tails, ResultIsNoEvent DEF PipeOK
<1> DEFINE q == Tail(p)
<1>2. /\ Len(q) = Len(p) - 1 /\ Len(p) >= 1 /\ Len(p) \in Nat
      /\ \A i \in 1..(Len(p) - 1) : q[i] = p[i + 1]
  BY Tails
<1> HIDE DEF q
<1> DEFINE m == Len(q) + 1
<1>3. ASSUME NEW i \in 1..Len(q)
      PROVE  q[i] \in Events /\ q[i].seq = b + i - (IF i < m THEN 1 ELSE 2)
  <2>1. i + 1 \in 1..Len(p) /\ i + 1 # r /\ ~(i + 1 < r) /\ q[i] = p[i + 1]
    BY <1>1, <1>2
  <2>2. p[i + 1] \in Events /\ p[i + 1].seq = b + (i + 1) - 2
    BY <2>1 DEF PipeOK
  <2> QED BY <1>2, <2>1, <2>2
<1>4. n = b + Len(q) - (IF m <= Len(q) THEN 1 ELSE 0)
  <2>1. n = b + Len(p) - (IF r <= Len(p) THEN 1 ELSE 0)
    BY DEF PipeOK
  <2>2. n = b + Len(p) - 1
    BY <1>1, <1>2, <2>1
  <2>3. n = b + Len(q) /\ b + Len(q) = b + Len(q) - 0 /\ ~(m <= Len(q))
    BY <1>2, <2>2
  <2> QED BY <2>3
<1>5. m \in 1..(Len(q) + 1) /\ ~(m <= Len(q))
  BY <1>2
<1>6. PipeOK(q, b, n, m)
  BY <1>3, <1>4, <1>5 DEF PipeOK
<1> QED BY <1>1, <1>6 DEF q

LEMMA TypesAppend ==
    ASSUME NEW s \in Seq(Events), NEW e \in Events
    PROVE  Types(Append(s, e)) = Types(s) \cup {e.type}
<1> DEFINE q == Append(s, e)
<1>1. /\ DOMAIN q = 1..(Len(s) + 1) /\ DOMAIN s = 1..Len(s) /\ Len(s) \in Nat
      /\ q[Len(s) + 1] = e /\ \A i \in 1..Len(s) : q[i] = s[i]
  OBVIOUS
<1> HIDE DEF q
<1>2. Types(q) = Types(s) \cup {e.type}
  BY <1>1 DEF Types
<1> QED BY <1>2 DEF q

LEMMA TypesBeforeAppend ==
    ASSUME NEW p \in Seq(Lines), NEW l \in Lines, NEW r \in 1..(Len(p) + 1)
    PROVE  /\ TypesBefore(Append(p, l), r) = TypesBefore(p, r)
           /\ TypesBefore(Append(p, l), Len(p) + 2) = TypesBefore(p, Len(p) + 1) \cup {l.type}
<1> DEFINE q == Append(p, l)
<1>1. Len(p) \in Nat /\ q[Len(p) + 1] = l /\ \A i \in 1..Len(p) : q[i] = p[i]
  OBVIOUS
<1> HIDE DEF q
<1>2. TypesBefore(q, r) = TypesBefore(p, r)
  BY <1>1 DEF TypesBefore
<1>3. TypesBefore(q, Len(p) + 2) = TypesBefore(p, Len(p) + 1) \cup {l.type}
  BY <1>1 DEF TypesBefore
<1> QED BY <1>2, <1>3 DEF q

LEMMA TypesBeforeTail ==
    ASSUME NEW p \in Seq(Lines), p # <<>>, NEW r \in 2..(Len(p) + 1)
    PROVE  TypesBefore(p, r) = {Head(p).type} \cup TypesBefore(Tail(p), r - 1)
<1> DEFINE q == Tail(p)  h == Head(p)
<1>2. /\ Len(p) >= 1 /\ Len(p) \in Nat /\ h = p[1]
      /\ \A i \in 1..(Len(p) - 1) : q[i] = p[i + 1]
  BY Tails
<1> HIDE DEF q, h
<1>3. ASSUME NEW t PROVE t \in TypesBefore(p, r) => t \in {h.type} \cup TypesBefore(q, r - 1)
  <2> SUFFICES ASSUME t \in TypesBefore(p, r) PROVE t \in {h.type} \cup TypesBefore(q, r - 1)
    OBVIOUS
  <2>1. PICK i \in 1..(r - 1) : t = p[i].type
    BY DEF TypesBefore
  <2>2. CASE i = 1
    BY <1>2, <2>1, <2>2
  <2>3. CASE i > 1
    <3>1. i - 1 \in 1..(r - 1 - 1) /\ q[i - 1] = p[i]
      BY <1>2, <2>1, <2>3
    <3> QED BY <2>1, <3>1 DEF TypesBefore
  <2> QED BY <2>1, <2>2, <2>3
<1>4. ASSUME NEW t PROVE t \in {h.type} \cup TypesBefore(q, r - 1) => t \in TypesBefore(p, r)
  <2>1. h.type \in TypesBefore(p, r)
    BY <1>2 DEF TypesBefore
  <2>2. ASSUME t \in TypesBefore(q, r - 1) PROVE t \in TypesBefore(p, r)
    <3>1. PICK i \in 1..(r - 1 - 1) : t = q[i].type
      BY <2>2 DEF TypesBefore
    <3>2. i + 1 \in 1..(r - 1) /\ p[i + 1] = q[i]
      BY <1>2, <3>1
    <3> QED BY <3>1, <3>2 DEF TypesBefore
  <2> QED BY <2>1, <2>2
<1>5. TypesBefore(p, r) = {h.type} \cup TypesBefore(q, r - 1)
  BY <1>3, <1>4
<1> QED BY <1>5 DEF q, h

-----------------------------------------------------------------------------
(* The agent.                                                              *)

\* The agent's steps other than taking the lock leave the lock and the number.
LEMMA AgentStepKeeps ==
    ASSUME AgentTypeOK, AgentInv, AgentStep
    PROVE  AgentTypeOK' /\ AgentInv' /\ UNCHANGED <<seq, holder, pending>>
<1>1. CASE StartStreaming
  BY <1>1 DEF StartStreaming, AgentTypeOK, AgentInv, Phases, EmittedAt, After
<1>2. ASSUME NEW o \in Outcomes, AdapterReturns(o) PROVE AgentTypeOK' /\ AgentInv' /\ UNCHANGED <<seq, holder, pending>>
  BY <1>2, AgentAssumption DEF AdapterReturns, AgentTypeOK, AgentInv, Phases, EmittedAt, After
<1>3. CASE Skip
  BY <1>3 DEF Skip, AgentTypeOK, AgentInv, Phases, EmittedAt, After
<1>4. CASE ArtifactsRejected
  BY <1>4 DEF ArtifactsRejected, AgentTypeOK, AgentInv, Phases, EmittedAt, After
<1>5. CASE StopBeat
  BY <1>5 DEF StopBeat, AgentTypeOK, AgentInv, Phases, EmittedAt, After
<1>6. CASE JoinBeat
  BY <1>6 DEF JoinBeat, AgentTypeOK, AgentInv, Phases, EmittedAt, After
<1>7. ASSUME NEW t \in LogThreads, StreamEnds(t) PROVE AgentTypeOK' /\ AgentInv' /\ UNCHANGED <<seq, holder, pending>>
  BY <1>7 DEF StreamEnds, AgentTypeOK, AgentInv
<1>8. CASE BeatDue
  BY <1>8 DEF BeatDue, AgentTypeOK, AgentInv
<1>9. CASE BeatEnds
  BY <1>9 DEF BeatEnds, AgentTypeOK, AgentInv
<1> QED BY <1>1, <1>2, <1>3, <1>4, <1>5, <1>6, <1>7, <1>8, <1>9 DEF AgentStep, MainStep

\* They keep what the phase says of the events emitted so far.
LEMMA AgentStepProgress ==
    ASSUME AgentTypeOK, AgentInv, AgentStep, NEW T, Progress(phase, verdict, failed, T)
    PROVE  Progress(phase', verdict', failed', T)
<1>1. CASE StartStreaming
  BY <1>1 DEF StartStreaming, Progress, Working
<1>2. ASSUME NEW o \in Outcomes, AdapterReturns(o) PROVE Progress(phase', verdict', failed', T)
  BY <1>2 DEF AdapterReturns, Progress, Working
<1>3. CASE Skip
  BY <1>3 DEF Skip, Progress, Working, After
<1>4. CASE ArtifactsRejected
  BY <1>4 DEF ArtifactsRejected, Progress, Working
<1>5. CASE StopBeat
  BY <1>5 DEF StopBeat, Progress, Working
<1>6. CASE JoinBeat
  BY <1>6 DEF JoinBeat, Progress, Working
<1>7. ASSUME NEW t \in LogThreads, StreamEnds(t) PROVE Progress(phase', verdict', failed', T)
  BY <1>7 DEF StreamEnds
<1>8. CASE BeatDue \/ BeatEnds
  BY <1>8 DEF BeatDue, BeatEnds
<1> QED BY <1>1, <1>2, <1>3, <1>4, <1>5, <1>6, <1>7, <1>8 DEF AgentStep, MainStep

LEMMA EmitBeginKeeps ==
    ASSUME AgentTypeOK, AgentInv, NEW t \in Threads, EmitBegin(t)
    PROVE  AgentTypeOK' /\ AgentInv'
<1>1. PICK type \in EventTypes : Due(t, type) /\ pending' = [type |-> type, seq |-> seq]
  BY DEF EmitBegin
<1>2. pending' \in Events /\ pending'.seq = seq /\ pending'.type = type
  BY <1>1 DEF Events, AgentTypeOK
<1>3. AgentTypeOK'
  BY <1>2 DEF EmitBegin, AgentTypeOK, Threads
<1>4. t # "main" => type \in {"HEARTBEAT", "LOG"}
  BY <1>1 DEF Due
<1>5. t = "main" => /\ phase \in DOMAIN EmittedAt /\ type = EmittedAt[phase]
                    /\ phase = "error" => verdict # "SUCCEEDED"
  BY <1>1, AgentAssumption DEF Due, AgentTypeOK
<1>6. AgentInv'
  BY <1>2, <1>4, <1>5 DEF EmitBegin, AgentInv
<1> QED BY <1>3, <1>6

LEMMA EmittedKeeps ==
    ASSUME AgentTypeOK, AgentInv, NEW t \in Threads, Emitted(t)
    PROVE  AgentTypeOK' /\ AgentInv' /\ pending \in Events /\ pending.seq = seq
<1>1. t # Nobody /\ pending \in Events /\ pending.seq = seq
  BY AgentAssumption DEF Emitted, AgentInv, Threads
<1>2. \/ /\ phase' \in Phases /\ phase' \notin {"returned", "exit"}
         /\ phase' = "adapter" \/ phase \notin {"started", "adapter", "streaming", "raised"}
      \/ phase' = phase
  BY DEF Emitted, AgentInv, EmittedAt, After, Phases
<1>3. AgentTypeOK'
  BY <1>2 DEF Emitted, AgentTypeOK
<1>4. Nobody # "main"
  BY AgentAssumption
<1>5. AgentInv'
  BY <1>2, <1>4 DEF Emitted, AgentInv
<1> QED BY <1>1, <1>3, <1>5

\* An event that was emitted takes run() on to what comes after it.
LEMMA EmittedProgress ==
    ASSUME AgentTypeOK, AgentInv, NEW t \in Threads, Emitted(t),
           NEW T, Progress(phase, verdict, failed, T)
    PROVE  phase # "exit" => Progress(phase', verdict', failed', T \cup {pending.type})
<1>1. CASE t = "main"
  BY <1>1 DEF Emitted, AgentInv, Progress, Complete, Working, EmittedAt, After
<1>2. CASE t # "main"
  <2>1. pending.type \in {"HEARTBEAT", "LOG"}
    BY <1>2, AgentAssumption DEF Emitted, AgentInv, Threads
  <2> QED BY <1>2, <2>1 DEF Emitted, Progress, Complete
<1> QED BY <1>1, <1>2

LEMMA SinkRaisesKeeps ==
    ASSUME AgentTypeOK, AgentInv, NEW t \in Threads, SinkRaises(t)
    PROVE  AgentTypeOK' /\ AgentInv'
<1>1. \/ phase' \in Phases /\ phase' \notin {"returned", "exit"}
      \/ phase' = phase /\ (failed' => failed)
  BY DEF SinkRaises, Phases, AgentTypeOK
<1>2. AgentTypeOK'
  BY <1>1 DEF SinkRaises, AgentTypeOK
<1>3. AgentInv'
  BY <1>1, AgentAssumption DEF SinkRaises, AgentInv
<1> QED BY <1>2, <1>3

\* Whether or not the row was committed before the sink raised.
LEMMA SinkRaisesProgress ==
    ASSUME AgentTypeOK, AgentInv, NEW t \in Threads, SinkRaises(t),
           NEW T, Progress(phase, verdict, failed, T)
    PROVE  /\ Progress(phase', verdict', failed', T)
           /\ Progress(phase', verdict', failed', T \cup {pending.type})
<1>1. CASE t = "main"
  BY <1>1 DEF SinkRaises, AgentInv, Progress, Complete, Working, EmittedAt
<1>2. CASE t # "main"
  <2>1. pending.type \in {"HEARTBEAT", "LOG"}
    BY <1>2, AgentAssumption DEF SinkRaises, AgentInv, Threads
  <2> QED BY <1>2, <2>1 DEF SinkRaises, Progress, Complete, AgentTypeOK
<1> QED BY <1>1, <1>2

-----------------------------------------------------------------------------
(* The steps, one by one.                                                  *)

Rest == <<transportVars, readerVars, clientVars, attempt>>

LEMMA StepCases ==
    ASSUME Next
    PROVE  \/ process \in {"running", "hosted"} /\ AgentStep /\ UNCHANGED Rest
           \/ \E t \in Threads : process \in {"running", "hosted"} /\ EmitBegin(t) /\ UNCHANGED Rest
           \/ \E t \in Threads : WriteEvent(t)
           \/ WriteResult \/ ProcessExits
           \/ ReadLine \/ ReadEnds \/ StoreArtifact \/ RecordArtifact \/ RenewLease
           \/ AppendEvent \/ PersistRaises
           \/ HostSink \/ HostAppend \/ HostRaises
           \/ DeadlinePassed \/ StartRefused \/ Launch \/ HostLaunch \/ HostReturns
           \/ ProcessEnded \/ Deadline \/ CloseStreams \/ Joined \/ JoinTimesOut
           \/ CompleteAttempt \/ Lose
BY DEF Next, AgentRuns, ReaderStep, Persist, ClientStep, Rest

\* On the host the thread whose event is persisted holds the lock.
LEMMA HostHolder ==
    ASSUME TypeOK, ReaderInv, ModeInv, AgentInv, process = "hosted",
           reader \in {"collect", "record", "append", "renew"}
    PROVE  holder \in Threads /\ line = pending /\ line \in Events /\ line.seq = seq
<1>1. line # NoLine
  BY DEF ReaderInv
<1> QED BY <1>1 DEF ModeInv, AgentInv, TypeOK, AgentTypeOK

LEMMA LineIsEvent ==
    ASSUME TypeOK, ReaderInv, reader \in {"collect", "record", "append", "renew"}
    PROVE  line \in Events /\ line # NoLine /\ line.seq \in Nat /\ line.type \in EventTypes
<1>1. line # NoLine
  BY DEF ReaderInv
<1>2. line \in Events
  BY <1>1 DEF TypeOK
<1> QED BY <1>1, <1>2 DEF Events

TransportType ==
    /\ process \in {"none", "running", "exited", "killed", "hosted"} /\ exitCode \in 0..1
    /\ pipe \in Seq(Lines) /\ Len(pipe) <= PipeLines /\ closed \in BOOLEAN
ReaderType ==
    /\ reader \in {"reading", "collect", "record", "renew", "append", "ended"}
    /\ line \in Events \cup {NoLine} /\ received \in Final \cup {"NONE"} /\ sinkError \in BOOLEAN
    /\ events \in Seq(Events) /\ rows \subseteq Nat /\ stored \subseteq Nat
ClientType ==
    /\ client \in {"start", "waiting", "hosted", "closing", "joining", "done"}
    /\ timedOut \in BOOLEAN /\ alive \in BOOLEAN /\ outcome \in Final \cup {"NONE"}
    /\ reported \in BOOLEAN /\ spool \in BOOLEAN
AttemptType == attempt \in Final \cup {"RUNNING", "LOST"}

LEMMA TypeParts ==
    TypeOK <=> AgentTypeOK /\ TransportType /\ ReaderType /\ ClientType /\ AttemptType
BY DEF TypeOK, TransportType, ReaderType, ClientType, AttemptType, Lines

\* What a group of variables left alone keeps.
LEMMA SameTypes ==
    /\ AgentTypeOK /\ UNCHANGED agentVars => AgentTypeOK'
    /\ TransportType /\ UNCHANGED transportVars => TransportType'
    /\ ReaderType /\ UNCHANGED readerVars => ReaderType'
    /\ ClientType /\ UNCHANGED clientVars => ClientType'
    /\ AttemptType /\ UNCHANGED attempt => AttemptType'
<1>1. AgentTypeOK /\ UNCHANGED agentVars => AgentTypeOK'
  BY DEF AgentTypeOK, agentVars
<1>2. TransportType /\ UNCHANGED transportVars => TransportType'
  BY DEF TransportType, transportVars
<1>3. ReaderType /\ UNCHANGED readerVars => ReaderType'
  BY DEF ReaderType, readerVars
<1>4. ClientType /\ UNCHANGED clientVars => ClientType'
  BY DEF ClientType, clientVars
<1>5. AttemptType /\ UNCHANGED attempt => AttemptType'
  BY DEF AttemptType
<1> QED BY <1>1, <1>2, <1>3, <1>4, <1>5

LEMMA ReturnType ==
    ASSUME ClientType, NEW o \in Final, NEW b \in BOOLEAN, Return(o, b),
           timedOut' = timedOut, alive' \in BOOLEAN
    PROVE  ClientType'
BY DEF ClientType, Return

LEMMA WriteType ==
    ASSUME TransportType, NEW l \in Lines, Write(l), UNCHANGED <<process, exitCode, closed>>
    PROVE  TransportType'
<1>1. pipe \in Seq(Lines) /\ Len(pipe) < PipeLines /\ PipeLines \in Nat
  BY PipelineAssumption DEF TransportType, Write
<1>2. Append(pipe, l) \in Seq(Lines) /\ Len(Append(pipe, l)) = Len(pipe) + 1 /\ Len(pipe) \in Nat
  BY <1>1
<1>3. pipe' \in Seq(Lines) /\ Len(pipe') <= PipeLines
  BY <1>1, <1>2 DEF Write
<1> QED BY <1>3 DEF TransportType

LEMMA TypeStep ==
    ASSUME TypeOK, ReaderInv, ModeInv, AgentInv, OutcomeInv, Next PROVE TypeOK'
<1> DEFINE Goal == AgentTypeOK' /\ TransportType' /\ ReaderType' /\ ClientType' /\ AttemptType'
<1>0. AgentTypeOK /\ TransportType /\ ReaderType /\ ClientType /\ AttemptType
  BY TypeParts
<1> SUFFICES Goal
  <2>1. (AgentTypeOK /\ TransportType /\ ReaderType /\ ClientType /\ AttemptType => TypeOK)'
    BY TypeParts, PTL
  <2> QED BY <2>1
<1>1. CASE AgentStep /\ UNCHANGED Rest
  BY <1>0, <1>1, AgentStepKeeps, SameTypes DEF Rest
<1>2. ASSUME NEW t \in Threads, EmitBegin(t), UNCHANGED Rest PROVE Goal
  BY <1>0, <1>2, EmitBeginKeeps, SameTypes DEF Rest
<1>3. ASSUME NEW t \in Threads, WriteEvent(t) PROVE Goal
  <2>1. AgentTypeOK' /\ pending \in Events
    BY <1>0, <1>3, EmittedKeeps DEF WriteEvent
  <2>2. TransportType'
    BY <1>0, <1>3, <2>1, WriteType DEF WriteEvent, Lines
  <2> QED BY <1>0, <1>3, <2>1, <2>2, SameTypes DEF WriteEvent
<1>4. CASE WriteResult
  <2>1. AgentTypeOK'
    BY <1>0, <1>4 DEF WriteResult, AgentTypeOK, Phases
  <2>2. TransportType'
    BY <1>0, <1>4, WriteType DEF WriteResult, Lines
  <2> QED BY <1>0, <1>4, <2>1, <2>2, SameTypes DEF WriteResult
<1>5. CASE ProcessExits
  <2>1. TransportType'
    BY <1>0, <1>5 DEF ProcessExits, TransportType
  <2> QED BY <1>0, <1>5, <2>1, SameTypes DEF ProcessExits
<1>6. CASE ReadLine
  <2>1. pipe \in Seq(Lines) /\ pipe # <<>>
    BY <1>0, <1>6 DEF ReadLine, TransportType
  <2>2. TransportType'
    <3>1. pipe' \in Seq(Lines) /\ Len(pipe') = Len(pipe) - 1 /\ Len(pipe) \in Nat
      BY <1>6, <2>1, Tails DEF ReadLine
    <3>2. Len(pipe') <= PipeLines
      BY <1>0, <3>1, PipelineAssumption DEF TransportType
    <3> QED BY <1>0, <1>6, <3>1, <3>2 DEF ReadLine, TransportType
  <2>3. Head(pipe) # ResultLine => Head(pipe) \in Events
    BY <2>1, Tails DEF Lines
  <2>4. ASSUME Head(pipe) = ResultLine PROVE ReaderType'
    <3>1. received' = verdict /\ UNCHANGED <<reader, line, sinkError, stored, rows, events>>
      BY <1>6, <2>4 DEF ReadLine
    <3>2. verdict \in Final \cup {"NONE"}
      BY <1>0 DEF AgentTypeOK, Final
    <3> QED BY <1>0, <3>1, <3>2 DEF ReaderType
  <2>5. ASSUME Head(pipe) # ResultLine PROVE ReaderType'
    BY <1>0, <1>6, <2>3, <2>5 DEF ReadLine, Persisting, ReaderType
  <2>6. ReaderType'
    BY <1>0, <1>6, <2>4, <2>5
  <2> QED BY <1>0, <1>6, <2>2, <2>6, SameTypes DEF ReadLine
<1>7. CASE ReadEnds
  <2>1. ReaderType'
    BY <1>0, <1>7 DEF ReadEnds, ReaderType
  <2> QED BY <1>0, <1>7, <2>1, SameTypes DEF ReadEnds
<1>8. CASE StoreArtifact \/ RecordArtifact \/ RenewLease
  <2>1. line.seq \in Nat
    BY <1>8, LineIsEvent DEF StoreArtifact, RecordArtifact, RenewLease
  <2>2. ReaderType'
    BY <1>0, <1>8, <2>1 DEF StoreArtifact, RecordArtifact, InsertArtifact, RenewLease, ReaderType
  <2> QED BY <1>0, <1>8, <2>2, SameTypes DEF StoreArtifact, RecordArtifact, RenewLease
<1>9. CASE AppendEvent
  <2>1. line \in Events
    BY <1>9, LineIsEvent DEF AppendEvent
  <2>2. ReaderType'
    BY <1>0, <1>9, <2>1 DEF AppendEvent, InsertEvent, ReaderType
  <2> QED BY <1>0, <1>9, <2>2, SameTypes DEF AppendEvent
<1>10. CASE PersistRaises
  <2>1. ReaderType'
    BY <1>0, <1>10 DEF PersistRaises, ReaderType
  <2> QED BY <1>0, <1>10, <2>1, SameTypes DEF PersistRaises
<1>11. CASE HostSink
  <2>1. pending \in Events
    BY <1>11 DEF HostSink, AgentInv
  <2>2. ReaderType'
    BY <1>0, <1>11, <2>1 DEF HostSink, Persisting, ReaderType
  <2> QED BY <1>0, <1>11, <2>2, SameTypes DEF HostSink
<1>12. CASE HostAppend
  <2>1. holder \in Threads /\ line \in Events
    BY <1>12, HostHolder DEF HostAppend
  <2>2. AgentTypeOK'
    BY <1>0, <1>12, <2>1, EmittedKeeps DEF HostAppend
  <2>3. ReaderType'
    BY <1>0, <1>12, <2>1 DEF HostAppend, InsertEvent, ReaderType
  <2> QED BY <1>0, <1>12, <2>2, <2>3, SameTypes DEF HostAppend
<1>13. CASE HostRaises
  <2>1. holder \in Threads /\ line \in Events
    BY <1>13, HostHolder DEF HostRaises
  <2>2. AgentTypeOK'
    BY <1>0, <1>13, <2>1, SinkRaisesKeeps DEF HostRaises
  <2>3. ReaderType'
    BY <1>0, <1>13, <2>1 DEF HostRaises, InsertEvent, ReaderType
  <2> QED BY <1>0, <1>13, <2>2, <2>3, SameTypes DEF HostRaises
<1>14. CASE DeadlinePassed \/ StartRefused
  <2>1. ClientType'
    BY <1>0, <1>14, ReturnType DEF DeadlinePassed, StartRefused, Final, ClientType
  <2> QED BY <1>0, <1>14, <2>1, SameTypes DEF DeadlinePassed, StartRefused
<1>15. CASE Launch \/ HostLaunch
  <2>1. ClientType' /\ TransportType'
    BY <1>0, <1>15 DEF Launch, HostLaunch, ClientType, TransportType
  <2> QED BY <1>0, <1>15, <2>1, SameTypes DEF Launch, HostLaunch
<1>16. CASE HostReturns
  <2>1. ClientType'
    BY <1>0, <1>16, ReturnType DEF HostReturns, Final, ClientType, AgentTypeOK, Return
  <2> QED BY <1>0, <1>16, <2>1, SameTypes DEF HostReturns
<1>17. CASE ProcessEnded
  <2>1. ClientType'
    BY <1>0, <1>17 DEF ProcessEnded, ClientType
  <2> QED BY <1>0, <1>17, <2>1, SameTypes DEF ProcessEnded
<1>18. CASE Deadline
  <2>1. ClientType' /\ TransportType'
    BY <1>0, <1>18 DEF Deadline, ClientType, TransportType
  <2> QED BY <1>0, <1>18, <2>1, SameTypes DEF Deadline
<1>19. CASE CloseStreams
  <2>1. ClientType' /\ TransportType'
    BY <1>0, <1>19 DEF CloseStreams, ClientType, TransportType
  <2> QED BY <1>0, <1>19, <2>1, SameTypes DEF CloseStreams
<1>20. CASE Joined
  <2>1. ClientType'
    BY <1>0, <1>20 DEF Joined, Conclude, Return, ClientType, ReaderType, Final
  <2> QED BY <1>0, <1>20, <2>1, SameTypes DEF Joined
<1>21. CASE JoinTimesOut
  <2>1. ClientType'
    BY <1>0, <1>21, ReturnType DEF JoinTimesOut, Final
  <2> QED BY <1>0, <1>21, <2>1, SameTypes DEF JoinTimesOut
<1>22. CASE CompleteAttempt \/ Lose
  <2>1. AttemptType'
    BY <1>22 DEF CompleteAttempt, Lose, OutcomeInv, AttemptType
  <2> QED BY <1>0, <1>22, <2>1, SameTypes DEF CompleteAttempt, Lose
<1> QED
  BY <1>1, <1>2, <1>3, <1>4, <1>5, <1>6, <1>7, <1>8, <1>9, <1>10, <1>11, <1>12, <1>13, <1>14,
     <1>15, <1>16, <1>17, <1>18, <1>19, <1>20, <1>21, <1>22, StepCases

LEMMA AgentInvStep ==
    ASSUME TypeOK, ReaderInv, ModeInv, AgentInv, Next PROVE AgentInv'
<1>0. AgentTypeOK
  BY TypeParts
<1>1. CASE AgentStep /\ UNCHANGED Rest
  BY <1>0, <1>1, AgentStepKeeps
<1>2. ASSUME NEW t \in Threads, EmitBegin(t) PROVE AgentInv'
  BY <1>0, <1>2, EmitBeginKeeps
<1>3. ASSUME NEW t \in Threads, WriteEvent(t) PROVE AgentInv'
  BY <1>0, <1>3, EmittedKeeps DEF WriteEvent
<1>4. CASE WriteResult
  BY <1>4 DEF WriteResult, AgentInv, EmittedAt
<1>5. CASE HostAppend
  BY <1>0, <1>5, HostHolder, EmittedKeeps DEF HostAppend
<1>6. CASE HostRaises
  BY <1>0, <1>6, HostHolder, SinkRaisesKeeps DEF HostRaises
<1>7. CASE UNCHANGED agentVars
  BY <1>7 DEF agentVars, AgentInv
<1>8. \/ UNCHANGED agentVars \/ WriteResult \/ HostAppend \/ HostRaises
      \/ AgentStep /\ UNCHANGED Rest
      \/ \E t \in Threads : EmitBegin(t) \/ WriteEvent(t)
  BY StepCases DEF ProcessExits, ReadLine, ReadEnds, StoreArtifact, RecordArtifact, RenewLease,
     AppendEvent, PersistRaises, HostSink, DeadlinePassed, StartRefused, Launch, HostLaunch,
     HostReturns, ProcessEnded, Deadline, CloseStreams, Joined, JoinTimesOut, CompleteAttempt, Lose
<1> QED BY <1>1, <1>2, <1>3, <1>4, <1>5, <1>6, <1>7, <1>8

\* persist_event begins at the step its line's type calls for.
LEMMA PersistingKeeps ==
    ASSUME NEW l \in Events, Persisting(l)
    PROVE  ReaderInv' /\ line' # NoLine /\ reader' \in {"collect", "renew", "append"}
<1>1. line' = l /\ l # NoLine /\ l.type \in EventTypes
  BY PipelineAssumption DEF Persisting, Events
<1>2. CASE l.type = "ARTIFACT"
  BY <1>1, <1>2 DEF Persisting, ReaderInv
<1>3. CASE l.type = "HEARTBEAT"
  BY <1>1, <1>3 DEF Persisting, ReaderInv
<1>4. CASE l.type \notin {"ARTIFACT", "HEARTBEAT"}
  BY <1>1, <1>4 DEF Persisting, ReaderInv
<1> QED BY <1>2, <1>3, <1>4

LEMMA ReadLineCases ==
    ASSUME TypeOK, ReadLine
    PROVE  /\ pipe \in Seq(Lines) /\ pipe # <<>> /\ pipe' = Tail(pipe) /\ reader = "reading"
           /\ UNCHANGED <<agentVars, process, exitCode, closed, sinkError, stored, rows,
                          events, clientVars, attempt>>
           /\ \/ Head(pipe) = ResultLine /\ received' = verdict /\ UNCHANGED <<reader, line>>
              \/ /\ Head(pipe) # ResultLine /\ Head(pipe) \in Events /\ Persisting(Head(pipe))
                 /\ UNCHANGED received
<1>1. pipe \in Seq(Lines) /\ pipe # <<>> /\ pipe' = Tail(pipe) /\ reader = "reading"
  BY TypeParts DEF ReadLine, TransportType
<1>2. Head(pipe) # ResultLine => Head(pipe) \in Events
  BY <1>1, Tails DEF Lines
<1> QED BY <1>1, <1>2 DEF ReadLine

LEMMA ReaderInvStep ==
    ASSUME TypeOK, AgentInv, ReaderInv, Next PROVE ReaderInv'
<1>1. CASE ReadLine
  BY <1>1, ReadLineCases, PersistingKeeps DEF ReaderInv
<1>2. CASE ReadEnds
  BY <1>2 DEF ReadEnds, ReaderInv
<1>3. CASE StoreArtifact
  BY <1>3, LineIsEvent DEF StoreArtifact, ReaderInv
<1>4. CASE RecordArtifact
  BY <1>4, LineIsEvent DEF RecordArtifact, InsertArtifact, ReaderInv
<1>5. CASE RenewLease
  BY <1>5, LineIsEvent DEF RenewLease, ReaderInv
<1>6. CASE AppendEvent \/ PersistRaises \/ HostAppend \/ HostRaises
  BY <1>6 DEF AppendEvent, PersistRaises, HostAppend, HostRaises, ReaderInv
<1>7. CASE HostSink
  <2>1. pending \in Events
    BY <1>7 DEF HostSink, AgentInv
  <2> QED BY <1>7, <2>1, PersistingKeeps DEF HostSink
<1>8. CASE UNCHANGED readerVars
  BY <1>8 DEF readerVars, ReaderInv
<1>9. \/ UNCHANGED readerVars \/ ReadLine \/ ReadEnds \/ StoreArtifact \/ RecordArtifact
      \/ RenewLease \/ AppendEvent \/ PersistRaises \/ HostSink \/ HostAppend \/ HostRaises
  BY StepCases DEF Rest, WriteEvent, WriteResult, ProcessExits, DeadlinePassed, StartRefused, Launch,
     HostLaunch, HostReturns, ProcessEnded, Deadline, CloseStreams, Joined, JoinTimesOut,
     CompleteAttempt, Lose
<1> QED BY <1>1, <1>2, <1>3, <1>4, <1>5, <1>6, <1>7, <1>8, <1>9

LEMMA ModeInvStep ==
    ASSUME TypeOK, AgentInv, ReaderInv, ModeInv, OutcomeInv, Next PROVE ModeInv'
<1>0. AgentTypeOK
  BY TypeParts
<1>1. CASE process \in {"running", "hosted"} /\ AgentStep /\ UNCHANGED Rest
  <2>1. UNCHANGED <<seq, holder, pending>>
    BY <1>0, <1>1, AgentStepKeeps
  <2>2. phase # "exit" => phase' # "exit"
    BY <1>1 DEF AgentStep, MainStep, StartStreaming, AdapterReturns, Skip, ArtifactsRejected,
       StopBeat, JoinBeat, StreamEnds, BeatDue, BeatEnds, After
  <2> QED BY <1>1, <2>1, <2>2 DEF ModeInv, Rest, transportVars, readerVars, clientVars
<1>2. ASSUME NEW t \in Threads, process \in {"running", "hosted"}, EmitBegin(t), UNCHANGED Rest
      PROVE  ModeInv'
  BY <1>2 DEF EmitBegin, ModeInv, Rest, transportVars, readerVars, clientVars
<1>3. ASSUME NEW t \in Threads, WriteEvent(t) PROVE ModeInv'
  BY <1>3 DEF WriteEvent, ModeInv, readerVars, clientVars
<1>4. CASE WriteResult \/ ProcessExits
  BY <1>4 DEF WriteResult, ProcessExits, ModeInv, readerVars, clientVars
<1>5. CASE ReadLine
  BY <1>5, ReadLineCases DEF ModeInv, clientVars, agentVars
<1>6. CASE ReadEnds
  BY <1>6 DEF ReadEnds, ModeInv, agentVars, transportVars, clientVars
<1>7. CASE StoreArtifact \/ RecordArtifact \/ RenewLease
  BY <1>7 DEF StoreArtifact, RecordArtifact, RenewLease, ModeInv, agentVars, transportVars, clientVars
<1>8. CASE AppendEvent \/ PersistRaises
  BY <1>8 DEF AppendEvent, PersistRaises, ModeInv, agentVars, transportVars, clientVars
<1>9. CASE HostSink
  BY <1>9 DEF HostSink, Persisting, ModeInv, agentVars, transportVars, clientVars
<1>10. CASE HostAppend
  <2>1. holder \in Threads
    BY <1>10, HostHolder DEF HostAppend
  <2>2. phase' # "exit"
    BY <1>10, <2>1 DEF HostAppend, Emitted, AgentInv, ModeInv, After, EmittedAt
  <2> QED BY <1>10, <2>2 DEF HostAppend, ModeInv, transportVars, clientVars
<1>11. CASE HostRaises
  <2>1. phase' # "exit"
    BY <1>11 DEF HostRaises, SinkRaises, ModeInv
  <2> QED BY <1>11, <2>1 DEF HostRaises, ModeInv, transportVars, clientVars
<1>12. CASE DeadlinePassed \/ StartRefused
  BY <1>12 DEF DeadlinePassed, StartRefused, Return, ModeInv, agentVars, transportVars, readerVars
<1>13. CASE Launch \/ HostLaunch
  BY <1>13 DEF Launch, HostLaunch, ModeInv, ReaderInv, agentVars, readerVars
<1>14. CASE HostReturns
  BY <1>14 DEF HostReturns, Return, ModeInv, agentVars, transportVars, readerVars
<1>15. CASE ProcessEnded \/ Deadline \/ CloseStreams
  BY <1>15 DEF ProcessEnded, Deadline, CloseStreams, ModeInv, agentVars, transportVars, readerVars
<1>16. CASE Joined
  BY <1>16 DEF Joined, Conclude, Return, ModeInv, agentVars, transportVars, readerVars
<1>17. CASE JoinTimesOut
  BY <1>17 DEF JoinTimesOut, Return, ModeInv, agentVars, transportVars, readerVars
<1>18. CASE CompleteAttempt \/ Lose
  BY <1>18 DEF CompleteAttempt, Lose, ModeInv, agentVars, transportVars, readerVars, clientVars
<1> QED
  BY <1>1, <1>2, <1>3, <1>4, <1>5, <1>6, <1>7, <1>8, <1>9, <1>10, <1>11, <1>12, <1>13, <1>14,
     <1>15, <1>16, <1>17, <1>18, StepCases

LEMMA OutcomeInvStep ==
    ASSUME TypeOK, AgentInv, ReaderInv, ModeInv, OutcomeInv, Next PROVE OutcomeInv'
<1>0. AgentTypeOK
  BY TypeParts
<1>1. CASE AgentStep /\ UNCHANGED Rest
  <2>1. phase = "returned" => UNCHANGED <<phase, verdict>>
    BY <1>1 DEF AgentStep, MainStep, StartStreaming, AdapterReturns, Skip, ArtifactsRejected,
       StopBeat, JoinBeat, StreamEnds, BeatDue, BeatEnds
  <2> QED BY <1>1, <2>1 DEF OutcomeInv, Rest, transportVars, readerVars, clientVars
<1>2. ASSUME NEW t \in Threads, EmitBegin(t), UNCHANGED Rest PROVE OutcomeInv'
  BY <1>2 DEF EmitBegin, OutcomeInv, Rest, transportVars, readerVars, clientVars
<1>3. ASSUME NEW t \in Threads, WriteEvent(t) PROVE OutcomeInv'
  BY <1>3 DEF WriteEvent, OutcomeInv, readerVars, clientVars
<1>4. CASE WriteResult \/ ProcessExits
  BY <1>4 DEF WriteResult, ProcessExits, OutcomeInv, readerVars, clientVars, agentVars
<1>5. CASE ReadLine
  BY <1>5, ReadLineCases DEF OutcomeInv, ModeInv, clientVars, agentVars
<1>6. CASE ReadEnds
  BY <1>6 DEF ReadEnds, OutcomeInv, ModeInv, agentVars, transportVars, clientVars
<1>7. CASE StoreArtifact \/ RecordArtifact \/ RenewLease
  BY <1>7 DEF StoreArtifact, RecordArtifact, RenewLease, OutcomeInv, agentVars, transportVars, clientVars
<1>8. CASE AppendEvent \/ PersistRaises
  BY <1>8 DEF AppendEvent, PersistRaises, OutcomeInv, agentVars, transportVars, clientVars
<1>9. CASE HostSink
  BY <1>9 DEF HostSink, OutcomeInv, agentVars, transportVars, clientVars
<1>10. CASE HostAppend
  <2>1. holder # Nobody
    BY <1>10, HostHolder, AgentAssumption DEF HostAppend, Threads
  <2>2. phase = "returned" => UNCHANGED <<phase, verdict>>
    BY <1>10, <2>1 DEF HostAppend, Emitted, AgentInv, EmittedAt
  <2> QED BY <1>10, <2>2 DEF HostAppend, OutcomeInv, transportVars, clientVars
<1>11. CASE HostRaises
  <2>1. phase = "returned" => UNCHANGED <<phase, verdict>>
    BY <1>11 DEF HostRaises, SinkRaises, AgentInv, EmittedAt
  <2> QED BY <1>11, <2>1 DEF HostRaises, OutcomeInv, transportVars, clientVars
<1>12. CASE DeadlinePassed \/ StartRefused
  BY <1>12 DEF DeadlinePassed, StartRefused, Return, OutcomeInv, Final
<1>13. CASE Launch \/ HostLaunch
  BY <1>13 DEF Launch, HostLaunch, OutcomeInv
<1>14. CASE HostReturns
  <2>1. process = "hosted" /\ UNCHANGED <<process, phase, verdict, reader, received>>
    BY <1>14 DEF HostReturns, ModeInv, agentVars, transportVars, readerVars
  <2>2. CASE phase = "returned"
    <3>1. verdict \in Final
      BY <1>0, <2>2 DEF AgentTypeOK, AgentInv, Final
    <3> QED BY <1>14, <2>1, <2>2, <3>1 DEF HostReturns, Return, OutcomeInv
  <2>3. CASE phase # "returned"
    BY <1>14, <2>1, <2>3 DEF HostReturns, Return, OutcomeInv, Final
  <2> QED BY <2>2, <2>3
<1>15. CASE ProcessEnded \/ Deadline \/ CloseStreams
  BY <1>15 DEF ProcessEnded, Deadline, CloseStreams, OutcomeInv, agentVars, transportVars, readerVars
<1>16. CASE Joined
  <2>1. process # "hosted" /\ UNCHANGED <<process, reader, received>> /\ reader = "ended"
    BY <1>16 DEF Joined, ModeInv, transportVars, readerVars
  <2>2. client' = "done" /\ outcome' \in Final /\ (reported' => received # "NONE" /\ outcome' = received)
    BY <1>16, TypeParts DEF Joined, Conclude, Return, Final, ReaderType
  <2> QED BY <2>1, <2>2 DEF OutcomeInv
<1>17. CASE JoinTimesOut
  BY <1>17 DEF JoinTimesOut, Return, OutcomeInv, Final
<1>18. CASE CompleteAttempt \/ Lose
  BY <1>18 DEF CompleteAttempt, Lose, OutcomeInv, agentVars, transportVars, readerVars, clientVars
<1> QED
  BY <1>1, <1>2, <1>3, <1>4, <1>5, <1>6, <1>7, <1>8, <1>9, <1>10, <1>11, <1>12, <1>13, <1>14,
     <1>15, <1>16, <1>17, <1>18, StepCases

LEMMA ArtifactsStep ==
    ASSUME TypeOK, AgentInv, ReaderInv, ModeInv, ArtifactsAreBacked, Next PROVE ArtifactsAreBacked'
<1>1. CASE StoreArtifact
  BY <1>1 DEF StoreArtifact, ArtifactsAreBacked
<1>2. CASE RecordArtifact
  BY <1>2 DEF RecordArtifact, InsertArtifact, ArtifactsAreBacked, ReaderInv
<1>3. ASSUME reader = "append", events' = Append(events, line), UNCHANGED <<stored, rows>>
      PROVE  ArtifactsAreBacked'
  <2>1. line \in Events /\ (line.type = "ARTIFACT" => line.seq \in rows)
    BY <1>3, LineIsEvent DEF ReaderInv
  <2>2. events \in Seq(Events)
    BY DEF TypeOK
  <2>3. /\ DOMAIN events' = 1..(Len(events) + 1) /\ DOMAIN events = 1..Len(events)
        /\ events'[Len(events) + 1] = line /\ \A i \in 1..Len(events) : events'[i] = events[i]
    BY <1>3, <2>1, <2>2
  <2> QED BY <1>3, <2>1, <2>2, <2>3 DEF ArtifactsAreBacked
<1>4. CASE UNCHANGED <<stored, rows, events>>
  BY <1>4 DEF ArtifactsAreBacked
<1>5. \/ UNCHANGED <<stored, rows, events>> \/ StoreArtifact \/ RecordArtifact
      \/ reader = "append" /\ events' = Append(events, line) /\ UNCHANGED <<stored, rows>>
  BY StepCases DEF Rest, readerVars, WriteEvent, WriteResult, ProcessExits, ReadLine, ReadEnds,
     RenewLease, AppendEvent, PersistRaises, InsertEvent, HostSink, HostAppend, HostRaises,
     DeadlinePassed, StartRefused, Launch, HostLaunch, HostReturns, ProcessEnded, Deadline,
     CloseStreams, Joined, JoinTimesOut, CompleteAttempt, Lose
<1> QED BY <1>1, <1>2, <1>3, <1>4, <1>5

\* Only persist_event appends, and at the end only.
LEMMA EventsStep ==
    ASSUME Next
    PROVE  \/ UNCHANGED events
           \/ /\ reader = "append" /\ InsertEvent /\ line' = NoLine
              /\ AppendEvent \/ HostAppend \/ HostRaises
BY StepCases DEF Rest, readerVars, WriteEvent, WriteResult, ProcessExits, ReadLine, ReadEnds,
   StoreArtifact, RecordArtifact, RenewLease, AppendEvent, PersistRaises, HostSink, HostAppend,
   HostRaises, DeadlinePassed, StartRefused, Launch, HostLaunch, HostReturns, ProcessEnded, Deadline,
   CloseStreams, Joined, JoinTimesOut, CompleteAttempt, Lose

\* The event that is appended has the next number: from the pipe because nothing
\* was lost, on the host because a number used already is refused.
LEMMA NextNumber ==
    ASSUME PipelineInv, reader = "append", InsertEvent
    PROVE  line.seq = Len(events) /\ (process = "hosted" => seq = Len(events))
<1>1. CASE process # "hosted"
  BY <1>1, LineIsEvent DEF PipelineInv, PipeInv
<1>2. CASE process = "hosted"
  <2>1. line.seq = seq /\ seq \in Nat /\ events \in Seq(Events) /\ seq <= Len(events) /\ Len(events) <= seq + 1
    BY <1>2, HostHolder DEF PipelineInv, HostInv, TypeOK, AgentTypeOK
  <2>2. ASSUME Len(events) = seq + 1 PROVE FALSE
    <3>1. Len(events) \in DOMAIN events /\ events[Len(events)].seq = seq
      BY <2>1, <2>2 DEF PipelineInv, EventsInOrder
    <3> QED BY <2>1, <3>1 DEF InsertEvent
  <2>3. Len(events) \in Nat
    BY <2>1
  <2> QED BY <2>1, <2>2, <2>3
<1> QED BY <1>1, <1>2

LEMMA Appended ==
    ASSUME PipelineInv, reader = "append", InsertEvent
    PROVE  /\ line \in Events /\ events \in Seq(Events) /\ events' = Append(events, line)
           /\ Len(events') = Len(events) + 1 /\ Len(events) \in Nat
           /\ Types(events') = Types(events) \cup {line.type}
<1>1. line \in Events /\ events \in Seq(Events) /\ events' = Append(events, line)
  BY LineIsEvent DEF PipelineInv, InsertEvent, TypeOK
<1> QED BY <1>1, TypesAppend

LEMMA OrderStep ==
    ASSUME PipelineInv, Next PROVE EventsInOrder'
<1>1. CASE UNCHANGED events
  BY <1>1 DEF PipelineInv, EventsInOrder
<1>2. CASE reader = "append" /\ InsertEvent
  <2>1. line.seq = Len(events) /\ line \in Events /\ events \in Seq(Events) /\ events' = Append(events, line)
    BY <1>2, NextNumber, Appended
  <2>2. /\ DOMAIN events' = 1..(Len(events) + 1) /\ DOMAIN events = 1..Len(events) /\ Len(events) \in Nat
        /\ events'[Len(events) + 1] = line /\ \A i \in 1..Len(events) : events'[i] = events[i]
    BY <2>1
  <2> QED BY <2>1, <2>2 DEF PipelineInv, EventsInOrder
<1> QED BY <1>1, <1>2, EventsStep

\* After the result has been written run() is over.
LEMMA ExitIsFinal ==
    ASSUME AgentStep, phase = "exit" PROVE UNCHANGED <<phase, verdict>>
BY DEF AgentStep, MainStep, StartStreaming, AdapterReturns, Skip, ArtifactsRejected, StopBeat,
   JoinBeat, StreamEnds, BeatDue, BeatEnds

LEMMA ExitIsQuiet ==
    ASSUME AgentTypeOK, AgentInv, NEW t \in Threads, Emitted(t)
    PROVE  /\ phase = "exit" => pending.type \in {"HEARTBEAT", "LOG"} /\ UNCHANGED <<phase, verdict>>
           /\ phase # "exit" => phase' # "exit"
<1>1. holder = t /\ t # Nobody
  BY AgentAssumption DEF Emitted, Threads
<1>2. CASE t = "main"
  BY <1>1, <1>2 DEF Emitted, AgentInv, EmittedAt, After
<1>3. CASE t # "main"
  BY <1>1, <1>3 DEF Emitted, AgentInv
<1> QED BY <1>2, <1>3

LEMMA HostInvStep ==
    ASSUME PipelineInv, Next PROVE HostInv'
<1>0. AgentTypeOK /\ AgentInv /\ HostInv /\ ModeInv /\ ReaderInv /\ TypeOK /\ Len(events) \in Nat /\ seq \in Nat
  BY TypeParts DEF PipelineInv, TypeOK, AgentTypeOK
<1>1. CASE AgentStep /\ UNCHANGED Rest
  BY <1>0, <1>1, AgentStepKeeps, AgentStepProgress DEF HostInv, Rest, transportVars, readerVars
<1>2. ASSUME NEW t \in Threads, EmitBegin(t), UNCHANGED Rest PROVE HostInv'
  BY <1>0, <1>2 DEF EmitBegin, HostInv, Rest, transportVars, readerVars
<1>3. CASE HostAppend
  <2>1. holder \in Threads /\ line = pending
    BY <1>0, <1>3, HostHolder DEF HostAppend
  <2>2. seq = Len(events) /\ Len(events') = Len(events) + 1 /\ Types(events') = Types(events) \cup {line.type}
    BY <1>3, NextNumber, Appended DEF HostAppend
  <2>3. Progress(phase', verdict', failed', Types(events'))
    <3>1. phase # "exit" /\ Progress(phase, verdict, failed, Types(events))
      BY <1>0, <1>3 DEF HostAppend, ModeInv, HostInv
    <3>2. Progress(phase', verdict', failed', Types(events) \cup {pending.type})
      BY <1>0, <1>3, <2>1, <3>1, EmittedProgress DEF HostAppend
    <3> QED BY <2>1, <2>2, <3>2
  <2>4. seq' = seq + 1
    BY <1>3 DEF HostAppend, Emitted
  <2> QED BY <1>0, <2>2, <2>3, <2>4 DEF HostInv
<1>4. CASE HostRaises
  <2>1. holder \in Threads /\ line = pending /\ process = "hosted" /\ seq' = seq
    BY <1>0, <1>4, HostHolder DEF HostRaises, SinkRaises
  <2>2. Progress(phase, verdict, failed, Types(events))
    BY <1>0, <2>1 DEF HostInv
  <2>3. /\ Progress(phase', verdict', failed', Types(events))
        /\ Progress(phase', verdict', failed', Types(events) \cup {pending.type})
    BY <1>0, <1>4, <2>1, <2>2, SinkRaisesProgress DEF HostRaises
  <2>4. CASE UNCHANGED events
    BY <1>0, <2>1, <2>3, <2>4 DEF HostInv
  <2>5. CASE reader = "append" /\ InsertEvent
    <3>1. seq = Len(events) /\ Len(events') = Len(events) + 1 /\ Types(events') = Types(events) \cup {line.type}
      BY <2>1, <2>5, NextNumber, Appended
    <3>2. Progress(phase', verdict', failed', Types(events'))
      BY <2>1, <2>3, <3>1
    <3> QED BY <1>0, <2>1, <3>1, <3>2 DEF HostInv
  <2> QED BY <1>4, <2>4, <2>5 DEF HostRaises
<1>5. CASE HostLaunch
  <2>1. events' = <<>> /\ seq' = 0 /\ phase' = "started"
    BY <1>0, <1>5 DEF HostLaunch, ModeInv, agentVars, readerVars
  <2>2. Types(events') = {} /\ Len(events') = 0
    BY <2>1 DEF Types
  <2>3. Progress(phase', verdict', failed', Types(events'))
    BY <2>1, <2>2 DEF Progress, Working
  <2> QED BY <2>1, <2>2, <2>3 DEF HostInv
<1>6. CASE process' # "hosted"
  BY <1>6 DEF HostInv
<1>7. CASE UNCHANGED <<process, events, seq, phase, verdict, failed>>
  BY <1>0, <1>7 DEF HostInv
<1>8. \/ process' # "hosted" \/ UNCHANGED <<process, events, seq, phase, verdict, failed>>
      \/ HostAppend \/ HostRaises \/ HostLaunch
      \/ AgentStep /\ UNCHANGED Rest
      \/ \E t \in Threads : EmitBegin(t) /\ UNCHANGED Rest
  BY StepCases DEF agentVars, transportVars, readerVars, WriteEvent, WriteResult, ProcessExits,
     ReadLine, ReadEnds, StoreArtifact, RecordArtifact, RenewLease, AppendEvent, PersistRaises,
     HostSink, DeadlinePassed, StartRefused, Launch, HostReturns, ProcessEnded, Deadline,
     CloseStreams, Joined, JoinTimesOut, CompleteAttempt, Lose
<1> QED BY <1>1, <1>2, <1>3, <1>4, <1>5, <1>6, <1>7, <1>8

-----------------------------------------------------------------------------
(* Between the container and the reader.                                   *)

\* What the reader's end of the pipe is about.
view == <<pipe, line, events, seq, phase, verdict, failed>>

LEMMA SameView ==
    ASSUME PipeInv, process # "hosted", reader # "ended", UNCHANGED view PROVE PipeInv'
BY DEF PipeInv, view, Emission, ResultAt, Base, Seen

LEMMA ViewTypes ==
    ASSUME PipelineInv
    PROVE  /\ pipe \in Seq(Lines) /\ Len(pipe) \in Nat /\ events \in Seq(Events)
           /\ Len(events) \in Nat /\ Base \in Nat /\ seq \in Nat
           /\ AgentTypeOK /\ AgentInv /\ TypeOK /\ ModeInv /\ ReaderInv
BY TypeParts DEF PipelineInv, TypeOK, AgentTypeOK, TransportType, Base

LEMMA AgentPipe ==
    ASSUME PipelineInv, process # "hosted", AgentStep, UNCHANGED Rest PROVE PipeInv'
<1> SUFFICES ASSUME reader # "ended" PROVE PipeInv'
  BY DEF PipeInv, Rest, readerVars
<1>0. PipeInv /\ AgentTypeOK /\ AgentInv
  BY ViewTypes DEF PipelineInv
<1>1. UNCHANGED <<pipe, line, events, seq, reader, process, Base, Seen>>
  BY <1>0, AgentStepKeeps DEF Rest, transportVars, readerVars, Base, Seen
<1> DEFINE T == Seen \cup TypesBefore(pipe, Len(pipe) + 1)
<1>2. Emission'
  <2>1. phase # "exit" => Progress(phase, verdict, failed, T)
    BY <1>0 DEF PipeInv, Emission
  <2>2. phase = "exit" => phase' = "exit"
    BY ExitIsFinal
  <2>3. phase # "exit" => Progress(phase', verdict', failed', T)
    BY <1>0, <2>1, AgentStepProgress
  <2> QED BY <1>1, <2>2, <2>3 DEF Emission
<1>3. \E r \in 1..(Len(pipe) + 1) : PipeOK(pipe, Base, seq, r) /\ ResultAt(r)
  BY <1>0 DEF PipeInv
<1>4. ASSUME NEW r \in 1..(Len(pipe) + 1), ResultAt(r) PROVE ResultAt(r)'
  BY <1>1, <1>4, ExitIsFinal DEF ResultAt
<1>5. line # NoLine => line.seq = Len(events)
  BY <1>0 DEF PipeInv
<1> QED BY <1>1, <1>2, <1>3, <1>4, <1>5 DEF PipeInv

LEMMA WriteEventPipe ==
    ASSUME PipelineInv, NEW t \in Threads, WriteEvent(t), reader # "ended" PROVE PipeInv'
<1>0. PipeInv /\ process # "hosted"
  BY DEF PipelineInv, WriteEvent
<1>1. /\ UNCHANGED <<line, events, Base, Seen, reader, process>> /\ seq' = seq + 1
      /\ pipe' = Append(pipe, pending) /\ Emitted(t)
  BY DEF WriteEvent, Write, Emitted, readerVars, Base, Seen
<1>2. pending \in Events /\ pending.seq = seq /\ pending \in Lines
  BY <1>1, ViewTypes, EmittedKeeps DEF Lines
<1>3. Len(pipe') = Len(pipe) + 1 /\ pipe'[Len(pipe) + 1] = pending /\ \A i \in 1..Len(pipe) : pipe'[i] = pipe[i]
  BY <1>1, <1>2, ViewTypes
<1> DEFINE T == Seen \cup TypesBefore(pipe, Len(pipe) + 1)
<1>4. Emission'
  <2>1. phase # "exit" => Progress(phase, verdict, failed, T)
    BY <1>0, ViewTypes DEF PipeInv, Emission
  <2>2. phase # "exit" => Progress(phase', verdict', failed', T \cup {pending.type})
    BY <1>1, <2>1, ViewTypes, EmittedProgress
  <2>3. TypesBefore(pipe', Len(pipe') + 1) = TypesBefore(pipe, Len(pipe) + 1) \cup {pending.type}
    <3>1. Len(pipe') + 1 = Len(pipe) + 2 /\ Len(pipe) + 1 \in 1..(Len(pipe) + 1)
      BY <1>3, ViewTypes
    <3> QED BY <1>1, <1>2, <3>1, ViewTypes, TypesBeforeAppend
  <2>4. phase = "exit" => phase' = "exit"
    BY <1>1, ViewTypes, ExitIsQuiet
  <2> QED BY <1>1, <2>2, <2>3, <2>4 DEF Emission
<1>5. PICK r \in 1..(Len(pipe) + 1) : PipeOK(pipe, Base, seq, r) /\ ResultAt(r)
  BY <1>0 DEF PipeInv
<1>6. PICK m \in Nat : m = IF r <= Len(pipe) THEN r ELSE r + 1
  BY <1>5, ViewTypes
<1>7. m \in 1..(Len(pipe') + 1) /\ PipeOK(pipe', Base', seq', m)
  <2>1. PipeOK(pipe', Base', seq', IF r <= Len(pipe) THEN r ELSE r + 1)
    BY <1>1, <1>2, <1>5, ViewTypes, EventWritten
  <2> QED BY <1>3, <1>5, <1>6, <2>1, ViewTypes
<1>8. ResultAt(m)'
  <2>1. CASE r <= Len(pipe)
    <3>1. /\ phase = "exit" /\ Complete(Seen \cup TypesBefore(pipe, r), verdict)
          /\ \A i \in 1..Len(pipe) : i > r => pipe[i].type # "ERROR"
      BY <1>5, <2>1 DEF ResultAt
    <3>2. pending.type # "ERROR" /\ UNCHANGED <<phase, verdict>>
      BY <1>1, <3>1, ViewTypes, ExitIsQuiet
    <3>3. TypesBefore(pipe', r) = TypesBefore(pipe, r)
      BY <1>1, <1>2, <1>5, ViewTypes, TypesBeforeAppend
    <3>4. \A i \in 1..Len(pipe') : i > r => pipe'[i].type # "ERROR"
      BY <1>3, <3>1, <3>2, ViewTypes
    <3> QED BY <1>1, <1>6, <2>1, <3>1, <3>2, <3>3, <3>4 DEF ResultAt
  <2>2. CASE ~(r <= Len(pipe))
    <3>1. ~(m <= Len(pipe'))
      BY <1>3, <1>5, <1>6, <2>2, ViewTypes
    <3> QED BY <3>1 DEF ResultAt
  <2> QED BY <2>1, <2>2
<1>9. line # NoLine => line.seq = Len(events)
  BY <1>0 DEF PipeInv
<1> QED BY <1>1, <1>4, <1>7, <1>8, <1>9 DEF PipeInv

LEMMA WriteResultPipe ==
    ASSUME PipelineInv, WriteResult, reader # "ended" PROVE PipeInv'
<1>0. PipeInv /\ process # "hosted"
  BY DEF PipelineInv, WriteResult
<1>1. /\ UNCHANGED <<line, events, seq, verdict, Base, Seen, reader, process>>
      /\ pipe' = Append(pipe, ResultLine) /\ phase = "returned" /\ phase' = "exit"
  BY DEF WriteResult, Write, readerVars, Base, Seen
<1>2. Len(pipe') = Len(pipe) + 1 /\ ResultLine \in Lines
  BY <1>1, ViewTypes DEF Lines
<1>3. PICK r \in 1..(Len(pipe) + 1) : PipeOK(pipe, Base, seq, r) /\ ResultAt(r)
  BY <1>0 DEF PipeInv
<1>4. r = Len(pipe) + 1
  BY <1>1, <1>3, ViewTypes DEF ResultAt
<1>5. PipeOK(pipe', Base', seq', r)
  BY <1>1, <1>3, <1>4, ViewTypes, ResultWritten
<1>6. ResultAt(r)'
  <2>1. Complete(Seen \cup TypesBefore(pipe, r), verdict)
    BY <1>0, <1>1, <1>4, ViewTypes DEF PipeInv, Emission, Progress, AgentInv
  <2>2. TypesBefore(pipe', r) = TypesBefore(pipe, r)
    BY <1>1, <1>2, <1>3, ViewTypes, TypesBeforeAppend
  <2>3. \A i \in 1..Len(pipe') : ~(i > r)
    BY <1>2, <1>4, ViewTypes
  <2> QED BY <1>1, <2>1, <2>2, <2>3 DEF ResultAt
<1>7. r \in 1..(Len(pipe') + 1)
  BY <1>2, <1>4, ViewTypes
<1>8. line # NoLine => line.seq = Len(events)
  BY <1>0 DEF PipeInv
<1> QED BY <1>1, <1>5, <1>6, <1>7, <1>8 DEF PipeInv, Emission

LEMMA ReadEventPipe ==
    ASSUME PipelineInv, ReadLine, Head(pipe) # ResultLine PROVE PipeInv'
<1>0. PipeInv /\ process # "hosted" /\ reader # "ended" /\ line = NoLine
  BY ViewTypes DEF PipelineInv, ReadLine, ModeInv, ReaderInv
<1>1. /\ UNCHANGED <<events, seq, phase, verdict, failed, process>>
      /\ pipe # <<>> /\ pipe' = Tail(pipe) /\ Head(pipe) \in Events /\ line' = Head(pipe)
  BY ViewTypes, ReadLineCases DEF Persisting, agentVars
<1>2. /\ Len(pipe') = Len(pipe) - 1 /\ Len(pipe) >= 1
      /\ \A i \in 1..(Len(pipe) - 1) : pipe'[i] = pipe[i + 1]
  BY <1>1, ViewTypes, Tails
<1>3. line' # NoLine
  BY <1>1, PipelineAssumption
<1>4. Base = Len(events) /\ Base' = Base + 1 /\ Seen' = Seen \cup {Head(pipe).type}
  BY <1>0, <1>1, <1>3, ViewTypes DEF Base, Seen
<1>5. PICK r \in 1..(Len(pipe) + 1) : PipeOK(pipe, Base, seq, r) /\ ResultAt(r)
  BY <1>0 DEF PipeInv
<1>6. r > 1 /\ line'.seq = Len(events) /\ PipeOK(pipe', Base', seq', r - 1)
  BY <1>1, <1>4, <1>5, ViewTypes, EventRead
<1>7. ASSUME NEW n \in 2..(Len(pipe) + 1)
      PROVE  Seen' \cup TypesBefore(pipe', n - 1) = Seen \cup TypesBefore(pipe, n)
  <2>1. TypesBefore(pipe, n) = {Head(pipe).type} \cup TypesBefore(pipe', n - 1)
    BY <1>1, ViewTypes, TypesBeforeTail
  <2> QED BY <1>4, <2>1
<1>8. Emission'
  <2>1. Len(pipe) + 1 \in 2..(Len(pipe) + 1) /\ Len(pipe) + 1 - 1 = Len(pipe') + 1
    BY <1>2, ViewTypes
  <2>2. Seen' \cup TypesBefore(pipe', Len(pipe') + 1) = Seen \cup TypesBefore(pipe, Len(pipe) + 1)
    BY <1>7, <2>1
  <2> QED BY <1>0, <1>1, <2>2 DEF PipeInv, Emission
<1>9. ResultAt(r - 1)'
  <2> SUFFICES ASSUME r - 1 <= Len(pipe') PROVE ResultAt(r - 1)'
    BY DEF ResultAt
  <2>1. r <= Len(pipe) /\ r \in 2..(Len(pipe) + 1)
    BY <1>2, <1>5, <1>6, ViewTypes
  <2>2. Complete(Seen' \cup TypesBefore(pipe', r - 1), verdict')
    BY <1>1, <1>5, <1>7, <2>1 DEF ResultAt
  <2>3. \A i \in 1..Len(pipe) : i > r => pipe[i].type # "ERROR"
    BY <1>5, <2>1 DEF ResultAt
  <2>4. ASSUME NEW i \in 1..Len(pipe'), i > r - 1 PROVE pipe'[i].type # "ERROR"
    <3>1. i + 1 \in 1..Len(pipe) /\ i + 1 > r /\ pipe'[i] = pipe[i + 1]
      BY <1>2, <2>4, ViewTypes
    <3> QED BY <2>3, <3>1
  <2>5. phase' = "exit"
    BY <1>1, <1>5, <2>1 DEF ResultAt
  <2> QED BY <2>2, <2>4, <2>5 DEF ResultAt
<1>10. r - 1 \in 1..(Len(pipe') + 1)
  BY <1>2, <1>5, <1>6, ViewTypes
<1> QED BY <1>1, <1>6, <1>8, <1>9, <1>10 DEF PipeInv

\* The result line is read: what came before it has been persisted.
LEMMA ReadResult ==
    ASSUME PipelineInv, ReadLine, Head(pipe) = ResultLine
    PROVE  /\ PipeInv' /\ phase = "exit" /\ Complete(Types(events), verdict)
           /\ \A i \in 1..Len(pipe') : pipe'[i].type # "ERROR"
<1>0. PipeInv /\ process # "hosted" /\ reader # "ended" /\ line = NoLine
  BY ViewTypes DEF PipelineInv, ReadLine, ModeInv, ReaderInv
<1>1. /\ UNCHANGED <<events, seq, phase, verdict, failed, process, line>>
      /\ pipe # <<>> /\ pipe' = Tail(pipe)
  BY ViewTypes, ReadLineCases DEF Persisting, agentVars
<1>2. /\ Len(pipe') = Len(pipe) - 1 /\ Len(pipe) >= 1
      /\ \A i \in 1..(Len(pipe) - 1) : pipe'[i] = pipe[i + 1]
  BY <1>1, ViewTypes, Tails
<1>3. UNCHANGED <<Base, Seen>> /\ Seen = Types(events)
  BY <1>0, <1>1 DEF Base, Seen
<1>4. PICK r \in 1..(Len(pipe) + 1) : PipeOK(pipe, Base, seq, r) /\ ResultAt(r)
  BY <1>0 DEF PipeInv
<1>5. r = 1 /\ PipeOK(pipe', Base', seq', Len(pipe') + 1)
  BY <1>1, <1>3, <1>4, ViewTypes, ResultRead
<1>6. /\ phase = "exit" /\ Complete(Seen \cup TypesBefore(pipe, 1), verdict)
      /\ \A i \in 1..Len(pipe) : i > 1 => pipe[i].type # "ERROR"
  BY <1>2, <1>4, <1>5, ViewTypes DEF ResultAt
<1>7. TypesBefore(pipe, 1) = {}
  BY DEF TypesBefore
<1>8. ASSUME NEW i \in 1..Len(pipe') PROVE pipe'[i].type # "ERROR"
  <2>1. i + 1 \in 1..Len(pipe) /\ i + 1 > 1 /\ pipe'[i] = pipe[i + 1]
    BY <1>2, ViewTypes
  <2> QED BY <1>6, <2>1
<1>9. PICK m \in Nat : m = Len(pipe') + 1
  BY <1>2, ViewTypes
<1>10. m \in 1..(Len(pipe') + 1) /\ PipeOK(pipe', Base', seq', m) /\ ResultAt(m)'
  <2>1. m \in 1..(Len(pipe') + 1) /\ ~(m <= Len(pipe'))
    BY <1>2, <1>9, ViewTypes
  <2> QED BY <1>5, <1>9, <2>1 DEF ResultAt
<1>11. PipeInv'
  BY <1>0, <1>1, <1>6, <1>10 DEF PipeInv, Emission
<1> QED BY <1>3, <1>6, <1>7, <1>8, <1>11

LEMMA AppendPipe ==
    ASSUME PipelineInv, AppendEvent PROVE PipeInv'
<1>0. PipeInv /\ process # "hosted" /\ reader = "append"
  BY DEF PipelineInv, AppendEvent
<1>1. UNCHANGED <<pipe, seq, phase, verdict, failed, process>> /\ line' = NoLine /\ InsertEvent
  BY DEF AppendEvent, agentVars, transportVars
<1>2. /\ Len(events') = Len(events) + 1 /\ Len(events) \in Nat /\ line # NoLine
      /\ Types(events') = Types(events) \cup {line.type}
  BY <1>0, <1>1, Appended, LineIsEvent, ViewTypes
<1>3. UNCHANGED <<Base, Seen>>
  BY <1>1, <1>2 DEF Base, Seen
<1> QED BY <1>0, <1>1, <1>3 DEF PipeInv, Emission, ResultAt

LEMMA PipeInvStep ==
    ASSUME PipelineInv, Next PROVE PipeInv'
<1> SUFFICES ASSUME process' # "hosted", reader' # "ended" PROVE PipeInv'
  BY DEF PipeInv
<1>0. PipeInv
  BY DEF PipelineInv
<1>1. process # "hosted"
  BY ViewTypes, StepCases DEF ModeInv, Rest, transportVars, WriteEvent, WriteResult, ProcessExits,
     ReadLine, ReadEnds, StoreArtifact, RecordArtifact, RenewLease, AppendEvent, PersistRaises,
     HostSink, HostAppend, HostRaises, DeadlinePassed, StartRefused, Launch, HostLaunch,
     HostReturns, ProcessEnded, Deadline, CloseStreams, Joined, JoinTimesOut, CompleteAttempt, Lose
<1>2. CASE UNCHANGED <<view, reader>>
  BY <1>0, <1>1, <1>2, SameView
<1>3. CASE AgentStep /\ UNCHANGED Rest
  BY <1>1, <1>3, AgentPipe
<1>4. ASSUME NEW t \in Threads, WriteEvent(t) PROVE PipeInv'
  BY <1>4, WriteEventPipe DEF WriteEvent, readerVars
<1>5. CASE WriteResult
  BY <1>5, WriteResultPipe DEF WriteResult, readerVars
<1>6. CASE ReadLine
  BY <1>6, ReadEventPipe, ReadResult
<1>7. CASE StoreArtifact \/ RecordArtifact \/ RenewLease
  <2>1. UNCHANGED view /\ reader # "ended"
    BY <1>7 DEF StoreArtifact, RecordArtifact, RenewLease, view, agentVars, transportVars
  <2> QED BY <1>0, <1>1, <2>1, SameView
<1>8. CASE AppendEvent
  BY <1>8, AppendPipe
<1>9. \/ UNCHANGED <<view, reader>> \/ (AgentStep /\ UNCHANGED Rest)
      \/ (\E t \in Threads : WriteEvent(t)) \/ WriteResult \/ ReadLine
      \/ StoreArtifact \/ RecordArtifact \/ RenewLease \/ AppendEvent
  <2>1. ASSUME NEW t \in Threads, EmitBegin(t), UNCHANGED Rest PROVE UNCHANGED <<view, reader>>
    BY <2>1 DEF EmitBegin, Rest, view, transportVars, readerVars
  <2>2. ASSUME ProcessExits \/ ProcessEnded \/ Deadline \/ CloseStreams \/ CompleteAttempt \/ Lose
        PROVE  UNCHANGED <<view, reader>>
    BY <2>2 DEF view, agentVars, transportVars, readerVars, ProcessExits, ProcessEnded, Deadline,
       CloseStreams, CompleteAttempt, Lose
  <2>3. ASSUME \/ DeadlinePassed \/ StartRefused \/ Launch \/ HostLaunch \/ HostReturns
               \/ Joined \/ JoinTimesOut
        PROVE  UNCHANGED <<view, reader>>
    BY <2>3 DEF view, agentVars, transportVars, readerVars, DeadlinePassed, StartRefused, Launch,
       HostLaunch, HostReturns, Joined, JoinTimesOut
  <2>4. ~ReadEnds /\ ~PersistRaises /\ ~HostSink /\ ~HostAppend /\ ~HostRaises
    BY <1>1 DEF ReadEnds, PersistRaises, HostSink, HostAppend, HostRaises
  <2> QED BY <2>1, <2>2, <2>3, <2>4, StepCases
<1> QED BY <1>2, <1>3, <1>4, <1>5, <1>6, <1>7, <1>8, <1>9

LEMMA ReceivedInvStep ==
    ASSUME PipelineInv, Next PROVE ReceivedInv'
<1>0. ReceivedInv
  BY DEF PipelineInv
<1>1. CASE received = "NONE" /\ received' # "NONE"
  <2>1. ReadLine /\ Head(pipe) = ResultLine
    BY <1>1, StepCases DEF Rest, readerVars, WriteEvent, WriteResult, ProcessExits, ReadLine, ReadEnds,
       StoreArtifact, RecordArtifact, RenewLease, AppendEvent, PersistRaises, HostSink, HostAppend,
       HostRaises, DeadlinePassed, StartRefused, Launch, HostLaunch, HostReturns, ProcessEnded,
       Deadline, CloseStreams, Joined, JoinTimesOut, CompleteAttempt, Lose
  <2>2. received' = verdict /\ UNCHANGED <<reader, line, events, phase>> /\ line = NoLine
    BY <2>1, ViewTypes, ReadLineCases DEF agentVars, ReaderInv
  <2> QED BY <2>1, <2>2, ReadResult DEF ReceivedInv
<1>2. CASE received = "NONE" /\ received' = "NONE"
  BY <1>2 DEF ReceivedInv
<1>3. CASE received # "NONE"
  <2>0. phase = "exit" /\ process # "hosted" /\ Complete(Types(events), received)
    BY <1>0, <1>3, ViewTypes DEF ReceivedInv, ModeInv
  <2>1. CASE UNCHANGED <<received, phase, events, line, pipe>> /\ (reader' # "ended" => reader # "ended")
    BY <1>0, <2>1 DEF ReceivedInv
  <2>2. CASE AgentStep /\ UNCHANGED Rest
    BY <1>0, <2>0, <2>2, ExitIsFinal DEF ReceivedInv, Rest, transportVars, readerVars
  <2>3. ASSUME NEW t \in Threads, WriteEvent(t) PROVE ReceivedInv'
    <3>1. /\ Emitted(t) /\ pipe' = Append(pipe, pending) /\ UNCHANGED <<received, events, line, reader>>
      BY <2>3 DEF WriteEvent, Write, readerVars
    <3>2. pending.type # "ERROR" /\ phase' = "exit" /\ pending \in Lines
      BY <2>0, <3>1, ViewTypes, ExitIsQuiet, EmittedKeeps DEF Lines
    <3>3. Len(pipe') = Len(pipe) + 1 /\ pipe'[Len(pipe) + 1] = pending /\ \A i \in 1..Len(pipe) : pipe'[i] = pipe[i]
      BY <3>1, <3>2, ViewTypes
    <3>4. reader # "ended" => \A i \in 1..Len(pipe') : pipe'[i].type # "ERROR"
      BY <1>0, <1>3, <3>2, <3>3, ViewTypes DEF ReceivedInv
    <3> QED BY <1>0, <1>3, <3>1, <3>2, <3>4 DEF ReceivedInv
  <2>4. CASE ReadLine
    <3>1. CASE Head(pipe) = ResultLine
      <4>1. received' = verdict /\ UNCHANGED <<reader, line, events, phase>> /\ line = NoLine
        BY <2>4, <3>1, ViewTypes, ReadLineCases DEF agentVars, ReaderInv
      <4> QED BY <2>4, <3>1, <4>1, ReadResult DEF ReceivedInv
    <3>2. CASE Head(pipe) # ResultLine
      <4>1. /\ received' = received /\ UNCHANGED <<events, phase>> /\ reader # "ended"
            /\ line' = Head(pipe) /\ pipe' = Tail(pipe) /\ pipe # <<>>
        BY <2>4, <3>2, ViewTypes, ReadLineCases DEF agentVars, Persisting
      <4>2. /\ Len(pipe') = Len(pipe) - 1 /\ Len(pipe) >= 1 /\ Head(pipe) = pipe[1]
            /\ \A i \in 1..(Len(pipe) - 1) : pipe'[i] = pipe[i + 1]
        BY <4>1, ViewTypes, Tails
      <4>3. \A i \in 1..Len(pipe) : pipe[i].type # "ERROR"
        BY <1>0, <1>3, <4>1 DEF ReceivedInv
      <4>4. line'.type # "ERROR"
        BY <4>1, <4>2, <4>3, ViewTypes
      <4>5. ASSUME NEW i \in 1..Len(pipe') PROVE pipe'[i].type # "ERROR"
        <5>1. i + 1 \in 1..Len(pipe) /\ pipe'[i] = pipe[i + 1]
          BY <4>2, ViewTypes
        <5> QED BY <4>3, <5>1
      <4> QED BY <2>0, <4>1, <4>4, <4>5 DEF ReceivedInv
    <3> QED BY <3>1, <3>2
  <2>5. CASE AppendEvent
    <3>1. /\ reader = "append" /\ InsertEvent /\ line # NoLine /\ line' = NoLine
          /\ UNCHANGED <<received, phase, pipe>>
      BY <2>5, LineIsEvent, ViewTypes DEF AppendEvent, agentVars, transportVars
    <3>2. Types(events') = Types(events) \cup {line.type} /\ line.type # "ERROR"
      BY <1>0, <1>3, <3>1, Appended DEF ReceivedInv
    <3> QED BY <1>0, <1>3, <2>0, <3>1, <3>2 DEF ReceivedInv, Complete
  <2>6. \/ UNCHANGED <<received, phase, events, line, pipe>> /\ (reader' # "ended" => reader # "ended")
        \/ (AgentStep /\ UNCHANGED Rest) \/ (\E t \in Threads : WriteEvent(t))
        \/ ReadLine \/ AppendEvent \/ PersistRaises
    BY <2>0, StepCases DEF agentVars, Rest, transportVars, readerVars, EmitBegin, WriteResult,
       ProcessExits, ReadEnds, StoreArtifact, RecordArtifact, RenewLease, HostSink,
       HostAppend, HostRaises, DeadlinePassed, StartRefused, Launch, HostLaunch, HostReturns,
       ProcessEnded, Deadline, CloseStreams, Joined, JoinTimesOut, CompleteAttempt, Lose
  <2>7. CASE PersistRaises
    BY <2>0, <2>7 DEF PersistRaises, agentVars, transportVars, ReceivedInv
  <2> QED BY <2>1, <2>2, <2>3, <2>4, <2>5, <2>6, <2>7
<1> QED BY <1>1, <1>2, <1>3

-----------------------------------------------------------------------------
LEMMA PipelineInit == Init => PipelineInv
<1> SUFFICES ASSUME Init PROVE PipelineInv
  OBVIOUS
<1>1. TypeOK
  <2>1. AgentTypeOK
    BY DEF Init, AgentInit, AgentTypeOK, Phases, After
  <2>2. TransportType
    <3>1. pipe \in Seq(Lines) /\ Len(pipe) = 0
      BY DEF Init
    <3>2. 0 <= PipeLines
      BY PipelineAssumption
    <3>3. Len(pipe) <= PipeLines
      BY <3>1, <3>2
    <3>4. process = "none" /\ exitCode = 0 /\ closed = FALSE
      BY Zenon DEF Init
    <3>5. exitCode \in 0..1
      BY <3>4, SMT
    <3> QED BY <3>1, <3>3, <3>4, <3>5, Zenon DEF TransportType
  <2>3. ReaderType
    <3>1. events \in Seq(Events)
      BY DEF Init
    <3> QED BY <3>1 DEF Init, ReaderType
  <2>4. ClientType /\ AttemptType
    BY DEF Init, ClientType, AttemptType
  <2> QED BY <2>1, <2>2, <2>3, <2>4, TypeParts
<1>2. AgentInv /\ ReaderInv /\ ModeInv /\ OutcomeInv
  BY AgentAssumption DEF Init, AgentInit, AgentInv, ReaderInv, ModeInv, OutcomeInv
<1>3. Types(events) = {} /\ Seen = {} /\ Base = 0 /\ Len(pipe) = 0 /\ TypesBefore(pipe, 1) = {}
  BY DEF Init, Types, Seen, Base, TypesBefore
<1>4. PipeOK(pipe, Base, seq, 1) /\ ResultAt(1)
  BY <1>3 DEF Init, AgentInit, PipeOK, ResultAt
<1>5. Emission
  BY <1>3 DEF Init, AgentInit, Emission, Progress, Working
<1>6. PipeInv
  BY <1>3, <1>4, <1>5 DEF Init, PipeInv
<1>7. ReceivedInv /\ HostInv /\ EventsInOrder /\ ArtifactsAreBacked
  BY DEF Init, ReceivedInv, HostInv, EventsInOrder, ArtifactsAreBacked
<1> QED BY <1>1, <1>2, <1>6, <1>7 DEF PipelineInv

LEMMA PipelineStep == PipelineInv /\ [Next]_vars => PipelineInv'
<1> SUFFICES ASSUME PipelineInv, [Next]_vars PROVE PipelineInv'
  OBVIOUS
<1>1. CASE Next
  <2>1. TypeOK' /\ AgentInv' /\ ReaderInv' /\ ModeInv' /\ OutcomeInv' /\ ArtifactsAreBacked'
    BY <1>1, TypeStep, AgentInvStep, ReaderInvStep, ModeInvStep, OutcomeInvStep, ArtifactsStep
       DEF PipelineInv
  <2>2. PipeInv' /\ ReceivedInv' /\ HostInv' /\ EventsInOrder'
    BY <1>1, PipeInvStep, ReceivedInvStep, HostInvStep, OrderStep
  <2> QED BY <2>1, <2>2 DEF PipelineInv
<1>2. CASE UNCHANGED vars
  <2>1. UNCHANGED <<agentVars, transportVars, readerVars, clientVars, attempt>>
    BY <1>2 DEF vars
  <2>2. TypeOK'
    <3>1. (AgentTypeOK /\ TransportType /\ ReaderType /\ ClientType /\ AttemptType => TypeOK)'
      BY TypeParts, PTL
    <3> QED BY <2>1, <3>1, TypeParts, SameTypes DEF PipelineInv
  <2>3. AgentInv' /\ ReaderInv' /\ ModeInv' /\ OutcomeInv' /\ ArtifactsAreBacked'
    BY <2>1 DEF PipelineInv, AgentInv, ReaderInv, ModeInv, OutcomeInv, ArtifactsAreBacked,
       agentVars, transportVars, readerVars, clientVars
  <2>4. PipeInv' /\ ReceivedInv' /\ HostInv' /\ EventsInOrder'
    BY <2>1 DEF PipelineInv, PipeInv, Emission, ResultAt, Base, Seen, ReceivedInv, HostInv,
       EventsInOrder, agentVars, transportVars, readerVars
  <2> QED BY <2>2, <2>3, <2>4 DEF PipelineInv
<1> QED BY <1>1, <1>2

LEMMA PipelineInvariant == Spec => []PipelineInv
BY PipelineInit, PipelineStep, PTL DEF Spec

\* Whatever the reader, the sink, the store or the container fails at, the events
\* of an attempt are numbered without a gap, and an artifact event has its row and
\* its file.
THEOREM RecordStaysConsistent == Spec => []RecordIsConsistent
<1>1. PipelineInv => RecordIsConsistent
  BY DEF PipelineInv, RecordIsConsistent
<1> QED BY <1>1, PipelineInvariant, PTL

\* The agent's verdict is reported only with the whole record persisted.
THEOREM ReportsAreComplete == Spec => []ReportedResultIsComplete
<1>1. PipelineInv => ReportedResultIsComplete
  <2> SUFFICES ASSUME PipelineInv, reported PROVE Complete(Types(events), outcome)
    BY DEF ReportedResultIsComplete, Complete, Types
  <2>1. CASE process = "hosted"
    BY <2>1 DEF PipelineInv, OutcomeInv, HostInv, Progress, AgentInv
  <2>2. CASE process # "hosted"
    BY <2>2 DEF PipelineInv, OutcomeInv, ReceivedInv
  <2> QED BY <2>1, <2>2
<1> QED BY <1>1, PipelineInvariant, PTL

\* Once the container's verdict has been reported its reader has ended, so that
\* nothing is appended any more.
THEOREM ReportsAreFinal == Spec => NoEventAfterReport
<1>1. PipelineInv /\ [Next]_vars => [reported /\ process # "hosted" => UNCHANGED events]_vars
  <2> SUFFICES ASSUME PipelineInv, Next, reported, process # "hosted" PROVE UNCHANGED events
    OBVIOUS
  <2>1. reader = "ended"
    BY DEF PipelineInv, OutcomeInv
  <2> QED BY <2>1, EventsStep
<1> QED BY <1>1, PipelineInvariant, PTL DEF Spec, NoEventAfterReport
=============================================================================
