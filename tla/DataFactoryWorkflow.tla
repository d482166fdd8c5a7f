------------------------- MODULE DataFactoryWorkflow -------------------------
(***************************************************************************)
(* A data factory workflow from its validation (data_factory_domain.py)    *)
(* over its execution in waves of threads (data_factory_executor.py) to    *)
(* the run that is stored for it (data_factory_routes.py,                  *)
(* data_factory_sql_repository.py), while somebody may delete it.  Nodes   *)
(* are numbered in the order of their declaration; the variables a run     *)
(* works on are one variable, which a node may extract, and its value is   *)
(* the node that wrote it.                                                 *)
(***************************************************************************)
EXTENDS Naturals, FiniteSets

CONSTANTS
    NodeCount,
    Graphs,           \* records [type, edges, limit]: see GraphAssumption
    MaxConcurrency    \* of the executor (20)

Nodes == 1..NodeCount
Types == {"http", "condition", "parallel"}
Outcomes == {"always", "success", "failure", "true", "false"}

ASSUME GraphAssumption ==
    /\ NodeCount \in Nat \ {0} /\ MaxConcurrency \in Nat \ {0}
    /\ \A g \in Graphs : /\ g.type \in [Nodes -> Types]
                         /\ g.edges \subseteq Nodes \X Nodes \X Outcomes
                         /\ g.limit \in Nat \ {0}

VARIABLES
    graph,
    phase,
    status,      \* per node
    branch,      \* outcome of a condition: "true", "false" or "none"
    wrote,       \* nodes that extracted the variable
    context,     \* the node whose value the variable has, 0 at first
    ready,       \* nodes of the current wave
    seen,        \* per node: the value it was executed with
    wave,        \* per node: its wave (for the properties only)
    waves,       \* waves so far (for the properties only)
    stored,      \* the workflow is in its table
    runs         \* runs stored for it

workflowVars == <<graph, phase, status, branch, wrote, context, ready, seen, wave, waves, stored, runs>>

WorkflowInit ==
    /\ graph \in Graphs /\ phase = "new"
    /\ status = [n \in Nodes |-> "pending"] /\ branch = [n \in Nodes |-> "none"]
    /\ wrote = {} /\ context = 0 /\ ready = {}
    /\ seen = [n \in Nodes |-> 0] /\ wave = [n \in Nodes |-> 0] /\ waves = 0
    /\ stored = TRUE /\ runs = 0

-----------------------------------------------------------------------------
(* validate_workflow_graph                                                 *)

Incoming(g, n) == {e \in g.edges : e[2] = n}

Compatible(type) ==
    CASE type = "http" -> {"always", "success", "failure"}
      [] type = "condition" -> {"always", "true", "false"}
      [] type = "parallel" -> {"always"}

\* Mutant: a node is visited as soon as one of its sources is.
VisitedEarly(g) ==
    LET visited[k \in 0..NodeCount] ==
        IF k = 0 THEN {n \in Nodes : Incoming(g, n) = {}}
        ELSE visited[k - 1] \cup
             {n \in Nodes : \E e \in Incoming(g, n) : e[1] \in visited[k - 1]}
    IN visited[NodeCount]

\* The nodes the ready list reaches: a node enters it when the last of its
\* incoming edges has been counted down.
Visited(g) ==
    LET visited[k \in 0..NodeCount] ==
        IF k = 0 THEN {n \in Nodes : Incoming(g, n) = {}}
        ELSE visited[k - 1] \cup
             {n \in Nodes : \A e \in Incoming(g, n) : e[1] \in visited[k - 1]}
    IN visited[NodeCount]

ValidGraph(g) ==
    /\ \A e \in g.edges : e[3] \in Compatible(g.type[e[1]])
    /\ \E n \in Nodes : Incoming(g, n) = {}
    /\ Visited(g) = Nodes

Validate ==
    /\ phase = "new"
    /\ phase' = IF ValidGraph(graph) THEN "schedule" ELSE "invalid"
    /\ UNCHANGED <<graph, status, branch, wrote, context, ready, seen, wave, waves, stored, runs>>

-----------------------------------------------------------------------------
(* DataFactoryExecutor._run_graph                                          *)

\* _edge_active
EdgeActive(e, states) ==
    /\ states[e[1]] # "SKIPPED"
    /\ CASE e[3] = "always" -> TRUE
         [] e[3] = "success" -> states[e[1]] = "SUCCEEDED"
         [] e[3] = "failure" -> states[e[1]] = "FAILED"
         [] e[3] \in {"true", "false"} -> branch[e[1]] = e[3]

Decided(states, n) == states[n] \in {"SUCCEEDED", "FAILED", "SKIPPED"}
SourcesDecided(states, n) == \A e \in Incoming(graph, n) : Decided(states, e[1])
Reached(states, n) == \E e \in Incoming(graph, n) : EdgeActive(e, states)

\* Mutant: a node that one of its edges does not lead to is skipped.
SkippedUnlessAll ==
    LET pass[k \in 0..NodeCount] ==
        IF k = 0 THEN status
        ELSE [n \in Nodes |->
                IF /\ pass[k - 1][n] = "pending" /\ SourcesDecided(pass[k - 1], n)
                   /\ \E e \in Incoming(graph, n) : ~EdgeActive(e, pass[k - 1])
                THEN "SKIPPED" ELSE pass[k - 1][n]]
    IN pass[NodeCount]

\* The inner loop: skip what cannot be reached, until nothing changes.
Skipped ==
    LET pass[k \in 0..NodeCount] ==
        IF k = 0 THEN status
        ELSE [n \in Nodes |->
                IF /\ pass[k - 1][n] = "pending" /\ Incoming(graph, n) # {}
                   /\ SourcesDecided(pass[k - 1], n) /\ ~Reached(pass[k - 1], n)
                THEN "SKIPPED" ELSE pass[k - 1][n]]
    IN pass[NodeCount]

ReadyNodes(states) ==
    {n \in Nodes : /\ states[n] = "pending"
                   /\ \/ Incoming(graph, n) = {}
                      \/ SourcesDecided(states, n) /\ Reached(states, n)}

\* while pending: the next wave.  Where the pass over the unreachable nodes has
\* settled all that were left, nothing is ready either, and _run_graph raises
\* "workflow scheduling could not make progress".
Schedule ==
    /\ phase = "schedule" /\ \E n \in Nodes : status[n] = "pending"
    /\ status' = Skipped
    /\ ready' = ReadyNodes(Skipped)
    /\ phase' = IF ready' = {} THEN "stuck" ELSE "wave"
    /\ waves' = waves + 1
    /\ UNCHANGED <<graph, branch, wrote, context, seen, wave, stored, runs>>

\* The loop ends behind a wave that leaves nothing pending.
EndGraph ==
    /\ phase = "schedule" /\ \A n \in Nodes : status[n] # "pending"
    /\ phase' = "save"
    /\ UNCHANGED <<graph, status, branch, wrote, context, ready, seen, wave, waves, stored, runs>>

Smallest(S) == CHOOSE x \in S : \A y \in S : x <= y

\* _wave_limit: the pool's size, that of the wave, and the limit of every
\* parallel node that leads to it.
WaveLimit ==
    Smallest({MaxConcurrency, Cardinality(ready)} \cup
          {graph.limit : e \in {x \in graph.edges : /\ x[2] \in ready
                                                    /\ graph.type[x[1]] = "parallel"
                                                    /\ EdgeActive(x, status)}})

Running == {n \in Nodes : status[n] = "running"}

\* A thread of the pool takes the next node; it works on the snapshot of the wave.
Start(n) ==
    /\ phase = "wave" /\ n \in ready /\ status[n] = "pending"
    /\ \A m \in ready : m < n => status[m] # "pending"
    /\ Cardinality(Running) < WaveLimit
    /\ status' = [status EXCEPT ![n] = "running"]
    /\ seen' = [seen EXCEPT ![n] = context]
    /\ wave' = [wave EXCEPT ![n] = waves]
    /\ UNCHANGED <<graph, phase, branch, wrote, context, ready, waves, stored, runs>>

\* _execute_node: what an HTTP node, a condition or a parallel node can come to.
\* A response with an unexpected status may still yield extractions.
Outcome(n) ==
    CASE graph.type[n] = "http" ->
            [status : {"SUCCEEDED", "FAILED"}, branch : {"none"}, writes : BOOLEAN]
      [] graph.type[n] = "condition" ->
            [status : {"SUCCEEDED"}, branch : {"true", "false"}, writes : {FALSE}]
            \cup [status : {"FAILED"}, branch : {"none"}, writes : {FALSE}]
      [] graph.type[n] = "parallel" ->
            [status : {"SUCCEEDED"}, branch : {"none"}, writes : {FALSE}]

Finish(n) ==
    /\ phase = "wave" /\ status[n] = "running"
    /\ \E o \in Outcome(n) :
          /\ status' = [status EXCEPT ![n] = o.status]
          /\ branch' = [branch EXCEPT ![n] = o.branch]
          /\ wrote' = IF o.writes THEN wrote \cup {n} ELSE wrote
    /\ UNCHANGED <<graph, phase, context, ready, seen, wave, waves, stored, runs>>

\* Mutant: the node declared first wins.
EndWaveFirst ==
    /\ phase = "wave" /\ \A n \in ready : Decided(status, n)
    /\ context' = IF ready \cap wrote = {} THEN context ELSE Smallest(ready \cap wrote)
    /\ ready' = {} /\ phase' = "schedule"
    /\ UNCHANGED <<graph, status, branch, wrote, seen, wave, waves, stored, runs>>

\* The extractions of the wave are applied in the order of declaration.
EndWave ==
    /\ phase = "wave" /\ \A n \in ready : Decided(status, n)
    /\ context' = IF ready \cap wrote = {} THEN context
                  ELSE CHOOSE n \in ready \cap wrote : \A m \in ready \cap wrote : m <= n
    /\ ready' = {} /\ phase' = "schedule"
    /\ UNCHANGED <<graph, status, branch, wrote, seen, wave, waves, stored, runs>>

\* debug executes one node and stores nothing.
Debug(n) ==
    /\ phase = "new" /\ ValidGraph(graph) /\ phase' = "debugged"
    /\ \E o \in Outcome(n) : status' = [status EXCEPT ![n] = o.status]
    /\ UNCHANGED <<graph, branch, wrote, context, ready, seen, wave, waves, stored, runs>>

-----------------------------------------------------------------------------
(* SqlDataFactoryRepository: the table of runs refers to the workflow.     *)

\* save_run; a workflow that was deleted meanwhile is not found.
SaveRun ==
    /\ phase = "save"
    /\ IF stored THEN phase' = "saved" /\ runs' = runs + 1
       ELSE phase' = "lost" /\ UNCHANGED runs
    /\ UNCHANGED <<graph, status, branch, wrote, context, ready, seen, wave, waves, stored>>

DeleteWorkflow ==
    /\ stored /\ stored' = FALSE /\ runs' = 0
    /\ UNCHANGED <<graph, phase, status, branch, wrote, context, ready, seen, wave, waves>>

-----------------------------------------------------------------------------
Execute ==
    \/ Validate \/ Schedule \/ EndGraph \/ EndWave \/ SaveRun
    \/ \E n \in Nodes : Start(n) \/ Finish(n)

Over == phase \in {"invalid", "stuck", "saved", "lost", "debugged"}
Ended == Over /\ UNCHANGED workflowVars

WorkflowNext == Execute \/ (\E n \in Nodes : Debug(n)) \/ DeleteWorkflow \/ Ended

\* The request's thread and those of its pool run, and HTTP requests time out.
WorkflowSpec == WorkflowInit /\ [][WorkflowNext]_workflowVars /\ WF_workflowVars(Execute)

-----------------------------------------------------------------------------
WorkflowTypeOK ==
    /\ graph \in Graphs
    /\ status \in [Nodes -> {"pending", "running", "SUCCEEDED", "FAILED", "SKIPPED"}]
    /\ branch \in [Nodes -> {"none", "true", "false"}]
    /\ wrote \subseteq Nodes /\ ready \subseteq Nodes
    /\ context \in Nodes \cup {0} /\ waves \in 0..(NodeCount + 1)
    /\ stored \in BOOLEAN /\ runs \in 0..1

\* Every set of nodes has one that no edge of the set enters: no cycle.
Acyclic(g) ==
    \A S \in (SUBSET Nodes) \ {{}} : \E n \in S : \A e \in Incoming(g, n) : e[1] \notin S

\* validate_workflow_graph accepts a graph with fitting outcomes if and only if
\* it has no cycle, self-loops and several edges between two nodes included.
ValidationIsExact ==
    phase # "new" =>
        (phase # "invalid" <=>
            /\ Acyclic(graph)
            /\ \A e \in graph.edges : e[3] \in Compatible(graph.type[e[1]]))

\* What is accepted can be executed: whatever the nodes come to, no node of an
\* accepted workflow stays pending.  The error "workflow scheduling could not
\* make progress" is raised nevertheless, and the results are lost, but only
\* when the last pass has skipped every node that was left.
NothingStaysPending ==
    phase = "stuck" =>
        /\ \A n \in Nodes : status[n] \notin {"pending", "running"}
        /\ \E n \in Nodes : status[n] = "SKIPPED"

\* In the end a node was executed if and only if it is a root or one of its
\* incoming edges was active, however chains of skipped nodes are formed.
ExecutedIfReached ==
    phase \in {"save", "saved", "lost", "stuck"} =>
        \A n \in Nodes :
            status[n] # "SKIPPED" <=>
                Incoming(graph, n) = {} \/ \E e \in Incoming(graph, n) : EdgeActive(e, status)

\* Never more nodes at a time than the executor allows, nor than a parallel node
\* that was executed allows for those that it leads to (the limit of a skipped
\* one does not count, its successors run for the sake of other edges).
WaveIsBounded ==
    /\ Cardinality(Running) <= MaxConcurrency
    /\ \A p \in Nodes :
          graph.type[p] = "parallel" /\ status[p] # "SKIPPED" =>
              Cardinality({n \in Running : \E e \in graph.edges : e[1] = p /\ e[2] = n}) <= graph.limit

\* A node works with what its sources extracted or with something newer, and
\* with nothing a node of its own wave has written: threads of a wave that
\* finish early are invisible to the ones that start late.
UpstreamIsSeen ==
    \A n \in Nodes : wave[n] > 0 =>
        /\ \A e \in Incoming(graph, n) :
              e[1] \in wrote /\ status[e[1]] # "running" => seen[n] # 0 /\ wave[seen[n]] >= wave[e[1]]
        /\ seen[n] # 0 => wave[seen[n]] < wave[n]

\* Between waves the variable has the value of the last wave that wrote it, and
\* within that wave of the node declared last, independent of finish order.
FinishOrderIsInvisible ==
    phase \in {"schedule", "save"} =>
        /\ wrote # {} => context \in wrote
        /\ \A n \in wrote : wave[n] < wave[context] \/ (wave[n] = wave[context] /\ n <= context)

\* A run is stored for an existing workflow only, also when the workflow is
\* deleted while it is executed.
RunsHaveWorkflow == runs > 0 => stored

\* An execution comes to an end.
ExecutionEnds == <>Over

\* validate_workflow_graph draws the line where execution needs it: it accepts
\* the acyclic graphs and no others, and no node of what it accepts is left over.
ValidationDecides == ValidationIsExact /\ NothingStaysPending

\* A wave executes what the edges ask for, within the limits of the executor
\* and of parallel nodes, and the variables a node sees and leaves do not
\* depend on the order in which the threads of a wave finish.
WavesAreDeterministic == WorkflowTypeOK /\ WaveIsBounded /\ UpstreamIsSeen /\ FinishOrderIsInvisible

\* An execution ends with every reached node executed and every other skipped,
\* and is stored only while its workflow exists.
ExecutionIsComplete == [](ExecutedIfReached /\ RunsHaveWorkflow) /\ ExecutionEnds
=============================================================================
