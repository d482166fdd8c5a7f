--------------------------- MODULE RequestThreads ---------------------------
(***************************************************************************)
(* The server threads that run the synchronous route handlers: a request   *)
(* is taken by an idle thread and served in the steps of its handler, each *)
(* step one transaction or one locking statement of a transaction.         *)
(***************************************************************************)
EXTENDS Naturals

CONSTANTS Threads, Nobody,
          Workloads,     \* bound: which operations the requests of a behaviour ask for
          MaxEvents      \* bound: requests received and expiries in a behaviour

ASSUME ServerAssumption == Threads \subseteq Nat /\ Nobody \notin Threads /\ MaxEvents \in Nat

VARIABLES pc, req,       \* where each thread is, and the request it serves
          workload, events

threads == <<pc, req>>
world == <<workload, events>>

NoRequest == [op |-> "none"]

ThreadsInit ==
    /\ pc = [t \in Threads |-> "idle"] /\ req = [t \in Threads |-> NoRequest]
    /\ workload \in Workloads /\ events = 0

\* a request together with what its handler has found out
With(f, g) == [x \in DOMAIN f \cup DOMAIN g |-> IF x \in DOMAIN f THEN f[x] ELSE g[x]]

Goto(t, l) == pc' = [pc EXCEPT ![t] = l]
At(t, op, l) == pc[t] = l /\ req[t].op = op
Return(t) == Goto(t, "idle") /\ req' = [req EXCEPT ![t] = NoRequest]

\* an event of the environment, one of MaxEvents
Happens == events < MaxEvents /\ events' = events + 1 /\ UNCHANGED workload

\* idle threads are interchangeable, so the first one takes a request
Receive(t, request, l) ==
    /\ request.op \in workload
    /\ pc[t] = "idle" /\ \A u \in Threads : u < t => pc[u] # "idle"
    /\ req' = [req EXCEPT ![t] = request]
    /\ Goto(t, l) /\ Happens
=============================================================================
