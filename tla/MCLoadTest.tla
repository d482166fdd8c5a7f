----------------------------- MODULE MCLoadTest -----------------------------
(* Model values and bounds for TLC runs of LoadTest. *)
EXTENDS LoadTest

CONSTANTS t1, t2

TwoThreads == {t1, t2}
ScenariosAndRequests ==
    {[mode |-> "COUNT", traffic |-> "SCENARIO", stop |-> TRUE],
     [mode |-> "DURATION", traffic |-> "REQUESTS", stop |-> FALSE]}
=============================================================================
