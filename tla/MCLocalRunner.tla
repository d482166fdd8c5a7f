---------------------------- MODULE MCLocalRunner ----------------------------
(* Model values and bounds for TLC runs of LocalRunner. *)
EXTENDS LocalRunner, TLC

CONSTANTS w1, w2, api

OneRun == 1..1
TwoRuns == 1..2
OneWorker == {w1}
TwoWorkers == {w1, w2}
OneWorkerAndApi == {w1, api}
TwoWorkersAndApi == {w1, w2, api}
RetryInfra == {"INFRA_ERROR"}
NoRuns == {}
AllResults == Result \ {"NONE"}
SuccessInfraIdentity == {"SUCCEEDED", "INFRA_ERROR", "IDENTITY_ERROR"}
=============================================================================
