------------------------ MODULE MCCeleryOrchestration ------------------------
(* Model values and bounds for TLC runs of CeleryOrchestration. *)
EXTENDS CeleryOrchestration

CONSTANTS w1, w2, api, t1

OneRun == 1..1
TwoManagers == {w1, w2}
TwoManagersAndApi == {w1, w2, api}
OneTaskWorker == {t1}
RetryInfra == {"INFRA_ERROR"}
SuccessOrInfra == {"SUCCEEDED", "INFRA_ERROR"}
=============================================================================
