---------------------------- MODULE MCApiServer ----------------------------
(* Workloads for the TLC runs of ApiServer. *)
EXTENDS ApiServer

ParameterWork == {"createEnum", "updateEnum", "deleteEnum", "parameters", "scriptLink"}
ConnectorWork == {"createConnector", "updateConnector", "setEnabled", "deleteConnector", "testConnector"}
LinkWork == {"scriptLink", "traceLink", "updateAsset"}
SessionWork == {"setup", "login", "logout", "updateAsset"}

EventWork == {"events"}

AllWork == {ParameterWork, ConnectorWork, LinkWork, SessionWork, EventWork}
=============================================================================
