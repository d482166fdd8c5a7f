--------------------------- MODULE MCEventPipeline ---------------------------
(* Model values and bounds for TLC runs of EventPipeline. *)
EXTENDS EventPipeline

TwoStreams == {"stdout", "stderr"}
SuccessOrInfra == {"SUCCEEDED", "INFRA_ERROR"}
=============================================================================
