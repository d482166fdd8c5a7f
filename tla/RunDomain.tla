------------------------------ MODULE RunDomain ------------------------------
(***************************************************************************)
(* The run and attempt state machines of services/api/domain.py: the       *)
(* states, the terminal and leased subsets, and the transition tables that *)
(* every repository operation consults before it writes a state.           *)
(***************************************************************************)

RUN_TERMINAL == {"SUCCEEDED", "FAILED", "CANCELLED", "TIMED_OUT", "INFRA_ERROR"}

RunState ==
    {"CREATED", "QUEUED", "DISPATCHING", "RUNNING", "RETRY_WAIT", "CANCELLING"}
        \cup RUN_TERMINAL

ATTEMPT_TERMINAL == RUN_TERMINAL \cup {"LOST"}

\* States in which an attempt holds a lease the reaper may expire.
ATTEMPT_LEASED == {"CLAIMED", "PREPARING", "RUNNING", "COLLECTING"}

AttemptState == {"PENDING"} \cup ATTEMPT_LEASED \cup ATTEMPT_TERMINAL

RUN_TRANSITIONS(state) ==
    CASE state = "CREATED"     -> {"QUEUED", "CANCELLING"}
      [] state = "QUEUED"      -> {"DISPATCHING", "CANCELLING", "FAILED",
                                   "TIMED_OUT", "INFRA_ERROR"}
      [] state = "DISPATCHING" -> {"RUNNING", "CANCELLING", "FAILED",
                                   "TIMED_OUT", "INFRA_ERROR"}
      [] state = "RUNNING"     -> {"CANCELLING", "SUCCEEDED", "FAILED",
                                   "TIMED_OUT", "INFRA_ERROR", "RETRY_WAIT"}
      [] state = "RETRY_WAIT"  -> {"QUEUED", "CANCELLING", "INFRA_ERROR"}
      [] state = "CANCELLING"  -> {"CANCELLED", "FAILED", "TIMED_OUT", "INFRA_ERROR"}
      [] OTHER                 -> {}

ATTEMPT_TRANSITIONS(state) ==
    CASE state = "PENDING"    -> {"CLAIMED", "CANCELLED"}
      [] state = "CLAIMED"    -> {"PREPARING", "CANCELLED", "INFRA_ERROR", "LOST"}
      [] state = "PREPARING"  -> {"RUNNING", "CANCELLED", "INFRA_ERROR", "LOST"}
      [] state = "RUNNING"    -> {"COLLECTING", "CANCELLED", "FAILED", "TIMED_OUT",
                                  "INFRA_ERROR", "LOST"}
      [] state = "COLLECTING" -> ATTEMPT_TERMINAL
      [] OTHER                -> {}
=============================================================================
