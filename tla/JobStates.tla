----------------------------- MODULE JobStates -----------------------------
(***************************************************************************)
(* The states of a generation job of APPDEVELOPER and the transition table *)
(* of domain/transitions.py.  Unlike the table of the planning backend     *)
(* this one is enforced: JobService._update_state consults it before every *)
(* write, though on a state it has read in an earlier transaction.         *)
(***************************************************************************)

EndState == {"CANCELLED", "FAILED", "REVIEW_FAILED", "PUSH_FAILED"}

JobState == EndState \cup
    {"CREATED", "ARCHITECTURE_PROPOSED", "AWAITING_ANSWERS",
     "READY_TO_GENERATE", "GENERATING", "REVIEWING", "DEBUGGING", "VERIFIED",
     "AWAITING_PUSH_DECISION", "AWAITING_GITHUB_TOKEN", "PUSHING", "PUSHED"}

\* VALID_TRANSITIONS without CANCELLED, which every state that has a target
\* at all may become.
JobTargets == [
    CREATED                |-> {"ARCHITECTURE_PROPOSED", "FAILED"},
    ARCHITECTURE_PROPOSED  |-> {"AWAITING_ANSWERS", "READY_TO_GENERATE"},
    AWAITING_ANSWERS       |-> {"ARCHITECTURE_PROPOSED", "READY_TO_GENERATE"},
    READY_TO_GENERATE      |-> {"GENERATING"},
    GENERATING             |-> {"REVIEWING", "FAILED"},
    REVIEWING              |-> {"DEBUGGING", "VERIFIED", "REVIEW_FAILED"},
    DEBUGGING              |-> {"REVIEWING", "VERIFIED", "REVIEW_FAILED"},
    VERIFIED               |-> {"AWAITING_PUSH_DECISION"},
    AWAITING_PUSH_DECISION |-> {"AWAITING_GITHUB_TOKEN"},
    AWAITING_GITHUB_TOKEN  |-> {"PUSHING"},
    PUSHING                |-> {"PUSHED", "PUSH_FAILED"}]

\* The states cancel() refuses: EndState and PUSHED, which have no target.
Closed == JobState \ DOMAIN JobTargets

\* is_valid_transition
JobTransition(current, target) ==
    /\ current \notin Closed
    /\ target = "CANCELLED" \/ target \in JobTargets[current]
=============================================================================
