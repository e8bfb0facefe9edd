---------------------------- MODULE SessionStates ----------------------------
(***************************************************************************)
(* The vocabulary of the planning backend: the states of a planning        *)
(* session, the routes a plan can be handed to, and the transition table   *)
(* that domain/enums.py declares.                                          *)
(*                                                                         *)
(* The table is the repository's statement of what a session may do.  No   *)
(* service calls validate_transition or enforce_transition: every handler  *)
(* writes the state it wants through SessionRepository.update_state, so    *)
(* the table is a specification here, never a guard.                       *)
(***************************************************************************)

SessionState == {"DISCOVERING", "AWAITING_ANSWERS", "AWAITING_APPROVAL",
                 "HANDOFF_QUEUED", "HANDOFF_FAILED", "HANDED_OFF",
                 "FAILED", "CANCELLED"}

Route == {"APPDEVELOPER", "LLMDEPLOYER", "AMBIGUOUS"}

\* The routes some downstream service answers; _deliver_entry raises on others.
DeliverableRoute == {"APPDEVELOPER", "LLMDEPLOYER"}

\* VALID_TRANSITIONS, from a state to the set of states it may become.
ValidTargets == [
    DISCOVERING       |-> {"AWAITING_ANSWERS", "AWAITING_APPROVAL", "FAILED", "CANCELLED"},
    AWAITING_ANSWERS  |-> {"DISCOVERING", "CANCELLED"},
    AWAITING_APPROVAL |-> {"DISCOVERING", "HANDOFF_QUEUED", "CANCELLED"},
    HANDOFF_QUEUED    |-> {"HANDED_OFF", "HANDOFF_FAILED", "CANCELLED"},
    HANDOFF_FAILED    |-> {"HANDOFF_QUEUED", "CANCELLED"},
    HANDED_OFF        |-> {},
    FAILED            |-> {"DISCOVERING", "CANCELLED"},
    CANCELLED         |-> {}]

ValidTransition(current, target) == target \in ValidTargets[current]

\* How a state is left by several transitions committed as one: add_turn and
\* submit_answers go through DISCOVERING and on to the planner's judgement in a
\* single transaction, so a reader of the table sees the composition.
ValidChange(current, target) ==
    \/ current = target
    \/ ValidTransition(current, target)
    \/ /\ ValidTransition(current, "DISCOVERING")
       /\ ValidTransition("DISCOVERING", target)
=============================================================================
