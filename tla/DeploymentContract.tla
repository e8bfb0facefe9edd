------------------------- MODULE DeploymentContract -------------------------
(***************************************************************************)
(* What LLMDEPLOYER promises to someone who looks at a session whenever    *)
(* nothing works on it: it has ended if answers were ever submitted, in    *)
(* the one way that its status and its last message both tell, its sandbox *)
(* is gone, and all of this stays until answers are submitted again.       *)
(* Answers submitted during the work are accepted, and then messages and   *)
(* sandboxes are promised no more.                                         *)
(***************************************************************************)
CONSTANT Sessions

VARIABLES
    shown,           \* of each session: what it is at, or how it ended
    told,            \* the end that its messages tell of
    held,            \* the sessions that have a sandbox
    overlapped       \* the sessions that had answers submitted during the work

vars == <<shown, told, held, overlapped>>

Nothing == "NONE"

\* The messages tell of an end what the status does.
Tells(message, end) == message = "complete" <=> end = "completed"

Init ==
    /\ shown = [s \in Sessions |-> "absent"]
    /\ told = [s \in Sessions |-> Nothing]
    /\ held = {}
    /\ overlapped = {}

Create(s) ==
    /\ shown[s] = "absent"
    /\ shown' = [shown EXCEPT ![s] = "created"]
    /\ UNCHANGED <<told, held, overlapped>>

Submit(s) ==
    /\ shown[s] # "absent"
    /\ shown' = [shown EXCEPT ![s] = "working"]
    /\ told' = [told EXCEPT ![s] = Nothing]
    /\ overlapped' = IF shown[s] = "working" THEN overlapped \cup {s} ELSE overlapped
    /\ UNCHANGED held

Provide(s) ==
    /\ shown[s] = "working"
    /\ held' = held \cup {s}
    /\ UNCHANGED <<shown, told, overlapped>>

\* A sandbox is deleted before the end only if two orchestrations have it.
Lose(s) ==
    /\ shown[s] = "working" /\ s \in overlapped
    /\ held' = held \ {s}
    /\ UNCHANGED <<shown, told, overlapped>>

End(s) ==
    /\ shown[s] = "working"
    /\ \E end \in {"completed", "failed"}, message \in {Nothing, "complete", "error"} :
          /\ s \notin overlapped => Tells(message, end)
          /\ shown' = [shown EXCEPT ![s] = end]
          /\ told' = [told EXCEPT ![s] = message]
    /\ \/ held' = held \ {s}
       \/ held' = held /\ s \in overlapped
    /\ UNCHANGED overlapped

Next ==
    \E s \in Sessions : Create(s) \/ Submit(s) \/ Provide(s) \/ Lose(s) \/ End(s)

Spec == Init /\ [][Next]_vars
=============================================================================
