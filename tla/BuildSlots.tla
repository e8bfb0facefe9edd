----------------------------- MODULE BuildSlots -----------------------------
(***************************************************************************)
(* What APPDEVELOPER promises about builds (README.md:78, "Max concurrent  *)
(* generations"): a bounded number of them at any moment, and never two of *)
(* one job, since they would share its workspace directory and its row.    *)
(***************************************************************************)
EXTENDS Naturals, FiniteSets

CONSTANTS Jobs, Tasks, MaxConcurrent

VARIABLE building    \* the builds under way: who builds which job

Build == [task : Tasks, job : Jobs]

Init == building = {}

Begin(build) ==
    /\ \A other \in building : other.job # build.job /\ other.task # build.task
    /\ Cardinality(building) < MaxConcurrent
    /\ building' = building \cup {build}

End(build) ==
    /\ build \in building
    /\ building' = building \ {build}

\* The process stops and all its builds with it.
Stop == building' = {}

Next ==
    \/ \E build \in Build : Begin(build) \/ End(build)
    \/ Stop

Spec == Init /\ [][Next]_building
=============================================================================
