--------------------------- MODULE ReviewContract ---------------------------
(***************************************************************************)
(* What a review promises (APPDEVELOPER/IMPLEMENTATION_PROMPT.md:51,       *)
(* "Repeat at most three times"): a bounded number of rounds, between two  *)
(* rounds one attempt to fix what was found, and an end at the first pass. *)
(***************************************************************************)
EXTENDS Naturals

CONSTANT MaxRounds

VARIABLES rounds, phase

vars == <<rounds, phase>>

Init == rounds = 0 /\ phase = "due"

Review ==
    /\ phase = "due" /\ rounds < MaxRounds
    /\ rounds' = rounds + 1
    /\ phase' \in {"found", "passed", "failed"}

\* Findings are handed to the fixer, which may fail.
Fix ==
    /\ phase = "found" /\ rounds < MaxRounds
    /\ phase' = "due"
    /\ UNCHANGED rounds

\* After the last round nothing is fixed.
GiveUp ==
    /\ phase = "found" /\ rounds = MaxRounds
    /\ phase' = "failed"
    /\ UNCHANGED rounds

\* The review breaks off before a judgement.
Break == phase = "due" /\ phase' = "failed" /\ UNCHANGED rounds

Next == Review \/ Fix \/ GiveUp \/ Break

Spec == Init /\ [][Next]_vars
=============================================================================
