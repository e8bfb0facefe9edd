---------------------------- MODULE MCFdeBackend ----------------------------
(***************************************************************************)
(* Model-checking instances of FdeBackend.                                 *)
(***************************************************************************)
EXTENDS FdeBackend, TLC

\* Requests are interchangeable, and so are workers.
RequestSymmetry == Permutations(Requests)
ProcessSymmetry == Permutations(Requests) \cup Permutations(Workers)

OneRoute   == {"APPDEVELOPER"}
TwoRoutes  == {"APPDEVELOPER", "LLMDEPLOYER"}
SomeRoutes == {"LLMDEPLOYER", "AMBIGUOUS"}
=============================================================================
