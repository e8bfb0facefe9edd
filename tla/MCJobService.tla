---------------------------- MODULE MCJobService ----------------------------
(***************************************************************************)
(* Model-checking instances of JobService.                                 *)
(***************************************************************************)
EXTENDS JobService, TLC

\* Calls are interchangeable.
TaskSymmetry == Permutations(Tasks)

AllCalls    == {"answer", "generate", "decide", "push", "cancel"}
NotCancel   == AllCalls \ {"cancel"}
=============================================================================
