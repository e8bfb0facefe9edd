--------------------------- MODULE MCReviewCycle ---------------------------
(***************************************************************************)
(* Model-checking instances of ReviewCycle.                                *)
(***************************************************************************)
EXTENDS ReviewCycle

\* No manifest, and one that cannot be decoded before one that can.
BareOrBroken ==
    {[names |-> {}, broken |-> {}],
     [names |-> {"requirements.txt", "package.json"}, broken |-> {"requirements.txt"}]}
=============================================================================
