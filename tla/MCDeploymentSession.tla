------------------------ MODULE MCDeploymentSession ------------------------
(***************************************************************************)
(* Model-checking instances of DeploymentSession.                          *)
(***************************************************************************)
EXTENDS DeploymentSession

\* Orchestrations are interchangeable, and so are sockets.
DeploymentSymmetry == Permutations(Runs) \cup Permutations(Sockets)
=============================================================================
