------------------------- MODULE MCDeploymentQueue -------------------------
(* Model-checking instances of DeploymentQueue. *)
EXTENDS DeploymentQueue, TLC

\* Workers run the same code and are only ever compared for equality.
WorkerSymmetry == Permutations(Workers)

=============================================================================
