---------------------------- MODULE MCEnvironment ----------------------------
(* Model-checking instances of Environment. *)
EXTENDS Environment, TLC

\* Requests run the same code; the keys of their setups are only compared.
OperatorSymmetry == Permutations(Operators)

\* Many attempts to unlock around one edit, or many edits around one unlock.
EnvironmentBudgets == {<<5, 1, 1, 1>>, <<1, 1, 2, 2>>, <<0, 0, 3, 2>>}

=============================================================================
