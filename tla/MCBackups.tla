------------------------------ MODULE MCBackups ------------------------------
(* Model-checking instances of Schema and Backups. *)
EXTENDS Backups

\* Every former database with two crashes, one second of backups and a restore; a
\* current one with a crash and two seconds; or with enough seconds for a rotation,
\* where only failing writes leave torn files.
DatabaseBudgets == {<<2, 1, 1>>, <<1, 2, 0>>, <<0, 3, 0>>}

=============================================================================
