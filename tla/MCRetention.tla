----------------------------- MODULE MCRetention -----------------------------
(* Model-checking instances of Retention. *)
EXTENDS Retention

\* The goroutine of the hourly loop and one request of the operator.
LoopAndHandler == {"loop", "handler"}

=============================================================================
