---------------------------- MODULE MCCallbacks ----------------------------
(* Small instances of Callbacks and Retries: every delay takes one tick.   *)
EXTENDS Retries

OneTick == [no \in 1 .. MaxAttempts - 1 |-> 1]
=============================================================================
