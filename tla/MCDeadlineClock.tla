--------------------------- MODULE MCDeadlineClock ---------------------------
(* A long of four bits, and a timeout that is a third of the way to its end. *)
EXTENDS DeadlineClock

MCTimeouts == {0, 3}

=============================================================================
