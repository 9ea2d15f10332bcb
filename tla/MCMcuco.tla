------------------------------ MODULE MCMcuco -------------------------------
(* Mcuco with one command of each kind; frames carry at most one data byte, *)
(* which may look like SOF.                                                 *)
EXTENDS McucoEffects

MCOp == {"probe", "reset", "write", "read"}
MCWidth == [probe |-> 1, reset |-> 0, write |-> 0, read |-> 1]
MCChecked == {"probe", "read"}
MCDataVal == {1, R!PROTOCOL_SOF}

=============================================================================
