---------------------------- MODULE McucoEffects -----------------------------
(***************************************************************************)
(* Mcuco with the history of the commands the firmware has executed, and    *)
(* what a caller may conclude about it from the status of a command.        *)
(***************************************************************************)
EXTENDS Mcuco

VARIABLE executed   \* history: the commands executed, in their order

effectVars == <<vars, executed>>

EffectInit == Init /\ executed = <<>>

\* The firmware executes a command and acknowledges it.
Execute(v) == Accept(v) /\ executed' = Append(executed, Head(cmds).id)

EffectNext ==
    \/ \E v \in DataVal : Execute(v)
    \/ /\ \/ Open
          \/ \E op \in Op : Exchange(op) \/ TransmitFails(op)
          \/ Receive
          \/ Return
          \/ Close
          \/ Killed
          \/ Reject
          \/ Ignore
          \/ Arrive
          \/ Lose
          \/ \E v \in DataVal : Damage(v)
       /\ UNCHANGED executed

EffectSpec == EffectInit /\ [][EffectNext]_effectVars

-----------------------------------------------------------------------------

Executed(id) == \E i \in DOMAIN executed : executed[i] = id
Waiting(id) == \E i \in DOMAIN cmds : cmds[i].id = id

\* While no exchange has failed since mcuco_open found a quiet line, the status
\* tells what became of the command: after success it has been executed, after a
\* refusal by the firmware it has not been and will not be.
StatusIsTrue ==
    Replied /\ debt = 0 =>
        /\ Outcome(call) = "OK" => Executed(sent)
        /\ Outcome(call) = "NACK" => ~Executed(sent) /\ ~Waiting(sent)

\* No command is executed twice or after a later one, through timeouts, damage,
\* kills and reopened ports.  A toggle without an answer has happened once, will
\* happen once, or never; the library itself does not repeat it.
ExecutedOnce ==
    \A j \in DOMAIN executed : \A i \in 1 .. j - 1 : executed[i] < executed[j]

=============================================================================
