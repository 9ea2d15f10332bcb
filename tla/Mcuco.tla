-------------------------------- MODULE Mcuco --------------------------------
(***************************************************************************)
(* A host process using library/src/mcuco.c: mcuco_open with its probe, the *)
(* commands, mcuco_close, and the end of the process at any point.  Every   *)
(* command is one exchange: transmit_command, then receive_response (the    *)
(* steps of ResponseReader, instantiated below), then the decoding of the   *)
(* reply.  The other side of the line is the firmware (external): it       *)
(* executes commands in the order it receives them and answers each once,  *)
(* or not at all.                                                          *)
(*                                                                         *)
(* A response carries no opcode and no sequence number.  In the model each *)
(* byte of a reply carries, as history, which command it answers; nothing  *)
(* of the host looks at it.                                                *)
(***************************************************************************)
EXTENDS Naturals, Sequences

CONSTANTS
    Op,         \* the commands, "probe" and "reset" among them
    Width,      \* bytes of data the ACK of each command carries
    Checked,    \* the commands whose handler looks at the data
    DataVal,    \* octets that occur as data
    MaxData,    \* PROTOCOL_MAX_RESPONSE_DATA
    MaxCmds,    \* bound: commands sent, over all processes
    MaxFaults   \* bound: bytes lost or damaged, commands ignored

ASSUME McucoAssumption ==
    /\ {"probe", "reset"} \subseteq Op
    /\ "none" \notin Op
    /\ MaxData \in 1 .. 254
    /\ Width \in [Op -> 0 .. MaxData]
    /\ Width["probe"] > 0
    /\ Checked \subseteq Op
    /\ "probe" \in Checked
    /\ DataVal \subseteq 0 .. 255
    /\ MaxCmds \in Nat
    /\ MaxFaults \in Nat

VARIABLES
    host,       \* "closed", "opening" (mcuco_open before its probe is done), "open"
    call,       \* the command being exchanged, "none" between commands
    sent,       \* number of commands sent; a command is known by its number
    cmds,       \* commands the firmware has not handled yet
    line,       \* reply bytes on their way to the host
    faults,     \* faults of the line so far
    rx, phase, frame, status, response,     \* see ResponseReader
    lastId,     \* history: the command whose reply was accepted last
    debt        \* history: exchanges that failed since the port was opened,
                \* or all of them when something was still on its way then

linkVars == <<cmds, line, faults>>
readerVars == <<rx, phase, frame, status, response>>
hostVars == <<host, call, sent>>
history == <<lastId, debt>>
vars == <<host, call, sent, cmds, line, faults, rx, phase, frame, status,
          response, lastId, debt>>

\* One byte of the reply to command id: the pos-th, the last one or not,
\* damaged on its way or not.
Token == [id : 1 .. MaxCmds, pos : 1 .. 5 + MaxData, last : BOOLEAN,
          val : 0 .. 255, bad : BOOLEAN]

\* The CRC accepts a reply that arrived whole and undamaged, and nothing else.
IntactReply ==
    {f \in Seq(Token) :
        /\ \A i \in DOMAIN f :
              /\ f[i].id = f[1].id
              /\ f[i].pos = i
              /\ ~f[i].bad
        /\ f # <<>>
        /\ f[Len(f)].last}

R == INSTANCE ResponseReader WITH
    Byte <- Token,
    Val <- [b \in Token |-> b.val],
    Intact <- IntactReply,
    MaxRx <- MaxCmds * (5 + MaxData)

PROBE_MAGIC == 77
ACK == 1
NACK == 0

Init ==
    /\ host = "closed"
    /\ call = "none"
    /\ sent = 0
    /\ cmds = <<>>
    /\ line = <<>>
    /\ faults = 0
    /\ R!Init
    /\ lastId = 0
    /\ debt = 0

-----------------------------------------------------------------------------
(* The host.                                                               *)

\* Mutant: the port is opened without tcflush.
OpenNoFlush ==
    /\ host = "closed"
    /\ host' = "opening"
    /\ debt' = IF line = <<>> /\ cmds = <<>> THEN 0 ELSE sent
    /\ UNCHANGED <<call, sent, linkVars, readerVars, lastId>>

\* open_port: what is queued is flushed (tcflush), what is still on its way
\* is not.  A failing open_port changes nothing.
Open ==
    /\ host = "closed"
    /\ host' = "opening"
    /\ rx' = <<>>
    /\ debt' = IF line = <<>> /\ cmds = <<>> THEN 0 ELSE sent
    /\ UNCHANGED <<call, sent, linkVars, phase, frame, status, response, lastId>>

\* mcuco_open probes; an open handle takes any command.
MayCall(op) ==
    /\ call = "none"
    /\ sent < MaxCmds
    /\ \/ host = "opening" /\ op = "probe"
       \/ host = "open"

\* Mutant: an interrupted write starts over although the frame was written.
ExchangeTwice(op) ==
    /\ MayCall(op)
    /\ call' = op
    /\ sent' = sent + 1
    /\ cmds' = cmds \o <<[id |-> sent + 1, op |-> op], [id |-> sent + 1, op |-> op]>>
    /\ R!Start
    /\ UNCHANGED <<host, line, faults, history>>

\* exchange, up to the wait for the reply.
Exchange(op) ==
    /\ MayCall(op)
    /\ call' = op
    /\ sent' = sent + 1
    /\ cmds' = Append(cmds, [id |-> sent + 1, op |-> op])
    /\ R!Start
    /\ UNCHANGED <<host, line, faults, history>>

\* transmit_command fails: the frame was not written to its end, so the
\* firmware has nothing to execute.  mcuco_open then closes the port.
TransmitFails(op) ==
    /\ MayCall(op)
    /\ host' = IF host = "opening" THEN "closed" ELSE host
    /\ UNCHANGED <<call, sent, linkVars, readerVars, history>>

\* receive_response.
Receive ==
    /\ R!Step
    /\ UNCHANGED <<hostVars, linkVars, history>>

Replied == call # "none" /\ phase = "idle"

\* The reply handed to the caller, and its data.
Ack == response[3].val # NACK
DataLen == Len(response) - 5
Data == [i \in 1 .. DataLen |-> response[i + 3].val]

\* Mutant: the ACK/NACK octet is not looked at.
StatusUnread == "OK"

\* A NACK carries a one-byte reason, which becomes the status.
StatusFromResponse ==
    IF Ack THEN "OK" ELSE IF DataLen = 1 THEN "NACK" ELSE "BAD_FRAME"

\* The handlers that read data check its width; probe also checks the magic.
ReadingOk(op) == op \in Checked => DataLen = Width[op]
MagicOk(op) == op = "probe" => \A i \in 1 .. DataLen : Data[i] = PROBE_MAGIC

\* What the command returns to its caller.
Outcome(op) ==
    IF status # "OK" THEN status
    ELSE IF StatusFromResponse # "OK" THEN StatusFromResponse
    ELSE IF ReadingOk(op) /\ MagicOk(op) THEN "OK" ELSE "BAD_FRAME"

\* The command returns to its caller; mcuco_open keeps the port only when the
\* probe succeeded.
Return ==
    /\ Replied
    /\ call' = "none"
    /\ host' = IF host = "opening"
                 THEN IF Outcome(call) = "OK" THEN "open" ELSE "closed"
                 ELSE host
    /\ IF status = "OK"
         THEN lastId' = response[1].id /\ UNCHANGED debt
         ELSE debt' = debt + 1 /\ UNCHANGED lastId
    /\ status' = "OK"
    /\ response' = <<>>
    /\ UNCHANGED <<sent, linkVars, rx, phase, frame>>

Close ==
    /\ host = "open"
    /\ call = "none"
    /\ host' = "closed"
    /\ UNCHANGED <<call, sent, linkVars, readerVars, history>>

\* The process ends without mcuco_close; the kernel closes the descriptor.
Killed ==
    /\ host # "closed"
    /\ host' = "closed"
    /\ call' = "none"
    /\ phase' = "idle"
    /\ frame' = <<>>
    /\ status' = "OK"
    /\ response' = <<>>
    /\ UNCHANGED <<sent, linkVars, rx, history>>

-----------------------------------------------------------------------------
(* The firmware.                                                           *)

\* The reply bytes SOF, LEN, ACK/NACK, DATA, CRC_L, CRC_H.
Reply(id, ack, data) ==
    LET octets == <<R!PROTOCOL_SOF, 1 + Len(data), ack>> \o data \o <<0, 0>>
    IN  [i \in 1 .. Len(octets) |->
            [id |-> id, pos |-> i, last |-> i = Len(octets),
             val |-> octets[i], bad |-> FALSE]]

\* A reset discards what the firmware has not looked at.
Handled(c) == IF c.op = "reset" THEN <<>> ELSE Tail(cmds)

Accept(v) ==
    /\ cmds # <<>>
    /\ LET c == Head(cmds)
           x == IF c.op = "probe" THEN PROBE_MAGIC ELSE v
       IN  /\ line' = line \o Reply(c.id, ACK, [i \in 1 .. Width[c.op] |-> x])
           /\ cmds' = Handled(c)
    /\ UNCHANGED <<hostVars, faults, readerVars, history>>

\* A NACK carries a one-byte reason.
Reject ==
    /\ cmds # <<>>
    /\ line' = line \o Reply(Head(cmds).id, NACK, <<3>>)
    /\ cmds' = Tail(cmds)
    /\ UNCHANGED <<hostVars, faults, readerVars, history>>

Fault == faults < MaxFaults /\ faults' = faults + 1

\* The command was damaged on its way: the firmware does not answer.
Ignore ==
    /\ cmds # <<>>
    /\ Fault
    /\ cmds' = Tail(cmds)
    /\ UNCHANGED <<hostVars, line, readerVars, history>>

-----------------------------------------------------------------------------
(* The line: bytes arrive in order, some are lost, some are damaged.       *)

Arrive ==
    /\ line # <<>>
    /\ R!Arrive(Head(line))
    /\ line' = Tail(line)
    /\ UNCHANGED <<hostVars, cmds, faults, history>>

Lose ==
    /\ line # <<>>
    /\ Fault
    /\ line' = Tail(line)
    /\ UNCHANGED <<hostVars, cmds, readerVars, history>>

Damage(v) ==
    /\ line # <<>>
    /\ ~Head(line).bad
    /\ Fault
    /\ line' = [line EXCEPT ![1].val = v, ![1].bad = TRUE]
    /\ UNCHANGED <<hostVars, cmds, readerVars, history>>

-----------------------------------------------------------------------------

Next ==
    \/ Open
    \/ \E op \in Op : Exchange(op) \/ TransmitFails(op)
    \/ Receive
    \/ Return
    \/ Close
    \/ Killed
    \/ \E v \in DataVal : Accept(v)
    \/ Reject
    \/ Ignore
    \/ Arrive
    \/ Lose
    \/ \E v \in DataVal : Damage(v)

Spec == Init /\ [][Next]_vars

-----------------------------------------------------------------------------
(* Properties.                                                             *)

\* A reply has been accepted for the command being exchanged.
Accepted == Replied /\ status = "OK"
AcceptedId == response[1].id

\* The reply a command accepts is at most as many commands old as exchanges
\* have failed since mcuco_open found a quiet line: nothing else makes
\* receive_response take an old reply for a new one.  In particular, before
\* the first failure every command gets its own reply.
StalenessBound == Accepted => sent - AcceptedId <= debt

\* Replies are accepted in the order of their commands, each at most once,
\* across timeouts, damaged frames, kills and reopened ports.
ReplyOrder == Accepted => AcceptedId \in lastId + 1 .. sent

\* "Discard anything before SOF: a late reply to an abandoned command can still
\* be queued ahead of this one": a command on an open handle never accepts the
\* late reply to an earlier one.
ReplyAnswersCommand == host = "open" /\ Accepted => AcceptedId = sent

=============================================================================
