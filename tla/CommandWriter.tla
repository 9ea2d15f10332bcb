---------------------------- MODULE CommandWriter ----------------------------
(***************************************************************************)
(* transmit_command and the loop of uart_write, call after call on one     *)
(* device: short writes, signals, a full output queue, errors after which  *)
(* the handle is used again, a device that is unplugged for good, and a    *)
(* process that dies and leaves the device to the next.                    *)
(* A byte is known by its call and its position in the frame; its value    *)
(* does not matter here.                                                   *)
(***************************************************************************)
EXTENDS Naturals, Sequences

CONSTANTS
    Lengths,    \* lengths of the frames sent; 0 for no frame at all
    Capacity,   \* bytes the kernel's output queue holds
    MaxCalls    \* bound: calls of transmit_command

ASSUME CommandWriterAssumption ==
    /\ Lengths \subseteq Nat
    /\ Capacity \in Nat \ {0}
    /\ MaxCalls \in Nat

VARIABLES
    pc,             \* "idle", "loop" (the head of the while), "write"
    len,            \* of the frame being written
    total_written,
    stream,         \* history: every byte the kernel has taken
    drained,        \* how many of them have left on the wire
    unplugged,
    results         \* history: length and status of every call that has ended

vars == <<pc, len, total_written, stream, drained, unplugged, results>>

Byte == [call : Nat \ {0}, pos : Nat \ {0}]
Call == Len(results) + 1

Init ==
    /\ pc = "idle"
    /\ len = 0
    /\ total_written = 0
    /\ stream = <<>>
    /\ drained = 0
    /\ unplugged = FALSE
    /\ results = <<>>

Return(l, status) ==
    /\ pc' = "idle"
    /\ results' = Append(results, [len |-> l, status |-> status])

-----------------------------------------------------------------------------
(* transmit_command and uart_write.                                        *)

Transmit(l) ==
    /\ pc = "idle"
    /\ Call <= MaxCalls
    /\ \/ l = 0 /\ Return(0, "ERR_ARG") /\ UNCHANGED <<len, total_written>>
       \/ /\ l > 0
          /\ pc' = "loop" /\ len' = l /\ total_written' = 0
          /\ UNCHANGED results
    /\ UNCHANGED <<stream, drained, unplugged>>

\* The loop goes on, or the call returns.
LoopWhile(more) ==
    /\ pc = "loop"
    /\ \/ more /\ pc' = "write" /\ UNCHANGED results
       \/ ~more /\ Return(len, "OK")
    /\ UNCHANGED <<len, total_written, stream, drained, unplugged>>

\* Mutant: the last byte is left out.
LoopOneLess == LoopWhile(total_written + 1 < len)

\* The test of the while.
Loop == LoopWhile(total_written < len)

\* Mutant: every write starts at buf.
WrittenFromStart(k) == [i \in 1 .. k |-> [call |-> Call, pos |-> i]]

\* k bytes from buf + total_written.
Written(k) == [i \in 1 .. k |-> [call |-> Call, pos |-> total_written + i]]

\* write takes as many bytes as there is room for, or fewer when a signal
\* arrives; it blocks while there is no room.
Write(k) ==
    /\ pc = "write"
    /\ ~unplugged
    /\ total_written + k <= len
    /\ Len(stream) - drained + k <= Capacity
    /\ stream' = stream \o Written(k)
    /\ total_written' = total_written + k
    /\ pc' = "loop"
    /\ UNCHANGED <<len, drained, unplugged, results>>

\* EINTR: a signal arrives before the first byte is taken.
WriteInterrupted ==
    /\ pc = "write"
    /\ pc' = "loop"
    /\ UNCHANGED <<len, total_written, stream, drained, unplugged, results>>

\* Mutant: every error is taken for EINTR.
WriteFailsRetried ==
    /\ pc = "write"
    /\ pc' = "loop"
    /\ UNCHANGED <<len, total_written, stream, drained, unplugged, results>>

\* Any other error ends the call, wherever in the frame it stands.  The caller
\* may go on using the handle.
WriteFails ==
    /\ pc = "write"
    /\ Return(len, "ERR_IO")
    /\ UNCHANGED <<len, total_written, stream, drained, unplugged>>

-----------------------------------------------------------------------------
(* The rest of the world.                                                  *)

\* The process dies; the kernel closes the descriptor and keeps the queue.
Killed ==
    /\ pc # "idle"
    /\ Return(len, "killed")
    /\ UNCHANGED <<len, total_written, stream, drained, unplugged>>

Drain ==
    /\ ~unplugged
    /\ drained < Len(stream)
    /\ drained' = drained + 1
    /\ UNCHANGED <<pc, len, total_written, stream, unplugged, results>>

Unplug ==
    /\ ~unplugged
    /\ unplugged' = TRUE
    /\ UNCHANGED <<pc, len, total_written, stream, drained, results>>

Next ==
    \/ \E l \in Lengths : Transmit(l)
    \/ Loop
    \/ \E k \in 1 .. Capacity : Write(k)
    \/ WriteInterrupted
    \/ WriteFails
    \/ Killed
    \/ Drain
    \/ Unplug

Spec == Init /\ [][Next]_vars

\* The process runs when it can, the line drains (flow control is off), a device
\* that is gone fails the write, and a signal does not come in before every
\* single write.
Fairness ==
    /\ WF_vars(Loop)
    /\ SF_vars(unplugged /\ WriteFails)
    /\ WF_vars(Drain)
    /\ SF_vars(\E k \in 1 .. Capacity : Write(k))

FairSpec == Spec /\ Fairness

-----------------------------------------------------------------------------
(* Properties.                                                             *)

\* The bytes that reach the line are the frames' bytes in their order: after
\* short writes and signals uart_write goes on with the very next byte, and
\* every call begins with the first byte of its own frame.
InOrder ==
    \A i \in DOMAIN stream :
        \/ /\ i > 1
           /\ stream[i].call = stream[i - 1].call
           /\ stream[i].pos = stream[i - 1].pos + 1
        \/ /\ stream[i].pos = 1
           /\ i > 1 => stream[i].call > stream[i - 1].call

\* The last byte of the frame of call n has been written.
Finished(n) == \E i \in DOMAIN stream : stream[i] = [call |-> n, pos |-> results[n].len]

\* transmit_command answers OK when the whole frame is on its way and with an
\* error only when it is not: a command reported as not sent cannot be executed.
OkIffWhole ==
    \A n \in DOMAIN results :
        /\ results[n].status = "OK" => Finished(n)
        /\ results[n].status \in {"ERR_ARG", "ERR_IO"} => ~Finished(n)

\* uart_write has no deadline; transmit_command returns all the same, or its
\* process is killed, on a line that drains and on one that is gone.
TransmitReturns == pc # "idle" ~> pc = "idle"

=============================================================================
