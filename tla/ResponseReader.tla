--------------------------- MODULE ResponseReader ---------------------------
(***************************************************************************)
(* What receive_response (library/src/command_transport.c) does to the     *)
(* queue of received bytes, without its clock and without the system calls *)
(* below it.  One call scans for SOF, takes LEN, takes the rest of the     *)
(* frame and lets protocol_parse_response judge it; it may give up at any  *)
(* point, and what it has not taken stays in the queue for the next call.  *)
(*                                                                         *)
(* CommandTransport implements this specification; Mcuco instantiates it   *)
(* as its receiving half.  Bytes are members of an arbitrary set Byte so   *)
(* that a user of the module can tag them; Val gives the octet.            *)
(***************************************************************************)
EXTENDS Naturals, Sequences

CONSTANTS
    Byte,       \* what the line delivers, one at a time
    Val,        \* the octet a byte carries
    Intact,     \* the frames (SOF to CRC_H) whose CRC matches
    MaxData,    \* PROTOCOL_MAX_RESPONSE_DATA
    MaxRx       \* bound: bytes queued by the kernel

ASSUME ReaderAssumption ==
    /\ Val \in [Byte -> 0 .. 255]
    /\ MaxData \in Nat
    /\ MaxRx \in Nat

VARIABLES
    rx,         \* bytes received by the kernel and not yet read
    phase,      \* what the call in progress reads next, "idle" between calls
    frame,      \* the part of the frame read so far, from SOF on
    status,     \* what the last call returned
    response    \* the frame the last call accepted, <<>> when it failed

vars == <<rx, phase, frame, status, response>>

PROTOCOL_SOF == 165
PROTOCOL_RESPONSE_OVERHEAD == 4
PROTOCOL_MIN_RESPONSE_LEN == 1
PROTOCOL_MAX_RESPONSE_LEN == PROTOCOL_MIN_RESPONSE_LEN + MaxData

Phases == {"idle", "sof", "len", "body"}
Statuses == {"OK", "NO_RESPONSE", "ERR_IO", "BAD_FRAME"}

\* A LEN byte receive_response goes on with.
LengthOk(n) == n \in PROTOCOL_MIN_RESPONSE_LEN .. PROTOCOL_MAX_RESPONSE_LEN

\* protocol_parse_response on a frame of exactly the size its LEN announces,
\* which is the only way receive_response calls it: the CRC decides.
ParseResponse(f) == IF f \in Intact THEN "OK" ELSE "BAD_FRAME"

\* Mutant: the second CRC byte is forgotten.
RemainingNoCrcHigh == PROTOCOL_RESPONSE_OVERHEAD + Val[frame[2]] - Len(frame) - 1

\* Bytes still to come once LEN is known.
Remaining == PROTOCOL_RESPONSE_OVERHEAD + Val[frame[2]] - Len(frame)

Init ==
    /\ rx = <<>>
    /\ phase = "idle"
    /\ frame = <<>>
    /\ status = "OK"
    /\ response = <<>>

Return(s, f) ==
    /\ phase' = "idle"
    /\ frame' = <<>>
    /\ status' = s
    /\ response' = f

-----------------------------------------------------------------------------
(* The call.                                                               *)

Start ==
    /\ phase = "idle"
    /\ phase' = "sof"
    /\ frame' = <<>>
    /\ UNCHANGED <<rx, status, response>>

\* One turn of the do-while: anything but SOF is discarded.
TakeSof ==
    /\ phase = "sof"
    /\ rx # <<>>
    /\ rx' = Tail(rx)
    /\ IF Val[Head(rx)] = PROTOCOL_SOF
         THEN phase' = "len" /\ frame' = <<Head(rx)>>
         ELSE UNCHANGED <<phase, frame>>
    /\ UNCHANGED <<status, response>>

\* A LEN out of range ends the call with the rest of the queue untouched.
TakeLen ==
    /\ phase = "len"
    /\ rx # <<>>
    /\ rx' = Tail(rx)
    /\ IF LengthOk(Val[Head(rx)])
         THEN /\ phase' = "body"
              /\ frame' = Append(frame, Head(rx))
              /\ UNCHANGED <<status, response>>
         ELSE Return("BAD_FRAME", <<>>)

\* The body arrives in pieces of any size.
TakeBody(k) ==
    /\ phase = "body"
    /\ k <= Len(rx)
    /\ k <= Remaining
    /\ rx' = SubSeq(rx, k + 1, Len(rx))
    /\ LET f == frame \o SubSeq(rx, 1, k)
       IN  IF k < Remaining
             THEN frame' = f /\ UNCHANGED <<phase, status, response>>
             ELSE Return(ParseResponse(f), IF f \in Intact THEN f ELSE <<>>)

\* The deadline passes, or the descriptor fails: bytes taken are gone, bytes
\* not taken stay.
GiveUp(s) ==
    /\ phase # "idle"
    /\ s \in {"NO_RESPONSE", "ERR_IO"}
    /\ Return(s, <<>>)
    /\ UNCHANGED rx

Step ==
    \/ TakeSof
    \/ TakeLen
    \/ \E k \in 1 .. Len(rx) : TakeBody(k)
    \/ \E s \in {"NO_RESPONSE", "ERR_IO"} : GiveUp(s)

-----------------------------------------------------------------------------
(* The line.                                                               *)

Arrive(b) ==
    /\ Len(rx) < MaxRx
    /\ rx' = Append(rx, b)
    /\ UNCHANGED <<phase, frame, status, response>>

\* Someone else holding the device empties the queue (read, or tcflush).
Drain ==
    /\ rx # <<>>
    /\ rx' = <<>>
    /\ UNCHANGED <<phase, frame, status, response>>

Next ==
    \/ Start
    \/ Step
    \/ \E b \in Byte : Arrive(b)
    \/ Drain

Spec == Init /\ [][Next]_vars

=============================================================================
