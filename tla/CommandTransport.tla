-------------------------- MODULE CommandTransport --------------------------
(***************************************************************************)
(* The receiving half of the command transport with its clock:             *)
(* receive_response and read_exactly of library/src/command_transport.c on *)
(* top of uart_read of library/src/uart.c, system call by system call.     *)
(*                                                                         *)
(* now is the millisecond CLOCK_MONOTONIC both files read through now_ms.  *)
(* Every reading of it is a step of its own, because the process can be    *)
(* descheduled for up to MaxLag milliseconds between any two of them.      *)
(* receive_response computes one deadline for the whole reply; read_exactly*)
(* turns it into a duration, uart_read turns that into a deadline of its   *)
(* own, and poll turns what is left of that into a third.                  *)
(***************************************************************************)
EXTENDS Integers, Sequences

CONSTANTS
    Byte,       \* octets the line delivers
    Intact,     \* the frames whose CRC matches
    MaxData,    \* PROTOCOL_MAX_RESPONSE_DATA
    Timeouts,   \* timeout_ms arguments the callers use
    MaxLag,     \* longest time between two steps of a runnable process
    MaxRx,      \* bound: bytes queued by the kernel
    MaxNow      \* bound: the clock

ASSUME TransportAssumption ==
    /\ Byte \subseteq 0 .. 255
    /\ MaxData \in Nat
    /\ Timeouts \subseteq Int
    /\ MaxLag \in Nat
    /\ MaxRx \in Nat
    /\ MaxNow \in Nat

VARIABLES
    rx,         \* bytes received by the kernel and not yet read
    up,         \* the device is present (no hangup)
    now,        \* CLOCK_MONOTONIC in milliseconds
    lag,        \* time since the last step of a runnable process
    pc,         \* where the call stands
    stage,      \* which read_exactly of receive_response is running
    frame,      \* uint8_t frame[PROTOCOL_MAX_RESPONSE_FRAME]
    want,       \* uart_read's len
    got,        \* uart_read's total_read
    deadline,   \* receive_response's deadline_ms
    left,       \* time_left_ms of read_exactly, then of uart_read
    udeadline,  \* uart_read's deadline_ms
    expiry,     \* when the running poll times out
    status,     \* what the last call returned
    response,   \* the frame the last call accepted, <<>> when it failed
    limit       \* history: when the caller's time is up (now + timeout_ms,
                \* or at once for a timeout below zero)

line == <<rx, up>>
clock == <<now, lag>>
budget == <<deadline, limit>>
buffer == <<stage, frame, want, got>>
result == <<status, response>>
vars == <<rx, up, now, lag, pc, stage, frame, want, got, deadline, left,
          udeadline, expiry, status, response, limit>>

PROTOCOL_SOF == 165
PROTOCOL_RESPONSE_OVERHEAD == 4
PROTOCOL_MIN_RESPONSE_LEN == 1
PROTOCOL_MAX_RESPONSE_LEN == PROTOCOL_MIN_RESPONSE_LEN + MaxData
PROTOCOL_MAX_RESPONSE_FRAME ==
    PROTOCOL_RESPONSE_OVERHEAD + PROTOCOL_MAX_RESPONSE_LEN

Index == 0 .. PROTOCOL_MAX_RESPONSE_FRAME - 1
Octet == Byte \cup {0}
EmptyFrame == [i \in Index |-> 0]

\* Where the read of each stage starts in the frame.
Offset(s) == CASE s = "sof"  -> 0
               [] s = "len"  -> 1
               [] s = "body" -> 2

\* Mutant: the upper limit is not checked.
LengthOkNoMax(n) == n >= PROTOCOL_MIN_RESPONSE_LEN

LengthOk(n) == n \in PROTOCOL_MIN_RESPONSE_LEN .. PROTOCOL_MAX_RESPONSE_LEN

Active == pc # "idle"

Init ==
    /\ rx = <<>>
    /\ up = TRUE
    /\ now = 0
    /\ lag = 0
    /\ pc = "idle"
    /\ stage = "sof"
    /\ frame = EmptyFrame
    /\ want = 1
    /\ got = 0
    /\ deadline = 0
    /\ left = 0
    /\ udeadline = 0
    /\ expiry = 0
    /\ status = "OK"
    /\ response = <<>>
    /\ limit = 0

\* A call returns and its locals are gone.
Return(s, f) ==
    /\ pc' = "idle"
    /\ stage' = "sof"
    /\ frame' = EmptyFrame
    /\ want' = 1
    /\ got' = 0
    /\ deadline' = 0
    /\ left' = 0
    /\ udeadline' = 0
    /\ expiry' = 0
    /\ limit' = 0
    /\ status' = s
    /\ response' = f

\* A step of the process: the clock stands still and the process is fresh.
Ran == lag' = 0 /\ UNCHANGED <<now, up>>

-----------------------------------------------------------------------------
(* receive_response and read_exactly.                                      *)

\* Only calls that can end before the clock's bound are made.
ReceiveResponse(t) ==
    /\ pc = "idle"
    /\ now + t + 5 * MaxLag <= MaxNow
    /\ now + 5 * MaxLag <= MaxNow
    /\ pc' = "read_exactly"
    /\ deadline' = now + t
    /\ limit' = IF t < 0 THEN now ELSE now + t
    /\ UNCHANGED <<rx, buffer, left, udeadline, expiry, result>>
    /\ Ran

ReadExactly ==
    /\ pc = "read_exactly"
    /\ IF deadline - now <= 0
         THEN Return("NO_RESPONSE", <<>>)
         ELSE /\ left' = deadline - now
              /\ pc' = "uart_read"
              /\ UNCHANGED <<buffer, budget, udeadline, expiry, result>>
    /\ UNCHANGED rx
    /\ Ran

-----------------------------------------------------------------------------
(* uart_read.                                                              *)

UartRead ==
    /\ pc = "uart_read"
    /\ udeadline' = now + left
    /\ got' = 0
    /\ pc' = "loop"
    /\ UNCHANGED <<rx, stage, frame, want, budget, left, expiry, result>>
    /\ Ran

\* Mutant: poll is given the time of the first turn again.
UartReadLoopSameTime ==
    /\ pc = "loop"
    /\ IF udeadline - now <= 0
         THEN Return("NO_RESPONSE", <<>>)
         ELSE /\ pc' = "poll"
              /\ UNCHANGED <<buffer, budget, left, udeadline, expiry, result>>
    /\ UNCHANGED rx
    /\ Ran

\* Mutant: only poll's own timeout ends the loop.
UartReadLoopNoCheck ==
    /\ pc = "loop"
    /\ left' = udeadline - now
    /\ pc' = "poll"
    /\ UNCHANGED <<rx, buffer, budget, udeadline, expiry, result>>
    /\ Ran

UartReadLoop ==
    /\ pc = "loop"
    /\ IF udeadline - now <= 0
         THEN Return("NO_RESPONSE", <<>>)
         ELSE /\ left' = udeadline - now
              /\ pc' = "poll"
              /\ UNCHANGED <<buffer, budget, udeadline, expiry, result>>
    /\ UNCHANGED rx
    /\ Ran

PollCall ==
    /\ pc = "poll"
    /\ expiry' = now + left
    /\ pc' = "wait"
    /\ UNCHANGED <<rx, buffer, budget, left, udeadline, result>>
    /\ Ran

\* POLLIN: bytes are queued; a device that is gone polls readable too.
PollReady ==
    /\ pc = "wait"
    /\ rx # <<>> \/ ~up
    /\ pc' = "read"
    /\ UNCHANGED <<rx, buffer, budget, left, udeadline, expiry, result>>
    /\ Ran

PollTimeout ==
    /\ pc = "wait"
    /\ rx = <<>> /\ up
    /\ now >= expiry
    /\ Return("NO_RESPONSE", <<>>)
    /\ UNCHANGED rx
    /\ Ran

\* Mutant: an interrupted poll is taken for one that timed out.
PollInterruptedTimesOut ==
    /\ pc = "wait"
    /\ Return("NO_RESPONSE", <<>>)
    /\ UNCHANGED rx
    /\ Ran

\* EINTR: back to the head of the loop.
PollInterrupted ==
    /\ pc = "wait"
    /\ pc' = "loop"
    /\ UNCHANGED <<rx, buffer, budget, left, udeadline, expiry, result>>
    /\ Ran

\* poll fails otherwise.
PollFails ==
    /\ pc = "wait"
    /\ Return("ERR_IO", <<>>)
    /\ UNCHANGED rx
    /\ Ran

\* POLLHUP or POLLERR without POLLIN.
PollHangup ==
    /\ pc = "wait"
    /\ ~up
    /\ Return("ERR_IO", <<>>)
    /\ UNCHANGED rx
    /\ Ran

\* Mutant: every piece is stored at the start of the buffer.
FilledFromStart(k) ==
    [i \in Index |->
        LET j == i - Offset(stage) + 1
        IN  IF j \in 1 .. k THEN rx[j] ELSE frame[i]]

\* What the frame holds after read(2) has delivered the first k queued bytes.
Filled(k) ==
    [i \in Index |->
        LET j == i - Offset(stage) - got + 1
        IN  IF j \in 1 .. k THEN rx[j] ELSE frame[i]]

\* The read that was asked for is complete: receive_response goes on with it.
NextRead(s, w, f) ==
    /\ pc' = "read_exactly"
    /\ stage' = s
    /\ want' = w
    /\ got' = 0
    /\ frame' = f
    /\ UNCHANGED <<budget, left, udeadline, expiry, result>>

SofRead(f) ==
    /\ stage = "sof"
    /\ NextRead(IF f[0] = PROTOCOL_SOF THEN "len" ELSE "sof", 1, f)

\* Mutant: the CRC is subtracted from LEN instead of added.
LenReadUnderflow(f) ==
    /\ stage = "len"
    /\ IF LengthOk(f[1])
         THEN NextRead("body", f[1] - 2, f)
         ELSE Return("BAD_FRAME", <<>>)

LenRead(f) ==
    /\ stage = "len"
    /\ IF LengthOk(f[1])
         THEN NextRead("body", f[1] + 2, f)
         ELSE Return("BAD_FRAME", <<>>)

\* protocol_parse_response on the bytes LEN announces.
BodyRead(f) ==
    /\ stage = "body"
    /\ LET g == [i \in 1 .. PROTOCOL_RESPONSE_OVERHEAD + f[1] |-> f[i - 1]]
       IN  IF g \in Intact THEN Return("OK", g) ELSE Return("BAD_FRAME", <<>>)

\* read(2) delivers some of the queued bytes, at most what is still wanted.
ReadBytes(k) ==
    /\ pc = "read"
    /\ k <= Len(rx)
    /\ k <= want - got
    /\ rx' = SubSeq(rx, k + 1, Len(rx))
    /\ \/ /\ got + k < want
          /\ got' = got + k
          /\ frame' = Filled(k)
          /\ pc' = "loop"
          /\ UNCHANGED <<stage, want, budget, left, udeadline, expiry, result>>
       \/ /\ got + k = want
          /\ SofRead(Filled(k)) \/ LenRead(Filled(k)) \/ BodyRead(Filled(k))
    /\ Ran

\* EINTR or EAGAIN: back to the head of the loop.
ReadInterrupted ==
    /\ pc = "read"
    /\ pc' = "loop"
    /\ UNCHANGED <<rx, buffer, budget, left, udeadline, expiry, result>>
    /\ Ran

\* read(2) fails otherwise.
ReadFails ==
    /\ pc = "read"
    /\ Return("ERR_IO", <<>>)
    /\ UNCHANGED rx
    /\ Ran

\* read(2) returns 0: the queue was emptied behind poll's back, or the device
\* hung up.
ReadNothing ==
    /\ pc = "read"
    /\ rx = <<>> \/ ~up
    /\ Return("ERR_IO", <<>>)
    /\ UNCHANGED rx
    /\ Ran

-----------------------------------------------------------------------------
(* The line, the device and the clock.                                     *)

Arrive(b) ==
    /\ up
    /\ Len(rx) < MaxRx
    /\ rx' = Append(rx, b)
    /\ UNCHANGED <<up, clock, pc, buffer, budget, left, udeadline, expiry,
                   result>>

\* Another descriptor on the device reads or flushes what is queued.
Drain ==
    /\ rx # <<>>
    /\ rx' = <<>>
    /\ UNCHANGED <<up, clock, pc, buffer, budget, left, udeadline, expiry,
                   result>>

Disconnect ==
    /\ up
    /\ up' = FALSE
    /\ UNCHANGED <<rx, clock, pc, buffer, budget, left, udeadline, expiry,
                   result>>

\* poll has nothing to report yet.
Blocked == pc = "wait" /\ rx = <<>> /\ up /\ now < expiry

Tick ==
    /\ now < MaxNow
    /\ now' = now + 1
    /\ IF ~Active \/ Blocked
         THEN UNCHANGED lag
         ELSE lag < MaxLag /\ lag' = lag + 1
    /\ UNCHANGED <<line, pc, buffer, budget, left, udeadline, expiry, result>>

-----------------------------------------------------------------------------

\* Progress of a call that does not depend on signals or failures.
Run ==
    \/ ReadExactly
    \/ UartRead
    \/ UartReadLoop
    \/ PollCall
    \/ PollReady
    \/ PollTimeout
    \/ \E k \in 1 .. MaxRx : ReadBytes(k)
    \/ ReadNothing

Next ==
    \/ \E t \in Timeouts : ReceiveResponse(t)
    \/ Run
    \/ PollInterrupted
    \/ PollFails
    \/ PollHangup
    \/ ReadInterrupted
    \/ ReadFails
    \/ \E b \in Byte : Arrive(b)
    \/ Drain
    \/ Disconnect
    \/ Tick

Spec == Init /\ [][Next]_vars

\* The scheduler runs a runnable process, and time diverges: the environment
\* cannot do infinitely many things between two ticks, so a Tick that is
\* possible again and again happens.
LiveSpec == Spec /\ WF_vars(Run) /\ SF_vars(Tick)

-----------------------------------------------------------------------------
(* Properties.                                                             *)

TypeOK ==
    /\ rx \in Seq(Byte)
    /\ up \in BOOLEAN
    /\ now \in Nat
    /\ lag \in 0 .. MaxLag
    /\ pc \in {"idle", "read_exactly", "uart_read", "loop", "poll", "wait",
               "read"}
    /\ stage \in {"sof", "len", "body"}
    /\ frame \in [Index -> Octet]
    /\ want \in Nat
    /\ got \in Nat
    /\ deadline \in Int
    /\ left \in Int
    /\ udeadline \in Int
    /\ expiry \in Int
    /\ status \in {"OK", "NO_RESPONSE", "ERR_IO", "BAD_FRAME"}
    /\ response \in Seq(Octet)
    /\ limit \in Int

\* The bytes a read may still deliver fit into frame[] behind the ones it has
\* delivered: LEN comes off the wire and sizes the last read, and a reply can
\* come in any number of pieces.
InBounds ==
    /\ got < want
    /\ Offset(stage) + want <= PROTOCOL_MAX_RESPONSE_FRAME

\* What each call of uart_read was asked for, given where receive_response is.
BufferInv ==
    /\ stage # "body" => want = 1
    /\ stage = "body" => want = frame[1] + 2 /\ LengthOk(frame[1])
    /\ pc \in {"idle", "read_exactly", "uart_read"} => got = 0
    /\ pc = "idle" => stage = "sof"

\* How far the three deadlines can be apart, and how late each step can be.
\* now - lag is the time of the process's previous step while it is runnable.
ClockInv ==
    /\ Active => deadline <= limit
    /\ pc \in {"read_exactly", "loop"} => now <= limit + 4 * MaxLag + lag
    /\ pc = "uart_read" => left = deadline - (now - lag) /\ left > 0
    /\ pc \in {"loop", "poll", "wait", "read"} =>
          deadline <= udeadline /\ udeadline <= deadline + MaxLag
    /\ pc = "poll" => left = udeadline - (now - lag) /\ left > 0
    /\ pc \in {"wait", "read"} =>
          udeadline <= expiry /\ expiry <= udeadline + MaxLag
    /\ pc = "wait" => now <= expiry + lag
    /\ pc = "read" => now <= expiry + MaxLag + lag

IInv == TypeOK /\ InBounds /\ BufferInv /\ ClockInv

\* "timeout_ms bounds the whole exchange, not each read": a call is never
\* later than the caller's limit by more than the delays of five consecutive
\* steps, however many reads the reply takes and however often poll or read
\* is interrupted.
OnTime == Active => now <= limit + 5 * MaxLag

\* No time of a call outgrows its type, after any number of reads and signals:
\* uart_read and poll are handed a positive timeout no longer than the caller's,
\* so that the casts to int lose nothing and poll never waits without end; and
\* uart_read's deadline is at most one delay beyond the caller's, so that nothing
\* overflows before the clock is a timeout and a delay away from LONG_MAX.
TimesFit ==
    /\ pc \in {"uart_read", "poll"} =>
          left > 0 /\ \E t \in Timeouts : left <= t
    /\ pc \in {"loop", "poll", "wait", "read"} => udeadline <= limit + MaxLag

\* NO_RESPONSE is never reported before the caller's time is up, although
\* three deadlines are computed from three readings of the clock.
NeverEarly ==
    [][Active /\ ~Active' /\ status' = "NO_RESPONSE" => now >= deadline]_vars

\* Every call returns: not even an endless stream of junk, or signals that
\* interrupt every poll, keep it.
CallReturns == Active ~> ~Active

\* The transport implements the untimed reader: whatever the clock, the
\* signals and the sizes of the pieces, the bytes taken and the frames
\* accepted are those of ResponseReader.
Reader == INSTANCE ResponseReader WITH
    Val <- [b \in Byte |-> b],
    phase <- IF Active THEN stage ELSE "idle",
    frame <- IF Active /\ stage # "sof"
               THEN [i \in 1 .. Offset(stage) + got |-> frame[i - 1]]
               ELSE <<>>

ReaderSpec == Reader!Spec

=============================================================================
