---------------------------- MODULE DeadlineClock ----------------------------
(***************************************************************************)
(* The clock arithmetic of receive_response, read_exactly and uart_read    *)
(* where long has 32 bits: the millisecond clock of now_ms leaves a long   *)
(* after 24.8 days.  CommandTransport models the same calls with their     *)
(* data and unbounded integers; here every reading, sum and difference is  *)
(* taken in a long, and what was read does not matter.                     *)
(*                                                                         *)
(* Overflow of a signed long is undefined in C, and no option of the build *)
(* defines it.  A stored value wraps.  A test of a difference that         *)
(* overflows may be made on the wrapped difference or, as the compiler is  *)
(* free to assume that nothing overflows, on its operands.                 *)
(***************************************************************************)
EXTENDS Integers

CONSTANTS
    LONG_MAX,
    Timeouts,   \* values of timeout_ms
    MaxLag,     \* ticks a runnable process may be kept waiting
    MaxUptime   \* bound: ticks

VARIABLES
    pc,             \* the next reading of the clock or system call
    now,            \* what now_ms returns
    deadline_ms,    \* of receive_response
    uart_deadline,  \* deadline_ms of uart_read
    time_left_ms,   \* as last computed
    status,         \* of the last receive_response
    uptime,         \* the true time; the program sees now
    lag,            \* ticks since the process could have made its next step
    expiry,         \* true time at which the kernel ends the poll
    limit           \* history: true time at which the caller's timeout is up

clock == <<now, uptime>>
call == <<deadline_ms, limit>>
vars == <<pc, clock, call, uart_deadline, time_left_ms, status, lag, expiry>>

\* A value of twice the range, as a long.
Wrap(x) ==
    IF x > LONG_MAX THEN x - 2 * (LONG_MAX + 1)
    ELSE IF x < -LONG_MAX - 1 THEN x + 2 * (LONG_MAX + 1)
    ELSE x

Long == (-LONG_MAX - 1) .. LONG_MAX

\* The machine may have been up for any time.
Init ==
    /\ now \in Long
    /\ uptime = 0
    /\ pc = "idle"
    /\ deadline_ms = 0 /\ uart_deadline = 0
    /\ time_left_ms = 0
    /\ status = "OK"
    /\ lag = 0
    /\ expiry = 0 /\ limit = 0

Go(l) == pc' = l /\ lag' = 0
Return(s) == Go("idle") /\ status' = s

-----------------------------------------------------------------------------
(* receive_response, read_exactly, uart_read.                              *)

ReceiveResponse(timeout_ms) ==
    /\ pc = "idle"
    /\ deadline_ms' = Wrap(now + timeout_ms)
    /\ limit' = uptime + timeout_ms
    /\ status' = "OK"
    /\ Go("read_exactly")
    /\ UNCHANGED <<clock, uart_deadline, time_left_ms, expiry>>

\* deadline - now_ms() and the test that follows it: time is left and the call
\* goes on, or it is used up.
TimeLeft(deadline, l) ==
    LET difference == Wrap(deadline - now)
    IN  /\ time_left_ms' = difference
        /\ \E test \in {difference, deadline - now} :
              \/ test > 0 /\ Go(l) /\ UNCHANGED status
              \/ test <= 0 /\ Return("NO_RESPONSE")

ReadExactly ==
    /\ pc = "read_exactly"
    /\ TimeLeft(deadline_ms, "uart_read")
    /\ UNCHANGED <<clock, call, uart_deadline, expiry>>

UartRead ==
    /\ pc = "uart_read"
    /\ uart_deadline' = Wrap(now + time_left_ms)
    /\ Go("loop")
    /\ UNCHANGED <<clock, call, time_left_ms, status, expiry>>

UartReadLoop ==
    /\ pc = "loop"
    /\ TimeLeft(uart_deadline, "poll")
    /\ UNCHANGED <<clock, call, uart_deadline, expiry>>

\* The kernel counts the timeout in a clock of its own; it has none to count
\* when the timeout is negative.
PollCall ==
    /\ pc = "poll"
    /\ expiry' = uptime + time_left_ms
    /\ Go("wait")
    /\ UNCHANGED <<clock, call, uart_deadline, time_left_ms, status>>

\* A signal, or too few bytes: the loop of uart_read turns.
PollAgain ==
    /\ pc = "wait"
    /\ Go("loop")
    /\ UNCHANGED <<clock, call, uart_deadline, time_left_ms, status, expiry>>

\* The bytes asked for: receive_response reads the next piece, or is done.
PieceRead ==
    /\ pc = "wait"
    /\ \/ Go("read_exactly") /\ UNCHANGED status
       \/ Return("OK")
    /\ UNCHANGED <<clock, call, uart_deadline, time_left_ms, expiry>>

PollTimeout ==
    /\ pc = "wait"
    /\ time_left_ms >= 0 /\ uptime >= expiry
    /\ Return("NO_RESPONSE")
    /\ UNCHANGED <<clock, call, uart_deadline, time_left_ms, expiry>>

-----------------------------------------------------------------------------

\* Time passes, within the delays the scheduler may cause.
Tick ==
    /\ uptime < MaxUptime
    /\ \/ pc = "idle" /\ UNCHANGED lag
       \/ /\ pc = "wait"
          /\ time_left_ms < 0 \/ uptime < expiry + MaxLag
          /\ UNCHANGED lag
       \/ pc \notin {"idle", "wait"} /\ lag < MaxLag /\ lag' = lag + 1
    /\ uptime' = uptime + 1
    /\ now' = Wrap(now + 1)
    /\ UNCHANGED <<pc, call, uart_deadline, time_left_ms, status, expiry>>

Next ==
    \/ \E t \in Timeouts : ReceiveResponse(t)
    \/ ReadExactly
    \/ UartRead
    \/ UartReadLoop
    \/ PollCall
    \/ PollAgain
    \/ PieceRead
    \/ PollTimeout
    \/ Tick

Spec == Init /\ [][Next]_vars

-----------------------------------------------------------------------------

\* "timeout_ms bounds the whole call, not each read, so a frame arriving one
\* byte at a time still expires on time. Returns len, -ETIMEDOUT if the deadline
\* passes first": wherever in its range the clock stands, NO_RESPONSE is not
\* reported before the caller's timeout is up, and a call is over at most five
\* delays after it.
ExpiresOnTime ==
    /\ status = "NO_RESPONSE" => limit <= uptime
    /\ pc # "idle" => uptime <= limit + 5 * MaxLag

=============================================================================
