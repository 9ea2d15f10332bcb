------------------------------ MODULE UartPort ------------------------------
(***************************************************************************)
(* uart_open, configure_port and uart_close of library/src/uart.c, run by  *)
(* several processes on one serial device, system call by system call.     *)
(* Each call can fail; a process can also end at any point, and the kernel *)
(* then closes its descriptor.                                             *)
(*                                                                         *)
(* The tty is the kernel's (external): its line settings and its exclusive *)
(* flag belong to the device, not to a descriptor.  The settings outlive   *)
(* the descriptors; the flag is dropped when the last one is closed.       *)
(***************************************************************************)

CONSTANT Proc       \* the processes that use the device

VARIABLES
    pc,         \* where each process stands: the system call it makes next
    fds,        \* the processes with an open descriptor
    nonblock,   \* those whose descriptor still has O_NONBLOCK
    excl,       \* the tty's exclusive flag
    settings    \* the settings of the tty that are as the MCU needs them

vars == <<pc, fds, nonblock, excl, settings>>

\* What configure_port reads back: eight data bits, no parity and one stop bit,
\* the output speed.
Verified == {"CS8", "no PARENB, CSTOPB", "ospeed"}

\* What it asks for: beside those, the flags of cfmakeraw, CLOCAL and CREAD with
\* VMIN and VTIME, no flow control and the input speed.
Settings == Verified \cup {"cfmakeraw", "CLOCAL, CREAD, VMIN, VTIME",
                           "no CRTSCTS", "ispeed"}

Init ==
    /\ pc = [p \in Proc |-> "closed"]
    /\ fds = {}
    /\ nonblock = {}
    /\ excl = FALSE
    /\ settings \in SUBSET Settings

At(p, here, next) == pc[p] = here /\ pc' = [pc EXCEPT ![p] = next]

-----------------------------------------------------------------------------
(* uart_open and configure_port.                                           *)

\* open(2) is refused (EBUSY) while the exclusive flag is set, and may fail
\* otherwise; then nothing changes.
Open(p) ==
    /\ At(p, "closed", "tcgetattr")
    /\ ~excl
    /\ fds' = fds \cup {p}
    /\ nonblock' = nonblock \cup {p}
    /\ UNCHANGED <<excl, settings>>

GetSettings(p) ==
    /\ At(p, "tcgetattr", "tcsetattr")
    /\ UNCHANGED <<fds, nonblock, excl, settings>>

\* tcsetattr succeeds when it applied any change, not all of them: what was right
\* stays right, and some of the rest becomes so.
SetSettings(p) ==
    /\ At(p, "tcsetattr", "verify")
    /\ \E applied \in SUBSET Settings : settings' = settings \cup applied
    /\ UNCHANGED <<fds, nonblock, excl>>

\* Mutant: tcsetattr's success is taken at its word.
VerifySkipped(p) ==
    /\ At(p, "verify", "tiocexcl")
    /\ UNCHANGED <<fds, nonblock, excl, settings>>

\* The settings are read back and some of them compared.
Verify(p) ==
    /\ At(p, "verify", "tiocexcl")
    /\ Verified \subseteq settings
    /\ UNCHANGED <<fds, nonblock, excl, settings>>

\* Mutant: a failing TIOCEXCL is ignored.
ClaimUnchecked(p) ==
    /\ At(p, "tiocexcl", "fcntl")
    /\ UNCHANGED <<fds, nonblock, excl, settings>>

Claim(p) ==
    /\ At(p, "tiocexcl", "fcntl")
    /\ excl' = TRUE
    /\ UNCHANGED <<fds, nonblock, settings>>

\* tcflush, whose result is not looked at, and the return to blocking mode.
SetBlocking(p) ==
    /\ At(p, "fcntl", "held")
    /\ nonblock' = nonblock \ {p}
    /\ UNCHANGED <<fds, excl, settings>>

CloseFd(p) ==
    /\ fds' = fds \ {p}
    /\ nonblock' = nonblock \ {p}
    /\ excl' = (excl /\ fds' # {})
    /\ UNCHANGED settings

\* Mutant: the error return forgets the descriptor.
FailNoClose(p) ==
    /\ pc[p] \notin {"closed", "held"}
    /\ pc' = [pc EXCEPT ![p] = "closed"]
    /\ UNCHANGED <<fds, nonblock, excl, settings>>

\* A call of configure_port fails, or the settings did not take: uart_open
\* closes the descriptor.
Fail(p) ==
    /\ pc[p] \notin {"closed", "held"}
    /\ pc' = [pc EXCEPT ![p] = "closed"]
    /\ CloseFd(p)

\* uart_close.
Close(p) ==
    /\ At(p, "held", "closed")
    /\ CloseFd(p)

\* The process ends; the kernel closes what it had open.
Killed(p) ==
    /\ p \in fds
    /\ pc' = [pc EXCEPT ![p] = "closed"]
    /\ CloseFd(p)

Next ==
    \E p \in Proc :
        \/ Open(p)
        \/ GetSettings(p)
        \/ SetSettings(p)
        \/ Verify(p)
        \/ Claim(p)
        \/ SetBlocking(p)
        \/ Fail(p)
        \/ Close(p)
        \/ Killed(p)

Spec == Init /\ [][Next]_vars

-----------------------------------------------------------------------------
(* Properties.                                                             *)

Held(p) == pc[p] = "held"

\* "Returns the fd, or a negative errno with nothing left open": a process
\* outside uart_open that holds no port has no descriptor, and an exclusive
\* flag always belongs to an open descriptor, so a failed open never locks the
\* next one out.
NothingLeftOpen ==
    /\ \A p \in Proc : pc[p] = "closed" => p \notin fds
    /\ excl => fds # {}

\* A held port has the character format and the output speed of the MCU and a
\* blocking descriptor, even when tcsetattr applied only some of the settings and
\* other processes open, fail and close around it.  The code looks at no other
\* setting, and no other is promised here.
HeldIsConfigured ==
    \A p \in Proc : Held(p) => Verified \subseteq settings /\ p \notin nonblock

\* "a second open of the same device then fails with EBUSY": once a process
\* holds the port nobody else's uart_open gets past open(2).
LateOpenRefused ==
    [][\A p \in Proc : pc[p] = "closed" /\ pc'[p] # "closed"
            => \A q \in Proc : ~Held(q)]_vars

\* "The port is claimed exclusively": two processes never hold it at once.
ExclusiveHolder == \A p, q \in Proc : Held(p) /\ Held(q) => p = q

=============================================================================
