# TLA+ development for the mcu-co SDK

The SDK is a C library, a command line tool and four examples with which a Linux
host drives the mcu-co coprocessor over a serial line. A command is one frame
`SOF OPCODE LEN PAYLOAD CRC`, its reply one frame `SOF LEN ACK/NACK [DATA] CRC`.
A reply carries neither an opcode nor a sequence number: the host takes the next
good frame for the answer to the command it has just sent. Most of what is hard in
this code follows from that.

## 1. Inventory

| Component | State | Operations | Interacts with |
|---|---|---|---|
| uart port (`uart.c`) | descriptor; the tty's settings and exclusive flag | `uart_open`, `configure_port`, `uart_close` | other processes on the device |
| uart I/O (`uart.c`) | `total_read`, `total_written`, its own deadline | `uart_read`, `uart_write` | kernel queue, clock, signals |
| command transport (`command_transport.c`) | deadline of the reply, `frame[9]` | `transmit_command`, `receive_response`, `read_exactly` | calls uart I/O and the parser |
| protocol (`protocol.c`) | none | 16 frame builders, `protocol_parse_response` | `crc16.c`, `endianess.c` |
| session (`mcuco.c`) | `fd`, `timeout_ms` | `mcuco_open`, `mcuco_close`, `exchange`, 16 commands | transport, protocol |
| crc16, endianess, status | none | pure functions | protocol, session, command line tool |
| command line tool (`cli/`) | parsed arguments | argument parsers, command table, one session per run | session |
| examples | `stop_requested` | signal loops, set-up and clean-up | session |
| firmware (not in this repository) | pending commands | executes and answers, or stays silent | the line |

What makes each one correct:

- **uart port**: a failed open leaves nothing behind; a handle has the settings that
  are read back; one process at a time.
- **transport**: no read leaves `frame[]`; `timeout_ms` bounds the whole call, from
  above (plus scheduling delays) and from below; every call returns; how the bytes
  are divided into reads does not matter.
- **session**: the reply handed to the caller is the reply to its command, and its status
  tells what became of the command.
- **protocol, crc16, endianess**: what is built is what is parsed; damage is detected.
- **uart_write**: a frame reported as sent is on its way whole; one reported as not
  sent cannot be executed.
- **command line tool**: what is typed is what is sent, and nothing it accepts is
  refused later.
- **examples**: they end when told to and leave the coprocessor clean.

What is hard to test: two processes inside `uart_open`; replies that arrive after
their command was abandoned; a process killed in the middle of an exchange; three
deadlines computed from different readings of the clock, and a clock that outgrows its
`long` between them; signals during `poll`, `read` and `write`; replies and commands in pieces; one process
meeting the late replies of another. `PROJECT.json` lists each hazard at its line.

## 2. Modules

| Module | Models | Kind |
|---|---|---|
| `ResponseReader` | `receive_response` as a consumer of bytes, no clock | abstract specification |
| `CommandTransport` | `receive_response`, `read_exactly`, `uart_read`, with the clock | implements `ResponseReader` |
| `Mcuco` | `mcuco_open`, `exchange`, the commands, `mcuco_close`; firmware and line | composes `ResponseReader` |
| `UartPort` | `uart_open`, `configure_port`, `uart_close`, several processes | component |
| `CommandWriter` | `transmit_command`, `uart_write` | component |
| `DeadlineClock` | the clock arithmetic of `receive_response`, `read_exactly`, `uart_read` in a 32-bit `long` that overflows | component |
| `Cli` | `parse_config`, the parsers, the command table and the `run_` functions | component, on top of `Protocol` |
| `McucoEffects` | `Mcuco` with the history of what the firmware has executed | on top of `Mcuco` |
| `Examples` | the four programs under `examples/`, one after the other | component, uses commands as `Mcuco` offers them on a line that was quiet at open |
| `Crc16` | `crc16_compute`, and polynomial division as its reference | operators |
| `Protocol` | the builders, `protocol_parse_response`, `endianess.c`; the frame each command sends and what it returns for a reply | operators |
| `ProtocolTrial` | calls and replies that try `Protocol` over bounded inputs | environment of `Protocol` |
| `ResponseStream` | `ResponseReader` with the history of the bytes a call has taken, and what a stream of bytes means | on top of `ResponseReader` |
| `MC*` | constants for TLC | |
| `*_proofs` | theorems; `Mcuco_proofs` is also about `McucoEffects`, `Protocol_proofs` about `Crc16`, `ProtocolTrial` and `Cli` | |

Definitions called *Mutant* are plausible bugs, one per property; no specification
uses them. Each shows that its property can be broken.

### ResponseReader

`rx` is the kernel's receive queue, `phase` the read in progress (`sof`, `len`,
`body`), `frame` what has been read. `TakeSof` is one turn of the do-while loop,
`TakeLen` the range check of LEN, `TakeBody(k)` a read of `k` more bytes, the last of
which ends in `protocol_parse_response`. `GiveUp` is the deadline or a failing
descriptor. `Byte` is any set and `Val` its octets, so that `Mcuco` can tag bytes;
`Intact` is the set of frames whose CRC matches. `receive_response` always calls the
parser with SOF in place, LEN in range and exactly the announced length, so only the
CRC test of the parser decides. `ResponseStream` adds `taken`, the bytes the call has taken
from the queue, and defines what a stream means without any notion of reads.

### CommandTransport

One action per reading of the clock and per system call:

| pc | Action | Code |
|---|---|---|
| idle | `ReceiveResponse(t)` | deadline of the whole reply |
| read_exactly | `ReadExactly` | `time_left_ms`, NO_RESPONSE when it is used up |
| uart_read | `UartRead` | uart_read's own deadline |
| loop | `UartReadLoop` | `while` head, second `time_left_ms` |
| poll | `PollCall` | poll starts: its expiry is a third deadline |
| wait | `PollReady`, `PollTimeout`, `PollInterrupted`, `PollFails`, `PollHangup` | poll returns |
| read | `ReadBytes(k)`, `ReadInterrupted`, `ReadFails`, `ReadNothing` | read returns |

A read that completes the piece asked for continues in the same action with what
`receive_response` does next (`SofRead`, `LenRead`, `BodyRead`), because nothing
observable lies between. `Tick` advances the clock. While the process is runnable
it may be kept waiting at most `MaxLag` ticks (`lag`); blocked in poll it waits for
bytes or for the expiry. `Drain` is another descriptor on the same device: see the
race of `UartPort`. `limit` is history: when the caller's time is up.

### Mcuco

Each reply byte carries, as history, the command it answers; the host never looks at
it. The CRC is ideal: it accepts a whole undamaged reply and nothing else. `Open` is
`open_port` including `tcflush`; the probe of `mcuco_open` is an exchange like any
other, and `Return` closes the port when it did not succeed. `Killed` ends the process
anywhere. The firmware handles commands in order and answers each once (`Accept`,
`Reject`) or not at all (`Ignore`); a reset discards what it has not looked at. The
line loses and damages bytes, never reorders them. Commands are grouped by what their
handler does with the reply: `probe` compares the magic, `read` stands for
`mcuco_gpio_get`, `mcuco_gpio_toggle`, `mcuco_pwm_group_get` and
`mcuco_pwm_channel_get`, which check the width of the data, `write` for the commands that pass
no response to `exchange` and check nothing.

### UartPort

One action per system call of `configure_port`; each can fail. `tcflush` belongs to
`SetBlocking` here because its result is ignored; its effect on the queue is in
`Mcuco`. The exclusive flag and the settings belong to the tty, as in the kernel, and
an `open` without privileges is refused while the flag is set. `settings` is the set of
settings that are as the MCU needs them: `tcsetattr` may succeed and apply only some of
those asked for (`Settings`), and of the result the code compares three (`Verified`: eight
data bits, no parity and one stop bit, the output speed).

### CommandWriter

`stream` is every byte the kernel has taken, each known by its call and its position;
`drained` of them have left. `Transmit` is the entry of `transmit_command`, `Loop` the test
of the `while`, `Write(k)` a `write` that takes `k` bytes, as many as fit or fewer when a
signal arrives, `WriteInterrupted` EINTR before the first byte, `WriteFails` any other
error, after which the caller may use the handle again. The descriptor blocks, so a full queue
makes `write` wait. After `Unplug` only errors are left. `Killed` leaves the queue to the
kernel and the device to another process, whose `tcflush` is for input only.

### DeadlineClock

The steps of `CommandTransport` that read the clock, with the data left out and every
value a `long` of `LONG_MAX`. `now` is what the program sees, `uptime` the true time and
`limit` the true time at which the caller's timeout is up. Signed overflow is undefined in C:
no flag of the build defines it, and `CMakeLists.txt` leaves the optimisation to the packager.
A stored value wraps; the test `time_left_ms <= 0` of a difference that overflows is a choice
between the wrapped difference and a comparison of its operands, which a compiler that assumes
no overflow may make of it (`TimeLeft`). `poll` with a negative timeout has no expiry.

### Cli

A word is its text, or the number `strtoul` finds in it with its sign and a mark for what
follows. A line is its `argv` and what the user means by it: `typed`, the words of the command,
and `timeout`, the last deadline given. `CommandLine` relates the two without any notion of
parsing: every word of `argv` is one of the command, an option or the argument of an option,
in any order and number, and behind `--` there are words of the command only; none of its
words is spelled like an option. One action per outcome of `getopt_long`, which moves the
words that are no options to the end; then `ParseCommand`, `OpenDevice` and `RunCommand`, which hands the
fields to the library and ends with the frame of `Protocol`. Short and long options are
the same to the code behind `getopt_long`.

### McucoEffects

Adds `executed`, the commands the firmware has acknowledged in their order, whether or not
the reply gets through. Its two properties are what a caller, a script of `mcu-co-cli` runs
among them, may conclude from a status: every run of the tool is an `Open`, a probe, one
command and a `Close` of `Mcuco`.

### Crc16, Protocol and ProtocolTrial

A 16-bit word is the set of its one bits: exclusive or is the symmetric difference, and a
word is also a polynomial. `crc16_compute` follows the code bit by bit; `CrcReference`
divides the whole message. Every builder is an operator under its own name, with its
argument checks and its casts to octets; `<<>>` stands for ERR_ARG. The functions are
pure, so each step of `ProtocolTrial` tries one call from the same state: a command with
any arguments, a whole reply with other bytes behind it that reaches its own command or
one that waits for another kind, or a reply with one octet or two neighbouring ones
damaged (SOF and LEN unharmed; `receive_response` sees to those). Replies carry the
reference CRC, so that an error shared by builder and parser would show. This is also
what stands behind the ideal CRC of `Mcuco`: damage to one octet or to two neighbouring ones
is always found but for one pattern (`Blind`, see the observations), other damage with the
odds of any 16-bit checksum.

### Examples

`Launch` starts a program on whatever state the last one left the coprocessor in. A
command is an `Exchange` seen from its caller: OK and executed, refused (BUSY, or
ERR_ARG from the library), or failed with the command executed or not. That OK and BUSY are
about the command itself is what `StatusIsTrue` gives, and with its condition: the line had
fallen quiet when the program opened the port. On a line that still carries the reply to an
earlier program's command an OK can be stale (finding 1), and what the run shows about the
examples does not hold there. `Signal` is
`request_stop`, possible between any two steps; `Killed` ends the program without
clean-up. The test of `stop_requested` and the call of `pause` are two steps, and only a
signal that finds the program inside `pause` wakes it. `Loop` is the test of main's loop;
`Ramp`, `SetDuty` and `Nap` are the loop of `ramp`, whose `int` duty is cut to 16 bits
where it is passed on. Frequencies are left out: a group is running or not.

## 3. Runs

| Run | Checks | Shows |
|---|---|---|
| `reader` | `Reassembly` | a call's verdict is the meaning, defined on the whole stream, of exactly the bytes it took |
| `transport` | `TypeOK`, `InBounds`, `OnTime`, `TimesFit`, `NeverEarly`, `ReaderSpec`, `CallReturns` | buffer bounds, the deadline from both sides, times that fit their types, refinement; every call returns |
| `session` | `StalenessBound`, `ReplyOrder`, `StatusIsTrue`, `ExecutedOnce` | a reply is at most as many commands old as exchanges have failed; replies are accepted in order and once; before the first failure the status is the truth about the command; no command is executed twice |
| `session_late_reply` | `ReplyAnswersCommand` | **violated**, see below |
| `port` | `NothingLeftOpen`, `HeldIsConfigured`, `LateOpenRefused` | failing and racing opens are clean |
| `port_race` | `ExclusiveHolder` | **violated**, see below |
| `protocol` | `Unambiguous`, `CrcIsRemainder`, `ReadBack`, `TellsWho`, `DamageDetected` | frames tell all legal calls apart; the CRC is the remainder; readings arrive as sent; a refusal keeps its reason and a reply of the wrong kind is a bad frame; damage to neighbouring octets is found, but for one pattern |
| `writer` | `InOrder`, `OkIffWhole`, `TransmitReturns` | bytes leave in order; OK means whole and an error means not whole; the call returns |
| `clock_overflow` | `ExpiresOnTime` | **violated**, see below |
| `cli` | `TypedIsSent`, `AcceptedIsSendable` | the payload is what the words stand for and the deadline the one typed last, wherever options stand; the builders refuse nothing the parsers accept |
| `examples` | `TakesOver`, `CleanExit`, `Smooth`, `Breathes`, `PollersStop` | leftovers are taken over, a stop request anywhere ends in a clean coprocessor, the ramp reaches its ends in steps, Ctrl-C ends blink, pwm_breathe and pwm_frequency |
| `irq_bind_stop` | `StopsWhenAsked` | **violated**, see below |

### Findings

1. *A late reply answers the next command.* `command_transport.c:77` says that
   scanning for SOF discards a late reply to an abandoned command. A late reply is a
   whole frame and begins with SOF, so it is accepted; nothing is flushed before a
   command is sent, so the link stays one reply behind until the port is reopened on a
   line that has fallen quiet.
   `StalenessBound` says how bad it gets: never older than the number of failed
   exchanges, and exact before the first failure on a line that was quiet at open.
2. *Two processes can hold the port.* `TIOCEXCL` refuses later opens, not descriptors
   that are open already. Two processes that both pass `open` before either reaches
   the `ioctl` both succeed, although `test_uart.cpp:169` says the port is claimed exclusively.
   `LateOpenRefused` is what does hold.
3. *irq_bind can sleep through Ctrl-C.* A signal that arrives after `stop_requested` was
   tested and before `pause` sleeps sets the flag, and `pause` waits for another signal
   (`irq_bind.c:93-96`). The other programs sleep for a bounded time and are not exposed.
4. *The deadline overflows a 32-bit `long`.* The repository ships a toolchain file for a 32-bit
   ARM. There `now_ms() + timeout_ms` and `deadline_ms - now_ms()` overflow from 24.8 days
   of uptime on, against "timeout_ms bounds the whole call ... still expires on time"
   (`uart.h:20`). The run shows a command given up at once, with its whole timeout left;
   without the first conjunct of `ExpiresOnTime` TLC finds the other half broken as well: the
   operands say that time is left, the difference is negative, and `poll` waits without end.
   Both need a compiler that tests the operands. Code that subtracts and tests the wrapped
   result keeps time, which is luck and not a promise of the language.
   `TimesFit` bounds the damage: every time is at most the clock plus the caller's timeout
   and one delay, so nothing overflows before the clock comes that close to `LONG_MAX`, and a
   64-bit `long` never does.

Four observations have no run of their own.

- `uart.h:8` promises "8-bit clean at 115200 8N1, no flow control", and `uart.c:53` knows that
  `tcsetattr` may apply a part of what it is asked for; but of the result only the character
  size, parity, stop bits and the output speed are compared. `uart_open` succeeds on a port
  that stayed in canonical mode, with echo or flow control on, or with another input speed:
  in `UartPort` a held port can lack any setting outside `Verified`, and `HeldIsConfigured`
  promises no more than that.
- The first finding reaches across runs of the tool: a probe that timed out leaves a reply on
  its way, which satisfies the probe of the next run, whose own reply is then taken for the
  answer to its command. `StatusIsTrue` therefore holds up to the first failure, so a script
  that stops there is never misled.
- `parse_frequency` and `parse_timeout` do not ask for a digit first, as the other parsers do
  (`commands.c:65`): `strtoul` wraps a negative number, and one near the modulus lands in the
  announced range. `TypedIsSent` excepts these two, and shows that no other parser lets a minus
  sign through.
- The CRC has a blind spot that a CRC of 16 bits need not have: it travels low octet first
  (`protocol.c:50`, `protocol.c:341`), so that the last octet it covers is followed on the line
  by the half of the CRC that is not its neighbour in the polynomial. A burst that inverts 0x89
  in that octet and 0xA1 in the next passes unnoticed, in every reply. The proof of
  `DamageDetected` failed at this place first; the property now names it and the theorem shows
  that it is the only one within two neighbouring octets.

### Bounds

- `reader`: three octets (SOF, and two values that are lengths, acknowledgements,
  data and checksum), frames of 5 and 6 bytes, streams of up to 7: junk before SOF,
  bytes behind the frame, SOF inside the frame and every division into reads occur.
- `transport`: two octets, `MaxData = 0` (frames of 5 bytes), a queue of 2, so that the
  3-byte body always takes two reads; timeouts -1, 0 and 3, one tick of delay per
  step, and a clock long enough to overrun the deadline by more than the five
  delays `OnTime` allows. The proofs cover all other values.
- `session`: three commands over all processes and one fault, frames of at most one
  data byte, which may look like SOF. Three commands are a probe, a command that is
  abandoned and a victim; one fault truncates or damages any reply.
- `port`: three processes, the tty found with any of the settings right.
- `protocol`: for each argument both sides of its limits, and values that agree in the low
  octet only (0 and 256); inversions of one bit, of all bits and of the two values of the
  blind spot, in every pair of neighbouring octets (the blind pair in a frequency is left out:
  it would read one beyond TLC's integers, as would values from 2^31 on).
- `writer`: frames of 1 and 3 bytes and no frame at all, a queue of 2, so that the longer
  frame never fits, and three calls, so that one follows a broken frame and one a whole,
  on the same handle or another.
- `clock_overflow`: a `long` of four bits and the clock starting anywhere in it.
- `cli`: for each kind of word both sides of its limits, signs, trailing characters, the
  empty word, a wrapped value and one beyond `ULONG_MAX`; every option at every position
  of the commands of up to four words, two options together and apart, options whose argument
  is spelled like an option, options that lack their argument, and commands cut short, too
  long and unknown.
  `ULONG_MAX` is 2^24 - 1, which keeps the sums within TLC's integers and is above every limit.
- `examples`: a range of 5 in steps of 2, so that both ramps end in a clamped step; the
  sequence of programs is not bounded.

Runs that may stop because the clock's bound is reached do not check for deadlock;
`CallReturns` says what a stop could hide. The others do check.

### Fairness

`CallReturns` assumes that the scheduler eventually runs a runnable process (weak
fairness of the steps that need no signal and no failure) and that time diverges
(strong fairness of `Tick`: with weak fairness the environment could fill and drain
the queue for ever between two ticks). Nothing is assumed about signals, bytes or
failures. `Examples` assumes that a running program keeps running: an exchange
returns (`CallReturns`), `sleep` and `nanosleep` end. No second signal is assumed.
`TransmitReturns` assumes that the process runs, that the line drains (`configure_port` turns
flow control off; a driver that is stuck would block `uart_write`, which has no deadline),
and that a signal does not come in before every single `write` (strong fairness of `Write`,
and of `WriteFails` once the device is gone; a process interrupted for ever would loop for
ever). No error is assumed to occur on a device that is there.

## 4. Proofs

`CommandTransport_proofs` proves, for every alphabet, set of timeouts, `MaxData`,
`MaxLag` and bound, `TypeOK`, `InBounds`, `OnTime`, `NeverEarly` and `TimesFit`. The inductive
invariant `IInv` adds

- `BufferInv`: which length each stage's read was given (LEN + 2 for the body, with LEN
  in range), and that a new read starts with nothing read;
- `ClockInv`: how far the deadlines drift. uart_read's deadline lies between the
  call's and one delay later, poll's expiry between uart_read's and one delay later; poll
  returns at most one delay after its expiry, read one delay later, and the next look
  at the clock one more: five in all, and none accumulates from one read to the next,
  since each starts from the call's deadline again.

`OnTime` alone is not inductive, because a stale `left` could carry any value into poll;
`NeverEarly` follows from the lower halves of the same inequalities. `TimesFit` needs to know
in addition that the time left never grows: `SpanInv` says that one of the caller's timeouts
reaches from a moment that is past to the call's deadline and to uart_read's.

The second part of the module proves `Spec => ReaderSpec`. The mapping takes the filled
part of `frame[]` for the reader's `frame`; one lemma per stage shows that the read is
the reader's step, the one for the body by comparing the array after the read, index
by index, with the concatenation.

`ResponseStream_proofs` proves `Reassembly` for every alphabet, `MaxData` and set of intact
frames: however the bytes are divided into reads, a call ends in what the stream of
bytes it has taken means. `StreamInv` adds `Progress`: before SOF the stream holds no SOF;
after it, `frame` is the stream from its first SOF on, and in the body LEN is in range and
the frame not yet complete. So a read that completes the frame meets a stream whose meaning
is decided by that read alone (`Longer`: a stream that already holds its first SOF keeps it;
`MeaningOf`: what a stream with a known first SOF means).

`UartPort_proofs` proves the three properties of the port for any set of processes from
`PortInv`: a descriptor is open exactly from open to close, the character format and the
output speed were verified before the claim and no later `tcsetattr` undoes them, and a claim outlives other processes' closes because the claimer's
own descriptor keeps the tty open.

`Mcuco_proofs` proves `StalenessBound` and `ReplyOrder` for any set of commands, reply
widths, number of commands and faults. Neither is inductive: both follow from where
every byte lies. `McInv` says that

- `Ordered`: frame, queue and line together hold bytes in the order of the commands they
  answer, the last byte of a reply behind its others, and commands not yet handled are
  younger than all of them;
- `Fresh`: everything pending is younger than the last reply accepted;
- `Recent`: the oldest pending answer is at most `debt` commands old, one less between
  commands;
- `Taken`: once a reply is accepted, all that is pending is younger than it.

The step that matters is the end of a frame. The CRC passes only a frame that ends in
the last byte of a reply; by `Ordered` nothing of that reply or an earlier one is left
behind it, which gives `Taken`, and `Return` turns `Taken` into `Fresh` and `Recent` for the
next command. Losing or damaging bytes only removes candidates.

The same module proves `ExecutedOnce` and `StatusIsTrue` of `McucoEffects`. `EffectInv` is
`McInv` with

- `InTurn`: commands are executed in the order they were sent, and those that wait are
  later than those executed, so none can be executed a second time;
- `Told`: the ACK/NACK byte of every reply the host has or may still get, unless damaged,
  tells whether the command it answers was executed. It stays true because a command is
  executed when its reply is made and, by `InTurn`, never afterwards;
- `Settled`: the command of an accepted reply does not wait any more;
- `Held`: a reply is held from the end of `receive_response` to the return only, and is intact.

The property speaks of the command the reply *answers*, which as
the run `session_late_reply` shows need not be the one that was called.

`CommandWriter_proofs` proves `InOrder` and `OkIffWhole` for every set of lengths, queue and
number of calls. `Front` ties the loop to the stream: the bytes of the current call are
those up to `total_written`, the last of them is the last of the stream, and no byte
belongs to a later call. With it, `Write` continues the order, and a call that returns
knows whether its last byte is there.

`Examples_proofs` proves `TakesOver`, `CleanExit` and `Smooth` for every set of groups, range
and step of the duty. Besides `Place` (which program can be at which step), `ExInv` holds
`Blame`, that only a failed exchange makes a program's status bad, from which `CleanExit`
follows at the exits; `Freed`, that nobody takes the group between its release and the second
attempt, which with `Blame` gives `TakesOver`; and `Close`, that the local duty of `ramp` and
the duty that is set are at most a step apart, except after a stop request, when the second
ramp starts at the top and sets nothing. `Smooth` is an action property and follows from
`Close` and the clamp at both ends.

`Protocol_proofs` proves every property of the runs `protocol` and `cli`, for all arguments,
replies, damage and command lines that the assumptions admit.

*Induction.* The library's induction theorems take an operator, which the provers cannot
instantiate. The existence of minimal elements (`WFMin`) is about sets, so an induction is
done by the least counterexample: `LeastNumber` gives every set of naturals a least member,
`Induction` follows for a set, and `Iteration` says that the function a recursion defines
exists and satisfies its equations. `ShiftsDef`, `RegistersDef` and `DivisionDef` unfold the
two loops of `crc16_compute` and the division by it.

*The CRC* (`CrcAgrees`, and with it `CrcIsRemainder`). The invariant `InStep` relates the
register after `n` octets to the division after `8n` steps: what is left of the message is the
register shifted to its place, added to the octets that are still ahead (`Ahead`).
`OctetDivides` shows that eight turns of the inner loop are eight steps of the division, where
the octet that is added at the top of the register is the part of the message the division
reaches next. The seed is sixteen ones ahead of the message (`ShiftedSeed`).

*Replies* (`ReadBack`, `TellsWho`). `ParseFramed` says what `protocol_parse_response` makes of a
whole frame followed by any bytes; `CrcAgrees` makes the reference CRC of the reply the one the
parser computes. `Answer` is then what every command returns, in a case per kind, and
`ReplyInv` says that each trial ended in its answer.

*Damage* (`DamageDetected`). A pass over the register is linear (`PassLinear`) and loses nothing
(`PassKernel`). So the registers of the reply as sent and as received agree up to the first
damaged octet and come apart there (`ApartAtHit`). The next octet cannot bring them together:
the two inversions together are one of a word of 16 bits, high and low octet, which two
passes do not lose (`InnerDamageShows`); and once apart they stay apart (`ApartPasses`). Where
the second inversion hits the CRC itself, `BlindSpot` follows the bits through eight turns: a
difference in the low octet of the CRC alone comes from one inversion only (`EdgeDamageShows`).

*Commands* (`Unambiguous`) and *the tool* (`AcceptedIsSendable`, `TypedIsSent`).

- A frame carries its opcode, the length of its payload and its octets (`FrameCarries`), so
  equal frames have equal opcodes and payloads (`SameFrame`). This part never looks into
  `crc16_compute`: it holds whatever the checksum is.
- Each command uses one builder under one opcode (`FrameOf`, `OpcodesDiffer`), and its payload
  determines its arguments as far as its argument checks let them through
  (`PayloadDecodes`): this is where the casts to octets and the order of `endianess.c` count.
- What a parser of the tool accepts lies in the range its builder checks (`ParsersInRange`),
  for values that wrap in `strtoul` too. `TableIsSound` goes through the 16 rows of the
  command table: no row fills a field twice, its words are passed on in their order, and the
  fields it fills are sendable. `RowsDiffer` makes the row that `args_parse_mcuco` finds
  unique, and `CliInv` carries its acceptance from `ParseCommand` through opening the device
  to `RunCommand`.
- `GetoptInv` says how far `getopt_long` has come: `ReadTo`, that it never stands on the argument
  of an option, and how many words of the command are behind it; `WordsAre`, that those are the
  words it has set aside, in their order; `Deadline`, that the deadline is the last one given so
  far, or the default. Neither holds without the first: an option's argument spelled `-t` would
  be read as an option. `AtDashes` deals with `--`, which hands over all the rest at once.
- At the end the words are those typed. `WordOctets` shows for each kind of word that the
  value its parser accepts is coded as the octets the word stands for, `Keywords` for those
  that are spelled out and `DigitsTyped` for numbers; `Flattened` unrolls the fold that joins
  them, and `FramePayload` finds them between the head and the CRC of the frame.

The inductive invariants were model-checked on the runs' instances before they were proved.
The assumptions are the named ASSUMEs of the modules, which TLC evaluates on the runs.

What stays with TLC: `CallReturns`, `PollersStop`, `Breathes` and `TransmitReturns`, which are
liveness under fairness, and `DeadlineClock`, whose run is a counterexample. Every other property that holds on a run, invariant, action property
or refinement, is also a theorem.

## 5. Not modelled

Every operation of the repository's code that changes state is modelled. Left out are
`status.c`, a table of wording; what the tool and the examples print; the checks for NULL
arguments; and the firmware, of which only the replies the host's code expects are
modelled: what it does in the middle of a broken frame is its own, and its NACK reasons are
1 to 127, as `mcuco.h:6` promises (a reason of 0 would be read as success).
