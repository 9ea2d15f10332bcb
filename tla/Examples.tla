------------------------------ MODULE Examples ------------------------------
(***************************************************************************)
(* The programs under examples/: one runs at a time, ended by Ctrl-C        *)
(* (SIGINT or SIGTERM, whose handler raises stop_requested), by a failing   *)
(* command, or killed; the coprocessor keeps what it was told for the next. *)
(* A command is one exchange of Mcuco, seen from its caller: OK, refused    *)
(* (BUSY), or failed with the command executed or not.  OK and refused are  *)
(* said of the command itself: every program is taken to open a line that   *)
(* has fallen quiet (StatusIsTrue of McucoEffects says why that matters).   *)
(***************************************************************************)
EXTENDS Integers, Sequences

CONSTANTS
    Prog,       \* the programs that are run
    DutyMax,    \* DUTY_MAX
    DutyStep    \* DUTY_STEP

ASSUME ExamplesAssumption ==
    /\ Prog \subseteq {"blink", "irq_bind", "pwm_breathe", "pwm_frequency"}
    /\ DutyMax \in Nat /\ 0 < DutyMax /\ DutyMax < 65536
    /\ DutyStep \in Nat /\ 0 < DutyStep /\ DutyStep < 65536

VARIABLES
    prog,       \* the program running, or the last that ran
    pc,         \* where it is, "off" when it has ended
    stop,       \* stop_requested
    done,       \* set-up commands, or groups, done so far
    duty, to,   \* ramp: its local, and where it goes
    ok,         \* main's status is MCUCO_STATUS_OK
    code,       \* how the program ended
    failed,     \* history: an exchange of this run failed
    mcu         \* the coprocessor

vars == <<prog, pc, stop, done, duty, to, ok, code, failed, mcu>>

Groups == 0 .. 2
LED_GROUP == 0

\* The coprocessor: the pins set up, the level of the LED, the PWM groups
\* running and the duty of the LED's channel.
Idle == [pins |-> {}, high |-> FALSE, groups |-> {}, duty |-> 0]

Init ==
    /\ prog \in Prog
    /\ pc = "off"
    /\ stop = FALSE
    /\ done = 0
    /\ duty = 0
    /\ to = 0
    /\ ok = TRUE
    /\ code = "none"
    /\ failed = FALSE
    /\ mcu = Idle

-----------------------------------------------------------------------------
(* Commands.                                                               *)

\* What the coprocessor makes of a command, from mcuco.h.
Effect(op, arg) ==
    CASE op = "pin"     -> [mcu EXCEPT !.pins = @ \cup {arg}]
      [] op = "level"   -> [mcu EXCEPT !.high = arg]
      [] op = "group"   -> [mcu EXCEPT !.groups = @ \cup {arg}]
      [] op = "release" -> [mcu EXCEPT !.groups = @ \ {arg}, !.pins = @ \ {"channel"}]
      [] op = "channel" -> [mcu EXCEPT !.pins = @ \cup {"channel"}, !.duty = 0]
      [] op = "duty"    -> [mcu EXCEPT !.duty = arg]
      [] op = "read"    -> mcu
      [] op = "reset"   -> Idle

\* Refused with nothing changed.  By the coprocessor (BUSY): a live group is
\* not reconfigured, a binding not replaced.  By the library (ERR_ARG): a duty
\* above DUTY_MAX is not sent.
Refused(op, arg) ==
    \/ op = "group" /\ arg \in mcu.groups
    \/ op = "pin" /\ arg = "bound" /\ arg \in mcu.pins
    \/ op = "duty" /\ arg > DutyMax

Statuses == {"OK", "REFUSED", "FAIL"}

\* One exchange, and its status.
Exchange(op, arg, s) ==
    \/ s = "OK" /\ ~Refused(op, arg) /\ mcu' = Effect(op, arg) /\ UNCHANGED failed
    \/ s = "REFUSED" /\ Refused(op, arg) /\ UNCHANGED <<mcu, failed>>
    \/ /\ s = "FAIL"
       /\ mcu' = mcu \/ (~Refused(op, arg) /\ mcu' = Effect(op, arg))
       /\ failed' = TRUE

\* mcuco_close and the end of main.
Exit(c) == pc' = "off" /\ code' = c

\* The program goes on at a label, or fails without a reset.
GoOnOrExit(good, label) ==
    \/ good /\ pc' = label /\ UNCHANGED code
    \/ ~good /\ Exit("failure")

-----------------------------------------------------------------------------
(* main: set-up.                                                           *)

Launch(p) ==
    /\ pc = "off"
    /\ prog' = p
    /\ pc' = "open"
    /\ stop' = FALSE
    /\ done' = 0
    /\ ok' = TRUE
    /\ code' = "none"
    /\ duty' = 0
    /\ to' = 0
    /\ failed' = FALSE
    /\ UNCHANGED mcu

AfterOpen ==
    CASE prog \in {"blink", "irq_bind"} -> "setup"
      [] prog = "pwm_breathe" -> "claim"
      [] prog = "pwm_frequency" -> "group"

\* mcuco_open, with its probe.
Open ==
    /\ pc = "open"
    /\ \E s \in Statuses :
          Exchange("read", "probe", s) /\ GoOnOrExit(s = "OK", AfterOpen)
    /\ UNCHANGED <<prog, stop, done, duty, to, ok>>

SetUpPins ==
    IF prog = "blink" THEN <<"led">> ELSE <<"button", "led", "armed", "bound">>

SetUp ==
    /\ pc = "setup"
    /\ done' = done + 1
    /\ \E s \in Statuses :
          /\ Exchange("pin", SetUpPins[done + 1], s)
          /\ GoOnOrExit(s = "OK", IF done + 1 = Len(SetUpPins) THEN "loop" ELSE "setup")
    /\ UNCHANGED <<prog, stop, duty, to, ok>>

\* claim_group: configure; when it is busy, release and configure again.
Claim ==
    /\ pc \in {"claim", "reclaim"}
    /\ \E s \in Statuses :
          /\ Exchange("group", LED_GROUP, s)
          /\ \/ s = "REFUSED" /\ pc = "claim" /\ pc' = "release" /\ UNCHANGED code
             \/ ~(s = "REFUSED" /\ pc = "claim") /\ GoOnOrExit(s = "OK", "channel")
    /\ UNCHANGED <<prog, stop, done, duty, to, ok>>

Release ==
    /\ pc = "release"
    /\ \E s \in Statuses :
          Exchange("release", LED_GROUP, s) /\ GoOnOrExit(s = "OK", "reclaim")
    /\ UNCHANGED <<prog, stop, done, duty, to, ok>>

ChannelCfg ==
    /\ pc = "channel"
    /\ \E s \in Statuses :
          Exchange("channel", LED_GROUP, s) /\ GoOnOrExit(s = "OK", "loop")
    /\ UNCHANGED <<prog, stop, done, duty, to, ok>>

-----------------------------------------------------------------------------
(* The loops.                                                              *)

\* What a turn of main's loop begins with.
Turn ==
    CASE prog = "blink" -> "high"
      [] prog = "irq_bind" -> "pause"
      [] prog = "pwm_breathe" -> "ramp"

\* Mutant: the outer loop of pwm_breathe tests the status only.
LoopUntilFailure ==
    /\ pc = "loop"
    /\ pc' = IF ~ok \/ (stop /\ prog # "pwm_breathe") THEN "reset" ELSE Turn
    /\ duty' = 0
    /\ to' = DutyMax
    /\ UNCHANGED <<prog, stop, done, ok, code, failed, mcu>>

\* Mutant: a stop request ends the program where it is.
LoopExits ==
    /\ pc = "loop"
    /\ IF stop THEN Exit("success") ELSE pc' = Turn /\ UNCHANGED code
    /\ duty' = 0
    /\ to' = DutyMax
    /\ UNCHANGED <<prog, stop, done, ok, failed, mcu>>

\* The test of main's loop, and for pwm_breathe the call of ramp(0, DUTY_MAX).
Loop ==
    /\ pc = "loop"
    /\ pc' = IF stop \/ ~ok THEN "reset" ELSE Turn
    /\ duty' = 0
    /\ to' = DutyMax
    /\ UNCHANGED <<prog, stop, done, ok, code, failed, mcu>>

\* blink: a level, then a second of sleep, which a signal cuts short.
Blink ==
    /\ pc \in {"high", "low"}
    /\ \E s \in Statuses :
          /\ Exchange("level", pc = "high", s)
          /\ ok' = (s = "OK")
          /\ pc' = IF s = "OK" THEN IF pc = "high" THEN "sleep_high" ELSE "sleep_low"
                   ELSE "reset"
    /\ UNCHANGED <<prog, stop, done, duty, to, code>>

Sleep ==
    /\ pc \in {"sleep_high", "sleep_low"}
    /\ pc' = IF pc = "sleep_high" THEN "low" ELSE "loop"
    /\ UNCHANGED <<prog, stop, done, duty, to, ok, code, failed, mcu>>

\* irq_bind: pause returns only from a signal that arrives while it sleeps.
Pause ==
    /\ pc = "pause"
    /\ pc' = "paused"
    /\ UNCHANGED <<prog, stop, done, duty, to, ok, code, failed, mcu>>

\* Mutant: the ramp down is missing.
RampReturnsUpOnly == pc' = "loop" /\ UNCHANGED <<duty, to>>

\* ramp returned OK: main calls ramp(DUTY_MAX, 0), or tests its loop again.
RampReturns ==
    IF to = DutyMax
      THEN pc' = "ramp" /\ duty' = DutyMax /\ to' = 0
      ELSE pc' = "loop" /\ UNCHANGED <<duty, to>>

\* Mutant: an overshooting step is not clamped.
NextDutyUnclamped == duty + (IF to > 0 THEN DutyStep ELSE -DutyStep)

\* Mutant: a step that would overshoot is not taken.
NextDutyStuck ==
    IF to > 0
      THEN IF duty + DutyStep > to THEN duty ELSE duty + DutyStep
      ELSE IF duty - DutyStep < to THEN duty ELSE duty - DutyStep

\* The next duty: one step, clamped to the end of the ramp.
NextDuty ==
    IF to > 0
      THEN IF duty + DutyStep > to THEN to ELSE duty + DutyStep
      ELSE IF duty - DutyStep < to THEN to ELSE duty - DutyStep

\* The test of ramp's loop.
Ramp ==
    /\ pc = "ramp"
    /\ \/ stop /\ RampReturns
       \/ ~stop /\ pc' = "set" /\ UNCHANGED <<duty, to>>
    /\ UNCHANGED <<prog, stop, done, ok, code, failed, mcu>>

\* ramp's duty is an int, mcuco_pwm_channel_set takes a uint16_t.
Duty16 == duty % 65536

\* The body of ramp's loop.
SetDuty ==
    /\ pc = "set"
    /\ \E s \in Statuses :
          /\ Exchange("duty", Duty16, s)
          /\ ok' = (s = "OK")
          /\ IF s # "OK" THEN pc' = "reset" /\ UNCHANGED <<duty, to>>
             ELSE IF duty = to THEN RampReturns
             ELSE pc' = "nap" /\ duty' = NextDuty /\ UNCHANGED to
    /\ UNCHANGED <<prog, stop, done, code>>

\* wait_a_step.
Nap ==
    /\ pc = "nap"
    /\ pc' = "ramp"
    /\ UNCHANGED <<prog, stop, done, duty, to, ok, code, failed, mcu>>

\* report_group: a busy group is read all the same.
GroupCfg ==
    /\ pc = "group"
    /\ \E s \in Statuses :
          /\ Exchange("group", done, s)
          /\ pc' = IF s = "FAIL" THEN "next" ELSE "get"
    /\ UNCHANGED <<prog, stop, done, duty, to, ok, code>>

GroupGet ==
    /\ pc = "get"
    /\ \E s \in Statuses : Exchange("read", done, s)
    /\ pc' = "next"
    /\ UNCHANGED <<prog, stop, done, duty, to, ok, code>>

\* pwm_frequency tests stop_requested before each further group.
NextGroup ==
    /\ pc = "next"
    /\ IF done + 1 \in Groups
         THEN done' = done + 1 /\ pc' = IF stop THEN "next" ELSE "group"
         ELSE pc' = "reset" /\ UNCHANGED done
    /\ UNCHANGED <<prog, stop, duty, to, ok, code, failed, mcu>>

-----------------------------------------------------------------------------
(* The end.                                                                *)

\* mcuco_reset, whatever it returns, and mcuco_close.
Reset ==
    /\ pc = "reset"
    /\ \E s \in Statuses : Exchange("reset", "all", s)
    /\ Exit(IF ok THEN "success" ELSE "failure")
    /\ UNCHANGED <<prog, stop, done, duty, to, ok>>

\* SIGINT or SIGTERM: request_stop runs, and a sleeping pause returns.
Signal ==
    /\ pc # "off"
    /\ stop' = TRUE
    /\ pc' = IF pc = "paused" THEN "loop" ELSE pc
    /\ UNCHANGED <<prog, done, duty, to, ok, code, failed, mcu>>

\* SIGKILL, or a signal before the handlers are installed.
Killed ==
    /\ pc # "off"
    /\ Exit("killed")
    /\ UNCHANGED <<prog, stop, done, duty, to, ok, failed, mcu>>

Program ==
    \/ Open \/ SetUp \/ Claim \/ Release \/ ChannelCfg
    \/ Loop \/ Blink \/ Sleep \/ Pause \/ Ramp \/ SetDuty \/ Nap
    \/ GroupCfg \/ GroupGet \/ NextGroup
    \/ Reset

Next ==
    \/ \E p \in Prog : Launch(p)
    \/ Program
    \/ Signal
    \/ Killed

\* A running program keeps running: exchanges return (CommandTransport), and
\* so do sleep and nanosleep.  Nobody has to send a second signal.
Spec == Init /\ [][Next]_vars /\ WF_vars(Program)

-----------------------------------------------------------------------------
(* Properties.                                                             *)

\* "Take the group over rather than making the user power-cycle the board":
\* whatever earlier programs left running, pwm_breathe gives up only when an
\* exchange of its own failed, never on its own arguments.
TakesOver == prog = "pwm_breathe" /\ code = "failure" => failed

\* A program that ends by itself, its exchanges answered, leaves nothing
\* running, wherever in its set-up or its loop the stop request found it.
CleanExit == code = "success" /\ ~failed => mcu = Idle

\* The brightness never jumps: not at the turning points, not after the
\* clamped step, not when the channel is taken over at any duty.
Smooth ==
    [][pc = "set" => mcu'.duty - mcu.duty \in -DutyStep .. DutyStep]_vars

\* Every ramp gets to its end, also when the step does not divide the range.
Breathes ==
    \A end \in {0, DutyMax} :
        pc = "set" /\ to = end ~> mcu.duty = end \/ stop \/ failed \/ pc = "off"

\* Wherever the stop request finds blink, pwm_breathe and pwm_frequency - in the
\* set-up, in either ramp, in a wait or between two loops - the program ends.
PollersStop == stop /\ prog # "irq_bind" ~> pc = "off"

\* "Ctrl-C to exit": once the stop request is in, the program ends.
StopsWhenAsked == stop ~> pc = "off"

=============================================================================
