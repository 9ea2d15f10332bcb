--------------------------- MODULE Examples_proofs ---------------------------
(***************************************************************************)
(* Proofs about Examples, for every set of programs, duty range and duty   *)
(* step.                                                                   *)
(***************************************************************************)
EXTENDS Examples, TLAPS

Labels == {"off", "open", "setup", "claim", "reclaim", "release", "channel", "loop",
           "high", "low", "sleep_high", "sleep_low", "pause", "paused",
           "ramp", "set", "nap", "group", "get", "next", "reset"}
Pins == {"led", "button", "armed", "bound", "channel"}
Mcu == [pins : SUBSET Pins, high : BOOLEAN, groups : SUBSET Groups, duty : 0 .. DutyMax]

Kinds ==
    /\ prog \in {"blink", "irq_bind", "pwm_breathe", "pwm_frequency"}
    /\ pc \in Labels
    /\ stop \in BOOLEAN /\ ok \in BOOLEAN /\ failed \in BOOLEAN
    /\ code \in {"none", "success", "failure", "killed"}

Sizes ==
    /\ done \in Nat
    /\ duty \in 0 .. DutyMax
    /\ to \in {0, DutyMax}
    /\ mcu \in Mcu

\* Which program is where.
Place ==
    /\ pc = "open" => done = 0
    /\ pc = "setup" => prog \in {"blink", "irq_bind"} /\ done + 1 \in DOMAIN SetUpPins
    /\ pc \in {"claim", "reclaim", "release", "channel", "ramp", "set", "nap"}
          => prog = "pwm_breathe"
    /\ pc \in {"high", "low", "sleep_high", "sleep_low"} => prog = "blink"
    /\ pc \in {"pause", "paused"} => prog = "irq_bind"
    /\ pc = "loop" => prog # "pwm_frequency"
    /\ pc \in {"group", "get", "next"} => prog = "pwm_frequency" /\ done \in Groups

\* A running program has not ended, and only a failed exchange makes its
\* status bad.
Blame ==
    /\ pc # "off" => code = "none"
    /\ ~ok => failed

\* Between the release and the second attempt nobody takes the group.
Freed == pc = "reclaim" => LED_GROUP \notin mcu.groups

\* ramp's local and the duty that is set are a step apart at most, except after
\* a stop request, when the second ramp begins at the top and sets nothing.
Near == mcu.duty - duty \in -DutyStep .. DutyStep
Close ==
    /\ pc = "loop" /\ prog = "pwm_breathe" => stop \/ mcu.duty = 0
    /\ pc = "ramp" => stop \/ Near
    /\ pc \in {"set", "nap"} => Near

ExInv == Kinds /\ Sizes /\ Place /\ Blame /\ Freed /\ Close /\ TakesOver /\ CleanExit

-----------------------------------------------------------------------------
(* Commands.                                                               *)

LEMMA Constants ==
    /\ DutyMax \in Nat /\ 0 < DutyMax /\ DutyMax < 65536
    /\ DutyStep \in Nat /\ 0 < DutyStep
    /\ 0 \in 0 .. DutyMax
<1>1. /\ DutyMax \in Nat /\ 0 < DutyMax /\ DutyMax < 65536
      /\ DutyStep \in Nat /\ 0 < DutyStep
  BY ExamplesAssumption
<1>2. 0 \in 0 .. DutyMax
  BY <1>1
<1>. QED  BY <1>1, <1>2

LEMMA Programs == Prog \subseteq {"blink", "irq_bind", "pwm_breathe", "pwm_frequency"}
BY ExamplesAssumption

(* Which commands the coprocessor or the library can refuse.               *)
LEMMA Refusals ==
    /\ \A a : ~Refused("read", a) /\ ~Refused("level", a) /\ ~Refused("release", a)
             /\ ~Refused("channel", a) /\ ~Refused("reset", a)
    /\ \A g : Refused("group", g) <=> g \in mcu.groups
    /\ \A d : Refused("duty", d) <=> d > DutyMax
BY DEF Refused

(* What a command leaves, whether its answer comes back or not.            *)
LEMMA Outcomes ==
    ASSUME NEW op, NEW a, NEW s \in Statuses, Exchange(op, a, s)
    PROVE  \/ s = "OK" /\ ~Refused(op, a) /\ mcu' = Effect(op, a) /\ failed' = failed
           \/ s = "REFUSED" /\ Refused(op, a) /\ mcu' = mcu /\ failed' = failed
           \/ s = "FAIL" /\ failed' = TRUE /\ mcu' = mcu
           \/ s = "FAIL" /\ failed' = TRUE /\ ~Refused(op, a) /\ mcu' = Effect(op, a)
BY Zenon DEF Exchange

LEMMA NotRefused ==
    ASSUME NEW op, NEW a, NEW s \in Statuses, Exchange(op, a, s), ~Refused(op, a)
    PROVE  /\ mcu' = mcu \/ mcu' = Effect(op, a)
           /\ \/ s = "OK" /\ mcu' = Effect(op, a) /\ failed' = failed
              \/ s = "FAIL" /\ s # "OK" /\ s # "REFUSED" /\ failed' = TRUE
BY Outcomes, Zenon

(* The coprocessor with one field changed.                                 *)
LEMMA Fields ==
    ASSUME NEW m \in Mcu
    PROVE  /\ \A p \in SUBSET Pins : /\ [m EXCEPT !.pins = p] \in Mcu
                                     /\ [m EXCEPT !.pins = p].groups = m.groups
           /\ \A h \in BOOLEAN : [m EXCEPT !.high = h] \in Mcu
           /\ \A g \in SUBSET Groups : /\ [m EXCEPT !.groups = g] \in Mcu
                                       /\ [m EXCEPT !.groups = g].groups = g
           /\ \A d \in 0 .. DutyMax : /\ [m EXCEPT !.duty = d] \in Mcu
                                      /\ [m EXCEPT !.duty = d].duty = d
BY DEF Mcu

LEMMA Effects ==
    ASSUME mcu \in Mcu
    PROVE  /\ \A a \in Pins : Effect("pin", a) \in Mcu
           /\ \A a \in BOOLEAN : Effect("level", a) \in Mcu
           /\ \A a \in Groups : Effect("group", a) \in Mcu
           /\ \A a \in Groups : Effect("release", a) \in Mcu
                               /\ a \notin Effect("release", a).groups
           /\ \A a : Effect("channel", a) \in Mcu /\ Effect("channel", a).duty = 0
           /\ \A a \in 0 .. DutyMax : Effect("duty", a) \in Mcu /\ Effect("duty", a).duty = a
           /\ \A a : Effect("read", a) = mcu
           /\ \A a : Effect("reset", a) = Idle /\ Idle \in Mcu
<1>0. mcu.pins \in SUBSET Pins /\ mcu.groups \in SUBSET Groups
  BY DEF Mcu
<1>1. \A a \in Pins : Effect("pin", a) \in Mcu
  <2>. TAKE a \in Pins
  <2>1. Effect("pin", a) = [mcu EXCEPT !.pins = mcu.pins \cup {a}]
    BY Zenon DEF Effect
  <2>2. mcu.pins \cup {a} \in SUBSET Pins
    BY <1>0
  <2>. QED  BY <2>1, <2>2, Fields, Zenon
<1>2. \A a \in BOOLEAN : Effect("level", a) \in Mcu
  <2>. TAKE a \in BOOLEAN
  <2>1. Effect("level", a) = [mcu EXCEPT !.high = a]
    BY Zenon DEF Effect
  <2>2. [mcu EXCEPT !.high = a] \in Mcu
    BY Fields
  <2>. QED  BY <2>1, <2>2, Zenon
<1>3. \A a \in Groups : Effect("group", a) \in Mcu
  <2>. TAKE a \in Groups
  <2>1. Effect("group", a) = [mcu EXCEPT !.groups = mcu.groups \cup {a}]
    BY Zenon DEF Effect
  <2>2. mcu.groups \cup {a} \in SUBSET Groups
    BY <1>0
  <2>. QED  BY <2>1, <2>2, Fields, Zenon
<1>4. \A a \in Groups : Effect("release", a) \in Mcu /\ a \notin Effect("release", a).groups
  <2>. TAKE a \in Groups
  <2>. DEFINE g == mcu.groups \ {a}
              n == [mcu EXCEPT !.groups = g]
              p == mcu.pins \ {"channel"}
  <2>1. Effect("release", a) = [n EXCEPT !.pins = p]
    BY Zenon DEF Effect
  <2>2. g \in SUBSET Groups /\ p \in SUBSET Pins /\ a \notin g
    BY <1>0
  <2>3. n \in Mcu /\ n.groups = g
    BY <2>2, Fields, Zenon
  <2>. HIDE DEF n, g, p
  <2>4. [n EXCEPT !.pins = p] \in Mcu /\ [n EXCEPT !.pins = p].groups = g
    BY <2>2, <2>3, Fields, Zenon
  <2>. QED  BY <2>1, <2>2, <2>4, Zenon
<1>5. \A a : Effect("channel", a) \in Mcu /\ Effect("channel", a).duty = 0
  <2>. TAKE a
  <2>. DEFINE p == mcu.pins \cup {"channel"}
              n == [mcu EXCEPT !.pins = p]
  <2>1. Effect("channel", a) = [n EXCEPT !.duty = 0]
    BY Zenon DEF Effect
  <2>2. p \in SUBSET Pins /\ 0 \in 0 .. DutyMax
    BY <1>0, Constants DEF Pins
  <2>3. n \in Mcu
    BY <2>2, Fields, Zenon
  <2>. HIDE DEF n, p
  <2>4. [n EXCEPT !.duty = 0] \in Mcu /\ [n EXCEPT !.duty = 0].duty = 0
    BY <2>2, <2>3, Fields, Zenon
  <2>. QED  BY <2>1, <2>4, Zenon
<1>6. \A a \in 0 .. DutyMax : Effect("duty", a) \in Mcu /\ Effect("duty", a).duty = a
  <2>. TAKE a \in 0 .. DutyMax
  <2>1. Effect("duty", a) = [mcu EXCEPT !.duty = a]
    BY Zenon DEF Effect
  <2>2. [mcu EXCEPT !.duty = a] \in Mcu /\ [mcu EXCEPT !.duty = a].duty = a
    BY Fields
  <2>. QED  BY <2>1, <2>2, Zenon
<1>7. \A a : Effect("read", a) = mcu /\ Effect("reset", a) = Idle
  BY Zenon DEF Effect
<1>8. Idle \in Mcu
  BY Constants DEF Idle, Mcu
<1>. QED  BY <1>1, <1>2, <1>3, <1>4, <1>5, <1>6, <1>7, <1>8, Zenon

-----------------------------------------------------------------------------
(* One lemma per action.                                                   *)

LEMMA InitInv == Init => ExInv
<1>. SUFFICES ASSUME Init PROVE ExInv
  OBVIOUS
<1>1. Kinds
  BY Programs, Zenon DEF Init, Kinds, Labels
<1>2. Sizes
  BY Constants DEF Init, Sizes, Idle, Mcu
<1>. QED  BY <1>1, <1>2 DEF Init, ExInv, Place, Blame, Freed, Close, TakesOver, CleanExit

LEMMA StutterInv == ASSUME ExInv, UNCHANGED vars PROVE ExInv'
BY DEF vars, ExInv, Kinds, Sizes, Place, SetUpPins, Blame, Freed, Close, Near, TakesOver, CleanExit

LEMMA LaunchInv == ASSUME ExInv, NEW p \in Prog, Launch(p) PROVE ExInv'
<1>1. Kinds'
  BY Programs, Zenon DEF Launch, ExInv, Kinds, Labels
<1>2. Sizes'
  BY Constants DEF Launch, ExInv, Sizes
<1>. QED  BY <1>1, <1>2 DEF Launch, ExInv, Place, Blame, Freed, Close, TakesOver, CleanExit

(* The program goes on: it has not ended, so nothing is said yet.          *)
LEMMA GoingOn ==
    ASSUME ExInv, pc # "off", pc' \in Labels, pc' # "off", UNCHANGED <<prog, code>>,
           stop' \in BOOLEAN, ok' \in BOOLEAN, failed' \in BOOLEAN, ~ok' => failed',
           Sizes', Place', Freed', Close'
    PROVE  ExInv'
<1>1. Kinds'
  BY Zenon DEF ExInv, Kinds
<1>2. Blame' /\ TakesOver' /\ CleanExit'
  BY DEF ExInv, Blame, TakesOver, CleanExit
<1>. QED  BY <1>1, <1>2 DEF ExInv

(* The program gives up in its set-up.                                     *)
LEMMA GivingUp ==
    ASSUME ExInv, pc' = "off", code' = "failure", UNCHANGED <<prog, stop, ok>>, Sizes',
           failed' = TRUE \/ (failed' = failed /\ prog # "pwm_breathe")
    PROVE  ExInv'
<1>1. Kinds'
  BY Zenon DEF ExInv, Kinds, Labels
<1>2. Place' /\ Blame' /\ Freed' /\ Close' /\ TakesOver' /\ CleanExit'
  BY DEF ExInv, Place, Blame, Freed, Close, TakesOver, CleanExit
<1>. QED  BY <1>1, <1>2 DEF ExInv

LEMMA OpenInv == ASSUME ExInv, Open PROVE ExInv'
<1>1. PICK s \in Statuses : Exchange("read", "probe", s) /\ GoOnOrExit(s = "OK", AfterOpen)
  BY DEF Open
<1>2. /\ pc = "open" /\ UNCHANGED <<prog, stop, done, duty, to, ok>>
      /\ Kinds /\ Sizes /\ done = 0 /\ (~ok => failed)
  BY DEF Open, ExInv, Blame, Place
<1>3. /\ mcu' = mcu
      /\ (s = "OK" /\ failed' = failed) \/ (s # "OK" /\ failed' = TRUE)
  <2>1. ~Refused("read", "probe") /\ Effect("read", "probe") = mcu
    BY <1>2, Refusals, Effects, Zenon DEF Sizes
  <2>. QED  BY <1>1, <2>1, NotRefused, Zenon
<1>4. Sizes'
  BY <1>2, <1>3 DEF Sizes
<1>5. CASE s = "OK"
  <2>1. pc' = AfterOpen /\ code' = code /\ failed' = failed
    BY <1>1, <1>3, <1>5, Zenon DEF GoOnOrExit
  <2>2. \/ pc' = "setup" /\ prog \in {"blink", "irq_bind"}
        \/ pc' = "claim" /\ prog = "pwm_breathe"
        \/ pc' = "group" /\ prog = "pwm_frequency"
    BY <1>2, <2>1, Zenon DEF AfterOpen, Kinds
  <2>3. Place' /\ Freed' /\ Close'
    BY <1>2, <2>2 DEF Place, SetUpPins, Groups, Freed, Close
  <2>4. pc' \in Labels /\ pc' # "off" /\ pc # "off"
    BY <1>2, <2>2, Zenon DEF Labels
  <2>. QED  BY <1>2, <1>4, <2>1, <2>3, <2>4, GoingOn, Zenon DEF Kinds
<1>6. CASE s # "OK"
  <2>1. pc' = "off" /\ code' = "failure" /\ failed' = TRUE
    BY <1>1, <1>3, <1>6, Zenon DEF GoOnOrExit, Exit
  <2>. QED  BY <1>2, <1>4, <2>1, GivingUp, Zenon
<1>. QED  BY <1>5, <1>6

LEMMA SetUpInv == ASSUME ExInv, SetUp PROVE ExInv'
<1>. DEFINE x == SetUpPins[done + 1]
<1>1. PICK s \in Statuses :
        /\ Exchange("pin", x, s)
        /\ GoOnOrExit(s = "OK", IF done + 1 = Len(SetUpPins) THEN "loop" ELSE "setup")
  BY DEF SetUp
<1>2. /\ pc = "setup" /\ done' = done + 1 /\ UNCHANGED <<prog, stop, duty, to, ok>>
      /\ Kinds /\ Sizes /\ (~ok => failed)
      /\ prog \in {"blink", "irq_bind"} /\ done \in Nat /\ done + 1 \in DOMAIN SetUpPins
  BY DEF SetUp, ExInv, Blame, Place, Sizes
<1>3. x \in Pins /\ (done + 1 = Len(SetUpPins) \/ (done + 1) + 1 \in DOMAIN SetUpPins)
  <2>1. CASE prog = "blink"
    BY <1>2, <2>1 DEF SetUpPins, Pins
  <2>2. CASE prog = "irq_bind"
    BY <1>2, <2>2 DEF SetUpPins, Pins
  <2>. QED  BY <1>2, <2>1, <2>2
<1>. HIDE DEF x
<1>4. /\ mcu' = mcu \/ mcu' = Effect("pin", x)
      /\ (s = "OK" /\ failed' = failed) \/ (s # "OK" /\ failed' \in {failed, TRUE})
  BY <1>1, Outcomes, Zenon
<1>5. Sizes'
  <2>1. mcu' \in Mcu
    BY <1>2, <1>3, <1>4, Effects, Zenon DEF Sizes
  <2>. QED  BY <1>2, <2>1 DEF Sizes
<1>6. CASE s = "OK"
  <2>1. /\ pc' = (IF done + 1 = Len(SetUpPins) THEN "loop" ELSE "setup")
        /\ code' = code /\ failed' = failed
    BY <1>1, <1>4, <1>6, Zenon DEF GoOnOrExit
  <2>2. \/ pc' = "loop"
        \/ pc' = "setup" /\ done' + 1 \in DOMAIN SetUpPins
    BY <1>2, <1>3, <2>1
  <2>3. Place' /\ Freed' /\ Close'
    BY <1>2, <2>2 DEF Place, SetUpPins, Freed, Close
  <2>4. pc' \in Labels /\ pc' # "off" /\ pc # "off"
    BY <1>2, <2>2, Zenon DEF Labels
  <2>. QED  BY <1>2, <1>5, <2>1, <2>3, <2>4, GoingOn, Zenon DEF Kinds
<1>7. CASE s # "OK"
  <2>1. pc' = "off" /\ code' = "failure"
    BY <1>1, <1>7, Zenon DEF GoOnOrExit, Exit
  <2>2. prog # "pwm_breathe" /\ failed' \in {failed, TRUE}
    BY <1>2, <1>4, <1>7, Zenon
  <2>. QED  BY <1>2, <1>5, <2>1, <2>2, GivingUp, Zenon
<1>. QED  BY <1>6, <1>7

(* The second attempt is not refused: the group was released before it.    *)
LEMMA ClaimInv == ASSUME ExInv, Claim PROVE ExInv'
<1>1. PICK s \in Statuses :
        /\ Exchange("group", LED_GROUP, s)
        /\ \/ s = "REFUSED" /\ pc = "claim" /\ pc' = "release" /\ UNCHANGED code
           \/ ~(s = "REFUSED" /\ pc = "claim") /\ GoOnOrExit(s = "OK", "channel")
  BY DEF Claim
<1>2. /\ pc \in {"claim", "reclaim"} /\ UNCHANGED <<prog, stop, done, duty, to, ok>>
      /\ Kinds /\ Sizes /\ (~ok => failed) /\ prog = "pwm_breathe"
      /\ pc = "reclaim" => LED_GROUP \notin mcu.groups
  BY DEF Claim, ExInv, Blame, Place, Freed
<1>3. LED_GROUP \in Groups
  BY DEF LED_GROUP, Groups
<1>4. /\ mcu' = mcu \/ mcu' = Effect("group", LED_GROUP)
      /\ \/ s = "OK" /\ failed' = failed
         \/ s = "REFUSED" /\ failed' = failed /\ LED_GROUP \in mcu.groups
         \/ s = "FAIL" /\ failed' = TRUE
  BY <1>1, Outcomes, Refusals, Zenon
<1>5. Sizes'
  <2>1. mcu' \in Mcu
    BY <1>2, <1>3, <1>4, Effects, Zenon DEF Sizes
  <2>. QED  BY <1>2, <2>1 DEF Sizes
<1>6. CASE pc' \in {"release", "channel"} /\ code' = code /\ failed' = failed
  <2>1. Place' /\ Freed' /\ Close'
    BY <1>2, <1>6 DEF Place, Freed, Close
  <2>2. pc' \in Labels /\ pc' # "off" /\ pc # "off"
    BY <1>2, <1>6, Zenon DEF Labels
  <2>. QED  BY <1>2, <1>5, <1>6, <2>1, <2>2, GoingOn, Zenon DEF Kinds
<1>7. CASE pc' = "off" /\ code' = "failure" /\ failed' = TRUE
  BY <1>2, <1>5, <1>7, GivingUp, Zenon
<1>8. \/ pc' \in {"release", "channel"} /\ code' = code /\ failed' = failed
      \/ pc' = "off" /\ code' = "failure" /\ failed' = TRUE
  BY <1>1, <1>2, <1>4 DEF GoOnOrExit, Exit
<1>. QED  BY <1>6, <1>7, <1>8

LEMMA ReleaseInv == ASSUME ExInv, Release PROVE ExInv'
<1>1. PICK s \in Statuses :
        Exchange("release", LED_GROUP, s) /\ GoOnOrExit(s = "OK", "reclaim")
  BY DEF Release
<1>2. /\ pc = "release" /\ UNCHANGED <<prog, stop, done, duty, to, ok>>
      /\ Kinds /\ Sizes /\ (~ok => failed) /\ prog = "pwm_breathe"
  BY DEF Release, ExInv, Blame, Place
<1>3. LED_GROUP \in Groups
  BY DEF LED_GROUP, Groups
<1>4. /\ mcu' = mcu \/ mcu' = Effect("release", LED_GROUP)
      /\ \/ s = "OK" /\ mcu' = Effect("release", LED_GROUP) /\ failed' = failed
         \/ s # "OK" /\ failed' = TRUE
  BY <1>1, NotRefused, Refusals, Zenon
<1>5. mcu' \in Mcu /\ (s = "OK" => LED_GROUP \notin mcu'.groups)
  BY <1>2, <1>3, <1>4, Effects, Zenon DEF Sizes
<1>6. Sizes'
  BY <1>2, <1>5 DEF Sizes
<1>7. CASE s = "OK"
  <2>1. pc' = "reclaim" /\ code' = code /\ failed' = failed
    BY <1>1, <1>4, <1>7, Zenon DEF GoOnOrExit
  <2>2. Place' /\ Freed' /\ Close'
    BY <1>2, <1>5, <1>7, <2>1 DEF Place, Freed, Close
  <2>3. pc' \in Labels /\ pc' # "off" /\ pc # "off"
    BY <1>2, <2>1, Zenon DEF Labels
  <2>. QED  BY <1>2, <1>6, <2>1, <2>2, <2>3, GoingOn, Zenon DEF Kinds
<1>8. CASE s # "OK"
  <2>1. pc' = "off" /\ code' = "failure" /\ failed' = TRUE
    BY <1>1, <1>4, <1>8, Zenon DEF GoOnOrExit, Exit
  <2>. QED  BY <1>2, <1>6, <2>1, GivingUp, Zenon
<1>. QED  BY <1>7, <1>8

LEMMA ChannelInv == ASSUME ExInv, ChannelCfg PROVE ExInv'
<1>1. PICK s \in Statuses :
        Exchange("channel", LED_GROUP, s) /\ GoOnOrExit(s = "OK", "loop")
  BY DEF ChannelCfg
<1>2. /\ pc = "channel" /\ UNCHANGED <<prog, stop, done, duty, to, ok>>
      /\ Kinds /\ Sizes /\ (~ok => failed) /\ prog = "pwm_breathe"
  BY DEF ChannelCfg, ExInv, Blame, Place
<1>3. /\ mcu' = mcu \/ mcu' = Effect("channel", LED_GROUP)
      /\ \/ s = "OK" /\ mcu' = Effect("channel", LED_GROUP) /\ failed' = failed
         \/ s # "OK" /\ failed' = TRUE
  BY <1>1, NotRefused, Refusals, Zenon
<1>4. mcu' \in Mcu /\ (s = "OK" => mcu'.duty = 0)
  BY <1>2, <1>3, Effects, Zenon DEF Sizes
<1>5. Sizes'
  BY <1>2, <1>4 DEF Sizes
<1>6. CASE s = "OK"
  <2>1. pc' = "loop" /\ code' = code /\ failed' = failed
    BY <1>1, <1>3, <1>6, Zenon DEF GoOnOrExit
  <2>2. Place' /\ Freed' /\ Close'
    BY <1>2, <1>4, <1>6, <2>1 DEF Place, Freed, Close
  <2>3. pc' \in Labels /\ pc' # "off" /\ pc # "off"
    BY <1>2, <2>1, Zenon DEF Labels
  <2>. QED  BY <1>2, <1>5, <2>1, <2>2, <2>3, GoingOn, Zenon DEF Kinds
<1>7. CASE s # "OK"
  <2>1. pc' = "off" /\ code' = "failure" /\ failed' = TRUE
    BY <1>1, <1>3, <1>7, Zenon DEF GoOnOrExit, Exit
  <2>. QED  BY <1>2, <1>5, <2>1, GivingUp, Zenon
<1>. QED  BY <1>6, <1>7

LEMMA LoopInv == ASSUME ExInv, Loop PROVE ExInv'
<1>1. /\ pc = "loop" /\ duty' = 0 /\ to' = DutyMax
      /\ UNCHANGED <<prog, stop, done, ok, code, failed, mcu>>
      /\ pc' = "reset" \/ (~stop /\ pc' = Turn)
      /\ Kinds /\ Sizes /\ (~ok => failed) /\ prog # "pwm_frequency"
      /\ prog = "pwm_breathe" => stop \/ mcu.duty = 0
  BY DEF Loop, ExInv, Blame, Place, Close
<1>2. \/ pc' = "reset"
      \/ pc' = "high" /\ prog = "blink"
      \/ pc' = "pause" /\ prog = "irq_bind"
      \/ pc' = "ramp" /\ prog = "pwm_breathe" /\ ~stop
  BY <1>1, Zenon DEF Turn, Kinds
<1>3. Sizes'
  BY <1>1, Constants DEF Sizes
<1>4. Place' /\ Freed'
  BY <1>1, <1>2 DEF Place, Freed
<1>5. Close'
  BY <1>1, <1>2, Constants DEF Close, Near
<1>6. pc' \in Labels /\ pc' # "off" /\ pc # "off"
  BY <1>1, <1>2, Zenon DEF Labels
<1>. QED  BY <1>1, <1>3, <1>4, <1>5, <1>6, GoingOn, Zenon DEF Kinds

LEMMA BlinkInv == ASSUME ExInv, Blink PROVE ExInv'
<1>. DEFINE h == (pc = "high")
<1>1. PICK s \in Statuses :
        /\ Exchange("level", h, s)
        /\ ok' = (s = "OK")
        /\ pc' = IF s = "OK" THEN IF pc = "high" THEN "sleep_high" ELSE "sleep_low"
                 ELSE "reset"
  BY Zenon DEF Blink
<1>2. /\ pc \in {"high", "low"} /\ UNCHANGED <<prog, stop, done, duty, to, code>>
      /\ Kinds /\ Sizes /\ prog = "blink"
  BY DEF Blink, ExInv, Place
<1>3. h \in BOOLEAN
  BY Zenon
<1>. HIDE DEF h
<1>4. /\ mcu' = mcu \/ mcu' = Effect("level", h)
      /\ (s = "OK" /\ failed' = failed) \/ (s # "OK" /\ failed' = TRUE)
  BY <1>1, NotRefused, Refusals, Zenon
<1>5. Sizes'
  <2>1. mcu' \in Mcu
    BY <1>2, <1>3, <1>4, Effects, Zenon DEF Sizes
  <2>. QED  BY <1>2, <2>1 DEF Sizes
<1>6. pc' \in {"sleep_high", "sleep_low", "reset"}
  BY <1>1, Zenon
<1>7. Place' /\ Freed' /\ Close'
  BY <1>2, <1>6 DEF Place, Freed, Close
<1>8. pc' \in Labels /\ pc' # "off" /\ pc # "off"
  BY <1>2, <1>6, Zenon DEF Labels
<1>9. ok' \in BOOLEAN /\ failed' \in BOOLEAN /\ (~ok' => failed')
  BY <1>1, <1>2, <1>4, Zenon DEF Kinds
<1>. QED  BY <1>2, <1>5, <1>7, <1>8, <1>9, GoingOn, Zenon DEF Kinds

(* The steps between commands.                                             *)
LEMMA WaitInv == ASSUME ExInv, Sleep \/ Pause \/ Nap PROVE ExInv'
<1>1. /\ UNCHANGED <<prog, stop, done, duty, to, ok, code, failed, mcu>>
      /\ \/ pc \in {"sleep_high", "sleep_low"} /\ pc' \in {"low", "loop"}
         \/ pc = "pause" /\ pc' = "paused"
         \/ pc = "nap" /\ pc' = "ramp"
      /\ Kinds /\ Sizes /\ Place /\ Close /\ (~ok => failed)
  BY DEF Sleep, Pause, Nap, ExInv, Blame
<1>2. Sizes'
  BY <1>1 DEF Sizes
<1>3. Place' /\ Freed' /\ Close'
  BY <1>1 DEF Place, Freed, Close, Near
<1>4. pc' \in Labels /\ pc' # "off" /\ pc # "off"
  BY <1>1, Zenon DEF Labels
<1>. QED  BY <1>1, <1>2, <1>3, <1>4, GoingOn, Zenon DEF Kinds

LEMMA RampInv == ASSUME ExInv, Ramp PROVE ExInv'
<1>1. /\ pc = "ramp" /\ UNCHANGED <<prog, stop, done, ok, code, failed, mcu>>
      /\ Kinds /\ Sizes /\ (~ok => failed) /\ prog = "pwm_breathe"
      /\ stop \/ Near
  BY DEF Ramp, ExInv, Blame, Place, Close
<1>2. \/ stop /\ pc' = "ramp" /\ duty' = DutyMax /\ to' = 0
      \/ stop /\ pc' = "loop" /\ UNCHANGED <<duty, to>>
      \/ ~stop /\ pc' = "set" /\ UNCHANGED <<duty, to>>
  BY DEF Ramp, RampReturns
<1>3. Sizes'
  BY <1>1, <1>2, Constants DEF Sizes
<1>4. Place' /\ Freed' /\ Close'
  BY <1>1, <1>2 DEF Place, Freed, Close, Near
<1>5. pc' \in Labels /\ pc' # "off" /\ pc # "off"
  BY <1>1, <1>2, Zenon DEF Labels
<1>. QED  BY <1>1, <1>3, <1>4, <1>5, GoingOn, Zenon DEF Kinds

(* A duty of the ramp fits the argument of mcuco_pwm_channel_set, and the  *)
(* library takes it.                                                       *)
LEMMA DutyFits == ASSUME Sizes PROVE Duty16 = duty /\ ~Refused("duty", duty)
<1>1. duty \in Nat /\ duty <= DutyMax /\ duty < 65536
  BY Constants DEF Sizes
<1>2. Duty16 = duty
  BY <1>1 DEF Duty16
<1>3. ~(duty > DutyMax)
  BY <1>1, Constants
<1>. QED  BY <1>2, <1>3, Refusals

(* The next duty is one step away at most, and in range.                   *)
LEMMA NextDutyNear ==
    ASSUME Sizes
    PROVE  NextDuty \in 0 .. DutyMax /\ duty - NextDuty \in -DutyStep .. DutyStep
BY Constants DEF Sizes, NextDuty

LEMMA SetDutyInv == ASSUME ExInv, SetDuty PROVE ExInv'
<1>1. PICK s \in Statuses :
        /\ Exchange("duty", Duty16, s)
        /\ ok' = (s = "OK")
        /\ IF s # "OK" THEN pc' = "reset" /\ UNCHANGED <<duty, to>>
           ELSE IF duty = to THEN RampReturns
           ELSE pc' = "nap" /\ duty' = NextDuty /\ UNCHANGED to
  BY Zenon DEF SetDuty
<1>2. /\ pc = "set" /\ UNCHANGED <<prog, stop, done, code>>
      /\ Kinds /\ Sizes /\ prog = "pwm_breathe"
  BY DEF SetDuty, ExInv, Place
<1>3. /\ mcu' = mcu \/ mcu' = Effect("duty", duty)
      /\ \/ s = "OK" /\ mcu' = Effect("duty", duty) /\ failed' = failed
         \/ s # "OK" /\ failed' = TRUE
  BY <1>1, <1>2, NotRefused, DutyFits, Zenon
<1>4. mcu' \in Mcu /\ (s = "OK" => mcu'.duty = duty)
  <2>1. mcu \in Mcu /\ duty \in 0 .. DutyMax
    BY <1>2 DEF Sizes
  <2>2. Effect("duty", duty) \in Mcu /\ Effect("duty", duty).duty = duty
    BY <2>1, Effects
  <2>. QED  BY <1>3, <2>1, <2>2
<1>5. \/ pc' = "reset" /\ UNCHANGED <<duty, to>>
      \/ mcu'.duty = DutyMax /\ pc' = "ramp" /\ duty' = DutyMax /\ to' = 0
      \/ mcu'.duty = 0 /\ pc' = "loop" /\ UNCHANGED <<duty, to>>
      \/ mcu'.duty = duty /\ pc' = "nap" /\ duty' = NextDuty /\ UNCHANGED to
  BY <1>1, <1>2, <1>4 DEF RampReturns, Sizes
<1>6. Sizes'
  BY <1>2, <1>4, <1>5, NextDutyNear, Constants DEF Sizes
<1>7. Place' /\ Freed'
  BY <1>2, <1>5 DEF Place, Freed
<1>8. Close'
  BY <1>2, <1>5, NextDutyNear, Constants DEF Close, Near
<1>9. pc' \in Labels /\ pc' # "off" /\ pc # "off"
  BY <1>2, <1>5, Zenon DEF Labels
<1>10. ok' \in BOOLEAN /\ failed' \in BOOLEAN /\ (~ok' => failed')
  BY <1>1, <1>2, <1>3, Zenon DEF Kinds
<1>. QED  BY <1>2, <1>6, <1>7, <1>8, <1>9, <1>10, GoingOn, Zenon DEF Kinds

(* pwm_frequency.                                                          *)
LEMMA GroupInv == ASSUME ExInv, GroupCfg \/ GroupGet PROVE ExInv'
<1>1. PICK s \in Statuses : Exchange("group", done, s) \/ Exchange("read", done, s)
  BY DEF GroupCfg, GroupGet
<1>2. /\ pc \in {"group", "get"} /\ pc' \in {"next", "get"}
      /\ UNCHANGED <<prog, stop, done, duty, to, ok, code>>
      /\ Kinds /\ Sizes /\ (~ok => failed) /\ prog = "pwm_frequency" /\ done \in Groups
  BY DEF GroupCfg, GroupGet, ExInv, Blame, Place
<1>3. failed' \in {failed, TRUE} /\ mcu' \in {mcu, Effect("group", done), Effect("read", done)}
  BY <1>1, Outcomes, Zenon
<1>4. Sizes'
  <2>1. mcu' \in Mcu
    BY <1>2, <1>3, Effects, Zenon DEF Sizes
  <2>. QED  BY <1>2, <2>1 DEF Sizes
<1>5. Place' /\ Freed' /\ Close'
  BY <1>2 DEF Place, Freed, Close
<1>6. pc' \in Labels /\ pc' # "off" /\ pc # "off"
  BY <1>2, Zenon DEF Labels
<1>7. failed' \in BOOLEAN /\ (~ok' => failed')
  <2>1. ok' = ok /\ (ok \/ failed = TRUE)
    BY <1>2, Zenon DEF Kinds
  <2>2. failed = TRUE => failed' = TRUE
    BY <1>3, Zenon
  <2>3. failed' \in BOOLEAN
    BY <1>2, <1>3, Zenon DEF Kinds
  <2>. QED  BY <2>1, <2>2, <2>3, Zenon
<1>. QED  BY <1>2, <1>4, <1>5, <1>6, <1>7, GoingOn, Zenon DEF Kinds

LEMMA NextGroupInv == ASSUME ExInv, NextGroup PROVE ExInv'
<1>1. /\ pc = "next" /\ UNCHANGED <<prog, stop, duty, to, ok, code, failed, mcu>>
      /\ \/ pc' \in {"next", "group"} /\ done' = done + 1 /\ done' \in Groups
         \/ pc' = "reset" /\ done' = done
      /\ Kinds /\ Sizes /\ (~ok => failed) /\ prog = "pwm_frequency"
  BY DEF NextGroup, ExInv, Blame, Place
<1>2. Sizes'
  BY <1>1 DEF Sizes
<1>3. Place' /\ Freed' /\ Close'
  BY <1>1 DEF Place, Freed, Close
<1>4. pc' \in Labels /\ pc' # "off" /\ pc # "off"
  BY <1>1, Zenon DEF Labels
<1>. QED  BY <1>1, <1>2, <1>3, <1>4, GoingOn, Zenon DEF Kinds

LEMMA ResetInv == ASSUME ExInv, Reset PROVE ExInv'
<1>1. PICK s \in Statuses : Exchange("reset", "all", s)
  BY DEF Reset
<1>2. /\ pc = "reset" /\ UNCHANGED <<prog, stop, done, duty, to, ok>>
      /\ pc' = "off" /\ code' = (IF ok THEN "success" ELSE "failure")
      /\ Kinds /\ Sizes /\ (~ok => failed)
  BY DEF Reset, Exit, ExInv, Blame
<1>3. ~Refused("reset", "all") /\ Effect("reset", "all") = Idle /\ Idle \in Mcu
  BY <1>2, Refusals, Effects, Zenon DEF Sizes
<1>4. /\ mcu' = mcu \/ mcu' = Idle
      /\ (mcu' = Idle /\ failed' = failed) \/ failed' = TRUE
  BY <1>1, <1>3, NotRefused, Zenon
<1>5. Sizes'
  BY <1>2, <1>3, <1>4 DEF Sizes
<1>6. Kinds'
  BY <1>2, <1>4, Zenon DEF Kinds, Labels
<1>7. Place' /\ Freed' /\ Close'
  BY <1>2 DEF Place, Freed, Close
<1>8. ~ok' => failed'
  <2>1. ok' = ok /\ (ok \/ failed = TRUE)
    BY <1>2, Zenon DEF Kinds
  <2>2. failed = TRUE => failed' = TRUE
    BY <1>4, Zenon
  <2>. QED  BY <2>1, <2>2, Zenon
<1>9. Blame' /\ TakesOver'
  BY <1>2, <1>8, Zenon DEF Blame, TakesOver
<1>10. CleanExit'
  BY <1>4, Zenon DEF CleanExit, Idle
<1>. QED  BY <1>5, <1>6, <1>7, <1>9, <1>10 DEF ExInv

(* A signal or a kill finds the program anywhere.                          *)
LEMMA SignalInv == ASSUME ExInv, Signal PROVE ExInv'
<1>1. /\ pc # "off" /\ stop' = TRUE /\ UNCHANGED <<prog, done, duty, to, ok, code, failed, mcu>>
      /\ pc' = pc \/ (pc = "paused" /\ pc' = "loop")
      /\ Kinds /\ Sizes /\ Place /\ Freed /\ Close /\ (~ok => failed)
  BY DEF Signal, ExInv, Blame
<1>2. Sizes'
  BY <1>1 DEF Sizes
<1>3. Place' /\ Freed'
  BY <1>1 DEF Place, Freed, SetUpPins
<1>4. Close'
  BY <1>1 DEF Close, Near
<1>5. pc' \in Labels /\ pc' # "off"
  BY <1>1, Zenon DEF Kinds, Labels
<1>. QED  BY <1>1, <1>2, <1>3, <1>4, <1>5, GoingOn, Zenon DEF Kinds

LEMMA KilledInv == ASSUME ExInv, Killed PROVE ExInv'
<1>1. /\ pc' = "off" /\ code' = "killed"
      /\ UNCHANGED <<prog, stop, done, duty, to, ok, failed, mcu>>
      /\ Kinds /\ Sizes /\ (~ok => failed)
  BY DEF Killed, Exit, ExInv, Blame
<1>2. Kinds'
  BY <1>1, Zenon DEF Kinds, Labels
<1>3. Sizes'
  BY <1>1 DEF Sizes
<1>. QED  BY <1>1, <1>2, <1>3 DEF ExInv, Place, Blame, Freed, Close, TakesOver, CleanExit

-----------------------------------------------------------------------------
(* Theorems.                                                               *)

LEMMA Invariance == Spec => []ExInv
<1>1. ExInv /\ [Next]_vars => ExInv'
  <2>. SUFFICES ASSUME ExInv, [Next]_vars PROVE ExInv'
    OBVIOUS
  <2>. QED
    BY StutterInv, LaunchInv, OpenInv, SetUpInv, ClaimInv, ReleaseInv, ChannelInv,
       LoopInv, BlinkInv, WaitInv, RampInv, SetDutyInv, GroupInv, NextGroupInv,
       ResetInv, SignalInv, KilledInv DEF Next, Program
<1>. QED  BY InitInv, <1>1, PTL DEF Spec

(* Whatever an earlier program left running and whenever a signal comes,   *)
(* pwm_breathe fails only when an exchange of its own failed: claim_group  *)
(* is refused at most once, and no duty it computes is out of range.       *)
THEOREM GroupTakenOver == Spec => []TakesOver
<1>1. ExInv => TakesOver
  BY DEF ExInv
<1>. QED  BY Invariance, <1>1, PTL

(* Every program that ends by itself with its exchanges answered leaves    *)
(* the coprocessor idle.                                                   *)
THEOREM NothingLeftRunning == Spec => []CleanExit
<1>1. ExInv => CleanExit
  BY DEF ExInv
<1>. QED  BY Invariance, <1>1, PTL

(* For every duty range and every step, also one that does not divide it   *)
(* or is larger than it, the LED never jumps by more than a step.          *)
THEOREM SmoothRamps == Spec => Smooth
<1>1. ExInv /\ [Next]_vars
        => [pc = "set" => mcu'.duty - mcu.duty \in -DutyStep .. DutyStep]_vars
  <2>. SUFFICES ASSUME ExInv, Next, pc = "set"
                PROVE  mcu'.duty - mcu.duty \in -DutyStep .. DutyStep
    OBVIOUS
  <2>1. /\ mcu \in Mcu /\ duty \in 0 .. DutyMax /\ Sizes
        /\ mcu.duty \in 0 .. DutyMax /\ Near
    BY DEF ExInv, Sizes, Mcu, Close
  <2>2. SetDuty \/ Signal \/ Killed
    BY DEF Next, Program, Launch, Open, SetUp, Claim, Release, ChannelCfg, Loop, Blink,
           Sleep, Pause, Ramp, Nap, GroupCfg, GroupGet, NextGroup, Reset
  <2>3. mcu' = mcu \/ mcu' = Effect("duty", duty)
    <3>1. CASE SetDuty
      BY <2>1, <3>1, NotRefused, DutyFits, Zenon DEF SetDuty
    <3>2. CASE Signal \/ Killed
      BY <3>2 DEF Signal, Killed
    <3>. QED  BY <2>2, <3>1, <3>2
  <2>4. mcu'.duty = mcu.duty \/ mcu'.duty = duty
    BY <2>1, <2>3, Effects
  <2>. QED  BY <2>1, <2>4, Constants DEF Near
<1>. QED  BY Invariance, <1>1, PTL DEF Spec, Smooth

=============================================================================
