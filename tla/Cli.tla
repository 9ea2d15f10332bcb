--------------------------------- MODULE Cli ---------------------------------
(***************************************************************************)
(* The command line of mcu-co-cli: parse_config and parse_timeout of        *)
(* cli/main.c, and the parsers, the command table and the run_ functions of *)
(* cli/commands.c, down to the frame that is sent.                          *)
(*                                                                         *)
(* A word is what its readers tell apart: its text, when it is a keyword or *)
(* an option, or the number that strtoul finds in it.  getopt_long and      *)
(* strtoul are the C library's (external).  Help, version and error texts   *)
(* are left out.                                                            *)
(***************************************************************************)
EXTENDS Protocol, Integers, SequencesExt

CONSTANTS
    ULONG_MAX,  \* of the platform
    Lines       \* command lines tried; see CommandLine

\* A number word is an optional sign, digits, and possibly more characters; a
\* sign " -" stands for a minus sign behind a blank.
Text(s) == [text |-> s, digits |-> FALSE, sign |-> "", value |-> 0, tail |-> s # ""]
NumberWord(sign, v, tail) == [text |-> "", digits |-> TRUE, sign |-> sign, value |-> v, tail |-> tail]
Num(v) == NumberWord("", v, FALSE)

Word ==
    {w \in [text : STRING, digits : BOOLEAN, sign : {"", "+", "-", " -"}, value : Nat, tail : BOOLEAN] :
        w = IF w.digits THEN NumberWord(w.sign, w.value, w.tail) ELSE Text(w.text)}

\* A command line is the words of a command, with any number of options, known
\* or not, before, between and behind them: typed[i] is the word at[i] of argv,
\* and options are the places of the options.
OptionTexts == {"-d", "-t", "-h", "-V", "-x", "--"}
TakesArgument == {Text("-d"), Text("-t")}
Taken(l) == {k + 1 : k \in {j \in l.options : l.argv[j] \in TakesArgument}} \cap DOMAIN l.argv

Placed(l) ==
    /\ l.typed \in Seq(Word)
    /\ l.at \in [DOMAIN l.typed -> DOMAIN l.argv]
    /\ \A i, j \in DOMAIN l.typed : i < j => l.at[i] < l.at[j]
    /\ \A i \in DOMAIN l.typed :
          l.typed[i] = l.argv[l.at[i]] /\ l.typed[i].text \notin OptionTexts

\* Every word of argv is one of the command, an option, or the argument of
\* one.  Behind "--" there are words of the command only.
Divided(l) ==
    LET command == {l.at[i] : i \in DOMAIN l.typed}
    IN  /\ DOMAIN l.argv = command \cup l.options \cup Taken(l)
        /\ command \cap l.options = {}
        /\ command \cap Taken(l) = {}
        /\ l.options \cap Taken(l) = {}
        /\ \A k \in l.options :
              /\ l.argv[k] = Text(l.argv[k].text) /\ l.argv[k].text \in OptionTexts
              /\ l.argv[k] = Text("--") => {j \in DOMAIN l.argv : j > k} \subseteq command

\* The last --timeout counts; timeout holds its word, if there is one.
Timeouts(l) == {k \in l.options : l.argv[k] = Text("-t") /\ k < Len(l.argv)}
LastTimeout(l) ==
    \/ Timeouts(l) = {} /\ l.timeout = <<>>
    \/ \E k \in Timeouts(l) :
          (\A j \in Timeouts(l) : j <= k) /\ l.timeout = <<l.argv[k + 1]>>

CommandLine(l) == l.argv \in Seq(Word) /\ Placed(l) /\ Divided(l) /\ LastTimeout(l)

ASSUME CliAssumption ==
    /\ ULONG_MAX \in Nat /\ ULONG_MAX > FREQ_MAX
    /\ \A l \in Lines : CommandLine(l)

VARIABLES
    line,       \* what the user typed
    optind,     \* getopt_long's position in argv
    words,      \* the words that are not options, which it moves to the end
    config,     \* config_t
    pc,         \* where main stands
    frame       \* the frame sent

vars == <<line, optind, words, config, pc, frame>>

-----------------------------------------------------------------------------
(* Numbers.                                                                *)

Negative(word) == word.sign \in {"-", " -"}

\* strtoul takes a sign, negates in unsigned arithmetic, and stops at ULONG_MAX.
strtoul(word) ==
    IF word.value > ULONG_MAX THEN ULONG_MAX
    ELSE IF Negative(word) THEN (ULONG_MAX + 1 - word.value) % (ULONG_MAX + 1)
    ELSE word.value
Whole(word) == ~word.tail
OutOfRange(word) == word.value > ULONG_MAX

REJECT == -1

\* A number that starts with a digit and does not exceed max.
Digits(word, max) ==
    IF word.digits /\ word.sign = "" /\ Whole(word) /\ strtoul(word) <= max
      THEN strtoul(word) ELSE REJECT

\* Mutant: sixteen pins, numbered from one.
parse_pin_one_more(word) == Digits(word, PIN_MAX + 1)

parse_pin(word) == Digits(word, PIN_MAX)
parse_timer(word) == Digits(word, GROUP_MAX)
parse_frequency(word) ==
    IF Whole(word) /\ strtoul(word) \in FREQ_MIN .. FREQ_MAX THEN strtoul(word) ELSE REJECT
parse_duty(word) ==
    LET percent == Digits(word, DUTY_MAX \div 10)
    IN  IF percent = REJECT THEN REJECT ELSE percent * 10

TIMEOUT_MIN_MS == 20
TIMEOUT_MAX_MS == 10000

parse_timeout(word) ==
    IF /\ ~OutOfRange(word) /\ word.digits /\ Whole(word)
       /\ strtoul(word) \in TIMEOUT_MIN_MS .. TIMEOUT_MAX_MS
      THEN strtoul(word) ELSE REJECT

-----------------------------------------------------------------------------
(* Keywords.                                                               *)

parse_direction(word) ==
    CASE word.text = "input" -> 0 [] word.text = "output" -> 1 [] OTHER -> REJECT
parse_level(word) ==
    CASE word.text = "low" -> 0 [] word.text = "high" -> 1 [] OTHER -> REJECT
parse_port(word) ==
    CASE word.text = "A" -> 0 [] word.text = "B" -> 1 [] word.text = "C" -> 2
      [] word.text = "D" -> 3 [] word.text = "E" -> 4 [] word.text = "F" -> 5
      [] word.text = "G" -> 6 [] OTHER -> REJECT
parse_polarity(word) ==
    CASE word.text = "active-high" -> 0 [] word.text = "active-low" -> 1 [] OTHER -> REJECT
parse_edge(word) ==
    CASE word.text = "off" -> 0 [] word.text = "rising" -> 1 [] word.text = "falling" -> 2
      [] word.text = "both" -> 3 [] OTHER -> REJECT
parse_bind_edge(word) == IF word.text = "off" THEN REJECT ELSE parse_edge(word)
parse_action(word) ==
    CASE word.text = "low" -> 0 [] word.text = "high" -> 1 [] word.text = "toggle" -> 2
      [] OTHER -> REJECT

parse_value(kind, word) ==
    CASE kind = "DIRECTION" -> parse_direction(word)
      [] kind = "LEVEL" -> parse_level(word)
      [] kind \in {"PORT", "OUT_PORT"} -> parse_port(word)
      [] kind \in {"PIN", "OUT_PIN"} -> parse_pin(word)
      [] kind = "FREQUENCY" -> parse_frequency(word)
      [] kind = "TIMER" -> parse_timer(word)
      [] kind = "POLARITY" -> parse_polarity(word)
      [] kind = "DUTY" -> parse_duty(word)
      [] kind = "EDGE" -> parse_edge(word)
      [] kind = "BIND_EDGE" -> parse_bind_edge(word)
      [] kind = "ACTION" -> parse_action(word)

\* Mutant: the driven pin is stored where the trigger pin is.
FieldOnePin(kind) ==
    IF kind = "BIND_EDGE" THEN "EDGE" ELSE IF kind = "OUT_PIN" THEN "PIN" ELSE kind

\* The field of mcuco_args that a word of this kind fills.
Field(kind) == IF kind = "BIND_EDGE" THEN "EDGE" ELSE kind
Fields == {"DIRECTION", "LEVEL", "PORT", "PIN", "FREQUENCY", "TIMER", "POLARITY", "DUTY",
           "EDGE", "ACTION", "OUT_PORT", "OUT_PIN"}

-----------------------------------------------------------------------------
(* The command table.                                                      *)

Row(subsystem, verb, values, run) ==
    [subsystem |-> subsystem, verb |-> verb, values |-> values, run |-> run]

commands == <<
    Row("mcu", "probe", <<>>, "probe"),
    Row("mcu", "reset", <<>>, "reset"),
    Row("gpio", "cfg", <<"DIRECTION", "PORT", "PIN">>, "gpio_cfg"),
    Row("gpio", "set", <<"LEVEL", "PORT", "PIN">>, "gpio_set"),
    Row("gpio", "get", <<"PORT", "PIN">>, "gpio_get"),
    Row("gpio", "toggle", <<"PORT", "PIN">>, "gpio_toggle"),
    Row("timer", "cfg", <<"FREQUENCY", "TIMER">>, "group_cfg"),
    Row("timer", "get", <<"TIMER">>, "group_get"),
    Row("timer", "release", <<"TIMER">>, "group_release"),
    Row("pwm", "cfg", <<"POLARITY", "PORT", "PIN">>, "channel_cfg"),
    Row("pwm", "set", <<"DUTY", "PORT", "PIN">>, "channel_set"),
    Row("pwm", "get", <<"PORT", "PIN">>, "channel_get"),
    Row("pwm", "release", <<"PORT", "PIN">>, "channel_release"),
    Row("irq", "cfg", <<"EDGE", "PORT", "PIN">>, "irq_cfg"),
    Row("irq", "bind", <<"BIND_EDGE", "PORT", "PIN", "ACTION", "OUT_PORT", "OUT_PIN">>, "irq_bind"),
    Row("irq", "unbind", <<"PORT", "PIN">>, "irq_unbind")>>

\* The fields each run_ function hands to its command, in order.
Passed ==
    [probe |-> <<>>,
     reset |-> <<>>,
     gpio_cfg |-> <<"DIRECTION", "PORT", "PIN">>,
     gpio_set |-> <<"LEVEL", "PORT", "PIN">>,
     gpio_get |-> <<"PORT", "PIN">>,
     gpio_toggle |-> <<"PORT", "PIN">>,
     group_cfg |-> <<"FREQUENCY", "TIMER">>,
     group_release |-> <<"TIMER">>,
     group_get |-> <<"TIMER">>,
     channel_cfg |-> <<"POLARITY", "PORT", "PIN">>,
     channel_set |-> <<"DUTY", "PORT", "PIN">>,
     channel_release |-> <<"PORT", "PIN">>,
     channel_get |-> <<"PORT", "PIN">>,
     irq_cfg |-> <<"EDGE", "PORT", "PIN">>,
     irq_bind |-> <<"EDGE", "PORT", "PIN", "ACTION", "OUT_PORT", "OUT_PIN">>,
     irq_unbind |-> <<"PORT", "PIN">>]

\* The row of the table, 0 for none.
mcuco_find_command(subsystem, verb) ==
    SelectInSeq(commands, LAMBDA r : r.subsystem = subsystem.text /\ r.verb = verb.text)

NoCall == <<"none", <<>>>>

\* args_parse_mcuco and the run_ function of the row it finds: the library call.
args_parse_mcuco(ws) ==
    LET row == IF Len(ws) < 2 THEN 0 ELSE mcuco_find_command(ws[1], ws[2])
        values == commands[row].values
        parsed == [i \in DOMAIN values |-> parse_value(values[i], ws[i + 2])]
        filling(f) == {i \in DOMAIN values : Field(values[i]) = f}
        args == [f \in Fields |-> IF filling(f) = {} THEN 0 ELSE parsed[Max(filling(f))]]
        run == commands[row].run
    IN  IF row = 0 THEN NoCall
        ELSE IF Len(ws) # 2 + Len(values) THEN NoCall
        ELSE IF REJECT \in Range(parsed) THEN NoCall
        ELSE <<run, [i \in DOMAIN Passed[run] |-> args[Passed[run][i]]]>>

-----------------------------------------------------------------------------
(* main.                                                                   *)

Init ==
    /\ line \in Lines
    /\ optind = 1
    /\ words = <<>>
    /\ config = [device |-> Text("/dev/ttyACM0"), timeout |-> 1000, help |-> FALSE, version |-> FALSE]
    /\ pc = "getopt"
    /\ frame = <<>>

argv == line.argv
Here == argv[optind]
Parsing == pc = "getopt" /\ optind <= Len(argv)

\* A word that begins with a minus sign is an option to getopt_long.
IsOption(word) == word.text \in OptionTexts \/ word.sign = "-"

NextWord ==
    /\ Parsing
    /\ ~IsOption(Here)
    /\ words' = Append(words, Here)
    /\ optind' = optind + 1
    /\ UNCHANGED <<line, config, pc, frame>>

EndOfOptions ==
    /\ Parsing
    /\ Here = Text("--")
    /\ words' = words \o SubSeq(argv, optind + 1, Len(argv))
    /\ optind' = Len(argv) + 1
    /\ UNCHANGED <<line, config, pc, frame>>

DeviceOption ==
    /\ Parsing
    /\ Here = Text("-d") /\ optind < Len(argv)
    /\ config' = [config EXCEPT !.device = argv[optind + 1]]
    /\ optind' = optind + 2
    /\ UNCHANGED <<line, words, pc, frame>>

\* A timeout out of range ends the program.
TimeoutOption ==
    /\ Parsing
    /\ Here = Text("-t") /\ optind < Len(argv)
    /\ LET ms == parse_timeout(argv[optind + 1])
       IN  IF ms = REJECT THEN pc' = "usage" /\ UNCHANGED config
           ELSE config' = [config EXCEPT !.timeout = ms] /\ UNCHANGED pc
    /\ optind' = optind + 2
    /\ UNCHANGED <<line, words, frame>>

FlagOption ==
    /\ Parsing
    /\ \/ Here = Text("-h") /\ config' = [config EXCEPT !.help = TRUE]
       \/ Here = Text("-V") /\ config' = [config EXCEPT !.version = TRUE]
    /\ optind' = optind + 1
    /\ UNCHANGED <<line, words, pc, frame>>

\* An option getopt_long does not know, or one without its argument.
BadOption ==
    /\ Parsing
    /\ \/ Here = Text("-x") \/ Here.sign = "-"
       \/ Here \in {Text("-d"), Text("-t")} /\ optind = Len(argv)
    /\ pc' = "usage"
    /\ UNCHANGED <<line, optind, words, config, frame>>

\* The options are read: help and version go first, then the command.
ParseCommand ==
    /\ pc = "getopt"
    /\ optind > Len(argv)
    /\ pc' = IF config.help THEN "help" ELSE IF config.version THEN "version"
             ELSE IF args_parse_mcuco(words) = NoCall THEN "bad" ELSE "open"
    /\ UNCHANGED <<line, optind, words, config, frame>>

\* mcuco_open returns a handle, or the program ends.
OpenDevice ==
    /\ pc = "open"
    /\ pc' \in {"run", "unopened"}
    /\ UNCHANGED <<line, optind, words, config, frame>>

\* mcuco_run_command: the library builds the frame and, unless it refuses the
\* arguments, sends it.
RunCommand ==
    /\ pc = "run"
    /\ frame' = Frame(args_parse_mcuco(words))
    /\ pc' = IF frame' = <<>> THEN "refused" ELSE "sent"
    /\ UNCHANGED <<line, optind, words, config>>

Next ==
    \/ NextWord \/ EndOfOptions \/ DeviceOption \/ TimeoutOption \/ FlagOption \/ BadOption
    \/ ParseCommand \/ OpenDevice \/ RunCommand

Spec == Init /\ [][Next]_vars

-----------------------------------------------------------------------------
(* Properties.                                                             *)

\* The words of each kind, in the order of their encodings in mcuco.h.
Meanings(kind) ==
    CASE kind = "DIRECTION" -> <<"input", "output">>
      [] kind = "LEVEL" -> <<"low", "high">>
      [] kind \in {"PORT", "OUT_PORT"} -> <<"A", "B", "C", "D", "E", "F", "G">>
      [] kind = "POLARITY" -> <<"active-high", "active-low">>
      [] kind \in {"EDGE", "BIND_EDGE"} -> <<"off", "rising", "falling", "both">>
      [] kind = "ACTION" -> <<"low", "high", "toggle">>
      [] OTHER -> <<>>

\* The octets a typed word stands for.
Octets(kind, word) ==
    IF word.digits
      THEN CASE kind = "FREQUENCY" -> put_u32_le(word.value)
             [] kind = "DUTY" -> put_u16_le(10 * word.value)
             [] OTHER -> <<word.value>>
      ELSE <<SelectInSeq(Meanings(kind), LAMBDA m : m = word.text) - 1>>

TypedRow == commands[mcuco_find_command(line.typed[1], line.typed[2])]

\* "Arguments are value-first, matching CLI token order and payload byte order":
\* the payload sent is what the words typed stand for, in the order they were
\* typed, wherever options stand between them, and the deadline is the one
\* asked for.  Numbers are those typed, never wrapped or cut, and a minus sign
\* gets through in two places only: parse_frequency and parse_timeout, which do
\* not ask for a digit first, take what strtoul makes of it.
TypedIsSent ==
    pc = "sent" =>
        LET kinds == TypedRow.values
            wrapped(i) == kinds[i] = "FREQUENCY" /\ Negative(line.typed[i + 2])
        IN  /\ \/ \E i \in DOMAIN kinds : wrapped(i)
               \/ /\ \A i \in DOMAIN kinds : ~Negative(line.typed[i + 2])
                  /\ SubSeq(frame, 4, Len(frame) - 2) =
                        FlattenSeq([i \in DOMAIN kinds |-> Octets(kinds[i], line.typed[i + 2])])
            /\ \/ line.timeout = <<>> /\ config.timeout = 1000
               \/ line.timeout # <<>> /\ (\/ Negative(line.timeout[1])
                                         \/ config.timeout = line.timeout[1].value)

\* What the tool's parsers accept the library's builders accept: no command
\* line is taken, the device opened and probed, and the command then refused.
AcceptedIsSendable == pc # "refused"

=============================================================================
