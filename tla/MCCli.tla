-------------------------------- MODULE MCCli --------------------------------
(* Command lines for Cli: every command with words on both sides of every   *)
(* limit, too few and too many words, and options in every position.        *)
EXTENDS Cli

\* -(ULONG_MAX + 1 - v) is v again in unsigned arithmetic.
Wraps(sign, v) == NumberWord(sign, ULONG_MAX + 1 - v, FALSE)

WordsFor(kind) ==
    CASE kind = "FREQUENCY" -> {Num(0), Num(1), Num(256), Num(1000000), Num(1000001),
                                NumberWord("+", 5, FALSE), NumberWord("", 5, TRUE), Text(""),
                                Num(ULONG_MAX + 2), Wraps(" -", 3), Wraps("-", 3)}
      [] kind = "TIMER" -> {Num(0), Num(2), Num(3), Wraps(" -", 1), Wraps("-", 1)}
      [] kind = "DUTY" -> {Num(0), Num(26), Num(100), Num(101), Wraps(" -", 1), NumberWord("", 9, TRUE)}
      [] kind \in {"PIN", "OUT_PIN"} -> {Num(0), Num(15), Num(16), Wraps(" -", 3), Text("B")}
      [] kind \in {"PORT", "OUT_PORT"} -> {Text("A"), Text("G"), Text("H")}
      [] kind = "BIND_EDGE" -> {Text("off"), Text("both")}
      [] kind = "ACTION" -> {Text("low"), Text("toggle"), Text("both")}
      [] OTHER -> {Text(m) : m \in Range(Meanings(kind))} \cup {Text("A")}

ValueLists(kinds) ==
    FoldLeft(LAMBDA lists, kind : {Append(l, w) : l \in lists, w \in WordsFor(kind)}, {<<>>}, kinds)

Typed ==
    UNION {{<<Text(r.subsystem), Text(r.verb)>> \o v : v \in ValueLists(r.values)} : r \in Range(commands)}

\* Commands cut short, with a word too many, or unknown.
Odd == {<<>>, <<Text("gpio")>>, <<Text("gpio"), Text("bogus")>>,
        <<Text("gpio"), Text("get"), Text("A")>>,
        <<Text("gpio"), Text("get"), Text("A"), Num(5), Text("extra")>>}

\* A line as a sequence of items: what each word of argv is, and the word.
Item(role, w) == [role |-> role, word |-> w]
Command(t) == [i \in DOMAIN t |-> Item("word", t[i])]
Insert(items, opt, p) == SubSeq(items, 1, p) \o opt \o SubSeq(items, p + 1, Len(items))

Line(items) ==
    LET places == SelectSeq([k \in DOMAIN items |-> k], LAMBDA k : items[k].role = "word")
        options == {k \in DOMAIN items : items[k].role = "option"}
        deadlines == {k \in options : items[k].word = Text("-t") /\ k < Len(items)}
    IN  [argv |-> [k \in DOMAIN items |-> items[k].word],
         typed |-> [i \in DOMAIN places |-> items[places[i]].word],
         at |-> places,
         options |-> options,
         timeout |-> IF deadlines = {} THEN <<>> ELSE <<items[Max(deadlines) + 1].word>>]

Flag(s) == <<Item("option", Text(s))>>
Valued(s, w) == <<Item("option", Text(s)), Item("argument", w)>>

Plain == {Line(Command(t)) : t \in Typed \cup Odd}

\* The same with one option (and its argument) at any position.
Options == {Valued("-d", Text("gpio")), Flag("-h"), Flag("-V"), Flag("-x"), Flag("--")}
             \cup {Valued("-t", w) : w \in {Num(19), Num(20), Num(10000), Num(10001),
                        Wraps("-", 1000), Text(""), NumberWord("", 20, TRUE), Num(ULONG_MAX + 2)}}
Some(t) == Len(t) \in 3 .. 4 \/ t \in Odd
WithOption ==
    UNION {{Line(Insert(Command(t), opt, p)) : opt \in Options, p \in 0 .. Len(t)} :
             t \in {u \in Typed \cup Odd : Some(u)}}

\* Two options, options for arguments, and an option whose argument is missing.
Probe == Command(<<Text("mcu"), Text("probe")>>)
TwoOptions ==
    {Line(Insert(Insert(Probe, first, p), second, q + Len(first))) :
       first \in {Valued("-t", Num(20)), Valued("-t", Num(19)), Valued("-d", Text("-t"))},
       second \in {Valued("-t", Num(10000)), Valued("-d", Text("--")), Flag("--"), Flag("-h")},
       <<p, q>> \in {<<0, 0>>, <<0, 1>>, <<0, 2>>, <<1, 1>>, <<1, 2>>, <<2, 2>>}}
Dangling == {Line(Insert(Probe, Flag(s), 2)) : s \in {"-d", "-t"}}

MCLines == Plain \cup WithOption \cup TwoOptions \cup Dangling

=============================================================================
