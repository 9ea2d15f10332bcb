--------------------------- MODULE ProtocolTrial ----------------------------
(***************************************************************************)
(* Trials of Protocol: a command is built from arguments, legal or not; a   *)
(* reply reaches the command that waits for it, or another one (a late      *)
(* reply does), whole, with more bytes behind it, or damaged.               *)
(***************************************************************************)
EXTENDS Protocol

CONSTANTS
    Enum, Port, Pin, Group, Freq, Duty,     \* arguments tried, legal or not
    Level,                                  \* octets a level is read from
    Reason,                                 \* reasons the firmware gives in a NACK
    Damage,                                 \* damage tried, as <<reply, octet, bits inverted>>
    Junk                                    \* sequences of octets behind a reply

\* "Codes 1-10 are the firmware's status_t, [...] append-only. Host-side codes
\* start at 0x80".
ASSUME TrialAssumption ==
    /\ Enum \cup Port \subseteq Nat
    /\ Pin \cup Group \cup Level \subseteq 0 .. 255
    /\ Duty \subseteq {d \in Nat : d < 256^2}                 \* a uint16_t
    /\ Freq \subseteq {f \in Nat : f \div 256^2 < 256^2}     \* a uint32_t
    /\ Reason \subseteq 1 .. 127
    /\ Junk \subseteq Seq(0 .. 255)

VARIABLES
    call,       \* the last command, with its arguments
    built,      \* what it built, <<>> for ERR_ARG
    waiting,    \* what the command that got the last reply reads
    sent,       \* the reply the firmware sent last
    damage,     \* whether it was damaged: none, noticeable or blind
    result      \* status and out parameter of the command that got it

trialVars == <<call, built, waiting, sent, damage, result>>

\* Every command with every argument tried.
Commands(op, args) == {<<op, a>> : a \in args}
Calls ==
    UNION {
        Commands("probe", {<<>>}), Commands("reset", {<<>>}),
        UNION {Commands(op, Enum \X Port \X Pin) :
                 op \in {"gpio_cfg", "gpio_set", "irq_cfg", "channel_cfg"}},
        UNION {Commands(op, Port \X Pin) :
                 op \in {"gpio_get", "irq_unbind", "gpio_toggle",
                         "channel_release", "channel_get"}},
        Commands("irq_bind", Enum \X Port \X Pin \X Enum \X Port \X Pin),
        Commands("group_cfg", Freq \X Group),
        Commands("channel_set", Duty \X Port \X Pin),
        UNION {Commands(op, {<<g>> : g \in Group}) : op \in {"group_get", "group_release"}}}

\* Replies: what kind of reading, acknowledged or not, and its value.
Kinds == {"none", "level", "duty", "freq", "magic"}
Replies ==
    {<<"none", 1, 0>>, <<"magic", 1, 0>>}
        \cup ({"level"} \X {1} \X Level) \cup ({"nack"} \X {0} \X Reason)
        \cup ({"duty"} \X {1} \X Duty) \cup ({"freq"} \X {1} \X Freq)

DataOf(r) ==
    CASE r[1] = "none" -> <<>>
      [] r[1] \in {"level", "nack"} -> <<r[3]>>
      [] r[1] = "duty" -> put_u16_le(r[3])
      [] r[1] = "freq" -> put_u32_le(r[3])
      [] r[1] = "magic" -> PROBE_MAGIC

\* The firmware's reply: SOF, LEN, ACK/NACK, DATA, CRC_L, CRC_H.
Reply(r) ==
    LET covered == <<1 + Len(DataOf(r)), r[2]>> \o DataOf(r)
    IN  <<PROTOCOL_SOF>> \o covered \o put_u16_le(CrcReference(covered))

\* Damage to two neighbouring octets, from the ACK/NACK octet on.
Damaged(w, i, flip) ==
    [k \in DOMAIN w |->
        IF k \in {i, i + 1} THEN Number(SymDiff(Bits(w[k]), Bits(flip[k - i + 1]))) ELSE w[k]]

ASSUME DamageAssumption == Damage \subseteq Replies \X Nat \X ((0 .. 255) \X (0 .. 255))

\* The damage a CRC that travels low octet first cannot show: the last octet
\* it covers and its own low octet are neighbours on the line but not in the
\* polynomial, and for one pair of inversions the difference is a multiple of
\* the divisor.
Blind(r, i, flip) == i = Len(Reply(r)) - 2 /\ flip = <<137, 161>>

\* What a command that reads this kind returns when f is its reply.
Results(kind, f) ==
    CASE kind = "none" -> {WriteOnly(f)}
      [] kind = "magic" -> {mcuco_probe(f)}
      [] kind = "level" -> {mcuco_gpio_get(f), mcuco_gpio_toggle(f)}
      [] kind = "duty" -> {mcuco_pwm_channel_get(f)}
      [] kind = "freq" -> {mcuco_pwm_group_get(f)}

-----------------------------------------------------------------------------

NoReply == <<"none", 1, 0>>

TrialInit ==
    /\ call = <<"probe", <<>>>>
    /\ built = protocol_probe
    /\ waiting = "none"
    /\ sent = NoReply
    /\ damage = "none"
    /\ result = <<MCUCO_STATUS_OK>>

Command(c) ==
    /\ call' = c
    /\ built' = Frame(c)
    /\ waiting' = "none"
    /\ sent' = NoReply
    /\ damage' = "none"
    /\ result' = <<MCUCO_STATUS_OK>>

\* A reply arrives whole, with other bytes behind it.
Receive(kind, r, junk) ==
    /\ waiting' = kind
    /\ sent' = r
    /\ damage' = "none"
    /\ result' \in Results(kind, Reply(r) \o junk)
    /\ UNCHANGED <<call, built>>

\* A reply arrives with damage to one octet or two neighbouring ones, its SOF
\* and LEN unharmed: receive_response sees to those.
ReceiveDamaged(kind, r, i, flip) ==
    /\ i + 1 \in 4 .. Len(Reply(r))
    /\ flip # <<0, 0>>
    /\ waiting' = kind
    /\ sent' = r
    /\ damage' = IF Blind(r, i, flip) THEN "blind" ELSE "noticeable"
    /\ result' \in Results(kind, Damaged(Reply(r), i, flip))
    /\ UNCHANGED <<call, built>>

\* The functions are pure: each call is tried from the same state.
Fresh == call = <<"probe", <<>>>> /\ waiting = "none" /\ sent = NoReply /\ damage = "none"

TrialNext ==
    \/ \E c \in Calls : Fresh /\ Command(c)
    \/ \E kind \in Kinds, r \in Replies, junk \in Junk : Fresh /\ Receive(kind, r, junk)
    \/ \E d \in Damage :
          /\ Fresh
          /\ ReceiveDamaged(IF d[1][1] = "nack" THEN "none" ELSE d[1][1], d[1], d[2], d[3])
    \/ ~Fresh /\ Command(<<"probe", <<>>>>)

TrialSpec == TrialInit /\ [][TrialNext]_trialVars

-----------------------------------------------------------------------------
(* Properties.                                                             *)

Wire == [c \in Calls |-> Frame(c)]
Legal == {c \in Calls : Wire[c] # <<>>}

\* No two calls that a builder accepts look the same on the wire: no argument
\* loses a bit to the uint8_t casts, no two commands share an encoding.
Unambiguous == built # <<>> => \A c \in Legal : Wire[c] = built => c = call

\* The last two octets of a command are the remainder of the polynomial
\* division the CRC stands for.
CrcIsRemainder ==
    built # <<>> =>
        LET n == Len(built)
        IN  SubSeq(built, n - 1, n) = put_u16_le(CrcReference(SubSeq(built, 2, n - 2)))

\* What the firmware sent is what the caller reads, whatever follows the reply
\* in the buffer.
ReadBack ==
    damage = "none" /\ sent[1] = waiting =>
        result = CASE sent[1] \in {"none", "magic"} -> <<MCUCO_STATUS_OK>>
                   [] sent[1] = "level" -> <<MCUCO_STATUS_OK, IF sent[3] = 0 THEN 0 ELSE 1>>
                   [] sent[1] \in {"duty", "freq"} -> <<MCUCO_STATUS_OK, sent[3]>>

\* The data an acknowledgement must carry to be a reading of this kind.
Fits(kind, data) ==
    CASE kind = "none" -> TRUE
      [] kind = "magic" -> data = PROBE_MAGIC
      [] OTHER -> Len(data) = (CASE kind = "level" -> 1 [] kind = "duty" -> 2 [] kind = "freq" -> 4)

\* The status says who refused, whichever command gets the reply.  The reason
\* of a NACK arrives as it was sent and is never success or a code of the
\* host; an acknowledgement that is no reading of the kind waited for (the late
\* reply to another command) is a bad frame; only success comes with a value.
TellsWho ==
    damage = "none" =>
        /\ result[1] = IF sent[1] = "nack" THEN sent[3]
                       ELSE IF Fits(waiting, DataOf(sent)) THEN MCUCO_STATUS_OK
                       ELSE MCUCO_STATUS_ERR_BAD_FRAME
        /\ Len(result) = 2 => result[1] = MCUCO_STATUS_OK

\* Damage to an octet, or to two neighbouring ones, is always noticed, with
\* one exception: see Blind.
DamageDetected == damage = "noticeable" => result = <<MCUCO_STATUS_ERR_BAD_FRAME>>

=============================================================================
