------------------------------ MODULE Protocol ------------------------------
(***************************************************************************)
(* library/src/protocol.c and endianess.c over real frames, and what the    *)
(* commands of mcuco.c make of them: which builder each calls, and which    *)
(* status and value each returns for a reply.  The buffers passed by        *)
(* mcuco.c hold any frame, so the tests for NULL and for a short buffer     *)
(* never fail and are left out.                                             *)
(***************************************************************************)
EXTENDS Crc16

PROTOCOL_SOF == 165
PROTOCOL_RESPONSE_OVERHEAD == 4
PROTOCOL_MIN_RESPONSE_LEN == 1
PROTOCOL_MAX_RESPONSE_LEN == PROTOCOL_MIN_RESPONSE_LEN + 4
PROTOCOL_MIN_RESPONSE_FRAME == PROTOCOL_RESPONSE_OVERHEAD + PROTOCOL_MIN_RESPONSE_LEN

\* The status codes that are raised here; 1 to 10 are the firmware's.
MCUCO_STATUS_OK == 0
MCUCO_STATUS_ERR_BAD_FRAME == 131

\* Field encodings and limits.
port_t == 0 .. 6
dir_t == 0 .. 1
level_t == 0 .. 1
edge_t == 0 .. 3
action_t == 0 .. 2
polarity_t == 0 .. 1
PIN_MAX == 15
GROUP_MAX == 2
DUTY_MAX == 1000
FREQ_MIN == 1
FREQ_MAX == 1000000

-----------------------------------------------------------------------------
(* Numbers on the wire.                                                    *)

Octet(v, i) == (v \div 256^i) % 256

put_u16_le(v) == <<Octet(v, 0), Octet(v, 1)>>
put_u32_le(v) == <<Octet(v, 0), Octet(v, 1), Octet(v, 2), Octet(v, 3)>>

get_u16_le(s) == s[1] + 256 * s[2]

\* Mutant: the third octet is shifted by 8 instead of 16.
get_u32_le_shift(s) == s[1] + 256 * s[2] + 256 * s[3] + 256^3 * s[4]

get_u32_le(s) == s[1] + 256 * s[2] + 256^2 * s[3] + 256^3 * s[4]

-----------------------------------------------------------------------------
(* Commands.                                                               *)

\* Mutant: the port is not checked.
is_valid_any_port(port) == TRUE

is_valid_port(port) == port \in port_t
is_valid_pin(pin) == pin <= PIN_MAX
is_valid_group(group) == group <= GROUP_MAX

OPCODE ==
    [PROBE |-> 16, RESET |-> 17,
     GPIO_CFG |-> 48, GPIO_WRITE |-> 49, GPIO_READ |-> 50, GPIO_IRQ_BIND |-> 51,
     GPIO_IRQ_CFG |-> 52, GPIO_IRQ_UNBIND |-> 53, GPIO_TOGGLE |-> 54,
     PWM_GROUP_CFG |-> 64, PWM_CFG |-> 65, PWM_SET |-> 66, PWM_RELEASE |-> 67,
     PWM_GET |-> 68, PWM_GROUP_GET |-> 69, PWM_GROUP_RELEASE |-> 70]

\* SOF, OPCODE, LEN, PAYLOAD, CRC_L, CRC_H; arguments are cut to octets.
build_frame(opcode, payload) ==
    LET covered == <<opcode, Len(payload)>> \o [i \in DOMAIN payload |-> payload[i] % 256]
    IN  <<PROTOCOL_SOF>> \o covered \o put_u16_le(crc16_compute(covered))

\* A builder checks its arguments first.
Build(opcode, legal, payload) == IF legal THEN build_frame(opcode, payload) ELSE <<>>

Pins(port, pin) == is_valid_port(port) /\ is_valid_pin(pin)

protocol_probe == Build(OPCODE.PROBE, TRUE, <<>>)
protocol_reset == Build(OPCODE.RESET, TRUE, <<>>)
protocol_gpio_cfg(dir, port, pin) ==
    Build(OPCODE.GPIO_CFG, dir \in dir_t /\ Pins(port, pin), <<dir, port, pin>>)
protocol_gpio_set(level, port, pin) ==
    Build(OPCODE.GPIO_WRITE, level \in level_t /\ Pins(port, pin), <<level, port, pin>>)
protocol_gpio_get(port, pin) ==
    Build(OPCODE.GPIO_READ, Pins(port, pin), <<port, pin>>)
protocol_gpio_irq_bind(edge, in_port, in_pin, action, out_port, out_pin) ==
    Build(OPCODE.GPIO_IRQ_BIND,
          /\ edge \in edge_t \ {0} /\ action \in action_t
          /\ Pins(in_port, in_pin) /\ Pins(out_port, out_pin),
          <<edge, in_port, in_pin, action, out_port, out_pin>>)
protocol_gpio_irq_cfg(edge, port, pin) ==
    Build(OPCODE.GPIO_IRQ_CFG, edge \in edge_t /\ Pins(port, pin), <<edge, port, pin>>)
protocol_gpio_irq_unbind(port, pin) ==
    Build(OPCODE.GPIO_IRQ_UNBIND, Pins(port, pin), <<port, pin>>)
protocol_gpio_toggle(port, pin) ==
    Build(OPCODE.GPIO_TOGGLE, Pins(port, pin), <<port, pin>>)
protocol_pwm_group_cfg(freq_hz, group) ==
    Build(OPCODE.PWM_GROUP_CFG, freq_hz \in FREQ_MIN .. FREQ_MAX /\ is_valid_group(group),
          put_u32_le(freq_hz) \o <<group>>)
protocol_pwm_channel_cfg(polarity, port, pin) ==
    Build(OPCODE.PWM_CFG, polarity \in polarity_t /\ Pins(port, pin), <<polarity, port, pin>>)
protocol_pwm_channel_set(duty, port, pin) ==
    Build(OPCODE.PWM_SET, duty <= DUTY_MAX /\ Pins(port, pin), put_u16_le(duty) \o <<port, pin>>)
protocol_pwm_channel_release(port, pin) ==
    Build(OPCODE.PWM_RELEASE, Pins(port, pin), <<port, pin>>)
protocol_pwm_channel_get(port, pin) ==
    Build(OPCODE.PWM_GET, Pins(port, pin), <<port, pin>>)
protocol_pwm_group_get(group) ==
    Build(OPCODE.PWM_GROUP_GET, is_valid_group(group), <<group>>)
protocol_pwm_group_release(group) ==
    Build(OPCODE.PWM_GROUP_RELEASE, is_valid_group(group), <<group>>)

\* The frame each command of mcuco.c sends; a call is the command's name and
\* its arguments.
McuFrame(op) == IF op = "probe" THEN protocol_probe ELSE protocol_reset

GpioFrame(op, a) ==
    CASE op = "gpio_cfg" -> protocol_gpio_cfg(a[1], a[2], a[3])
      [] op = "gpio_set" -> protocol_gpio_set(a[1], a[2], a[3])
      [] op = "gpio_toggle" -> protocol_gpio_toggle(a[1], a[2])
      [] op = "gpio_get" -> protocol_gpio_get(a[1], a[2])

IrqFrame(op, a) ==
    CASE op = "irq_cfg" -> protocol_gpio_irq_cfg(a[1], a[2], a[3])
      [] op = "irq_bind" -> protocol_gpio_irq_bind(a[1], a[2], a[3], a[4], a[5], a[6])
      [] op = "irq_unbind" -> protocol_gpio_irq_unbind(a[1], a[2])

GroupFrame(op, a) ==
    CASE op = "group_cfg" -> protocol_pwm_group_cfg(a[1], a[2])
      [] op = "group_get" -> protocol_pwm_group_get(a[1])
      [] op = "group_release" -> protocol_pwm_group_release(a[1])

ChannelFrame(op, a) ==
    CASE op = "channel_cfg" -> protocol_pwm_channel_cfg(a[1], a[2], a[3])
      [] op = "channel_set" -> protocol_pwm_channel_set(a[1], a[2], a[3])
      [] op = "channel_get" -> protocol_pwm_channel_get(a[1], a[2])
      [] op = "channel_release" -> protocol_pwm_channel_release(a[1], a[2])

Frame(c) ==
    LET op == c[1]
        a == c[2]
    IN  CASE op \in {"probe", "reset"} -> McuFrame(op)
          [] op \in {"gpio_cfg", "gpio_set", "gpio_toggle", "gpio_get"} -> GpioFrame(op, a)
          [] op \in {"irq_cfg", "irq_bind", "irq_unbind"} -> IrqFrame(op, a)
          [] op \in {"group_cfg", "group_get", "group_release"} -> GroupFrame(op, a)
          [] OTHER -> ChannelFrame(op, a)

-----------------------------------------------------------------------------
(* Replies.                                                                *)

BadFrame == [status |-> MCUCO_STATUS_ERR_BAD_FRAME]

\* Mutant: only the low octet of the CRC is compared.
protocol_parse_response_low(f) ==
    IF \/ Len(f) < PROTOCOL_MIN_RESPONSE_FRAME
       \/ f[1] # PROTOCOL_SOF
       \/ f[2] \notin PROTOCOL_MIN_RESPONSE_LEN .. PROTOCOL_MAX_RESPONSE_LEN
       \/ Len(f) < PROTOCOL_RESPONSE_OVERHEAD + f[2]
       \/ crc16_compute(SubSeq(f, 2, f[2] + 2)) % 256 # f[f[2] + 3]
    THEN BadFrame
    ELSE [status |-> MCUCO_STATUS_OK, ack |-> f[3] # 0, data |-> SubSeq(f, 4, f[2] + 2)]

protocol_parse_response(f) ==
    IF \/ Len(f) < PROTOCOL_MIN_RESPONSE_FRAME
       \/ f[1] # PROTOCOL_SOF
       \/ f[2] \notin PROTOCOL_MIN_RESPONSE_LEN .. PROTOCOL_MAX_RESPONSE_LEN
       \/ Len(f) < PROTOCOL_RESPONSE_OVERHEAD + f[2]
       \/ crc16_compute(SubSeq(f, 2, f[2] + 2)) # get_u16_le(SubSeq(f, f[2] + 3, f[2] + 4))
    THEN BadFrame
    ELSE [status |-> MCUCO_STATUS_OK, ack |-> f[3] # 0, data |-> SubSeq(f, 4, f[2] + 2)]

\* The reason of a NACK becomes the status, untranslated.
status_from_response(p) ==
    IF p.ack THEN MCUCO_STATUS_OK
    ELSE IF Len(p.data) = 1 THEN p.data[1] ELSE MCUCO_STATUS_ERR_BAD_FRAME

\* exchange, from the reply on: the status, and the data of a reply that passed.
exchange(f) ==
    LET p == protocol_parse_response(f)
    IN  IF p.status # MCUCO_STATUS_OK THEN p
        ELSE [status |-> status_from_response(p), data |-> p.data]

\* A command that passes no response to exchange.
WriteOnly(f) == <<exchange(f).status>>

\* A command that reads data: its status and, on success, its out parameter.
Reading(f, width, Decode(_)) ==
    LET e == exchange(f)
    IN  IF e.status # MCUCO_STATUS_OK THEN <<e.status>>
        ELSE IF Len(e.data) # width THEN <<MCUCO_STATUS_ERR_BAD_FRAME>>
        ELSE <<MCUCO_STATUS_OK, Decode(e.data)>>

ToLevel(data) == IF data[1] # 0 THEN 1 ELSE 0

mcuco_gpio_toggle(f) == Reading(f, 1, ToLevel)
mcuco_gpio_get(f) == Reading(f, 1, ToLevel)
mcuco_pwm_group_get(f) == Reading(f, 4, get_u32_le)
mcuco_pwm_channel_get(f) == Reading(f, 2, get_u16_le)

PROBE_MAGIC == <<77, 67, 85, 79>>

\* Mutant: the magic is not compared.
mcuco_probe_any(f) == WriteOnly(f)

mcuco_probe(f) ==
    LET e == exchange(f)
    IN  IF e.status = MCUCO_STATUS_OK /\ e.data # PROBE_MAGIC
          THEN <<MCUCO_STATUS_ERR_BAD_FRAME>> ELSE <<e.status>>

=============================================================================
