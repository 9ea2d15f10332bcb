-------------------------------- MODULE Crc16 --------------------------------
(***************************************************************************)
(* library/src/crc16.c.  A 16-bit word is the set of its one bits, so that *)
(* exclusive or is the symmetric difference and the word is at the same    *)
(* time a polynomial over GF(2), given by its exponents.                   *)
(***************************************************************************)
EXTENDS Integers, Sequences, FiniteSetsExt

Bits(n) == {i \in 0 .. 15 : (n \div 2^i) % 2 = 1}

\* The sixteen terms are written out so that linear arithmetic decides them.
Number(w) ==
    LET bit(i) == IF i \in w THEN 2^i ELSE 0
    IN    bit(0) + bit(1) + bit(2) + bit(3) + bit(4) + bit(5) + bit(6) + bit(7)
        + bit(8) + bit(9) + bit(10) + bit(11) + bit(12) + bit(13) + bit(14) + bit(15)

ShiftLeft(w, k) == {i + k : i \in w} \cap 0 .. 15

CRC16_POLYNOMIAL == {12, 5, 0}
CRC16_SEED == 0 .. 15

\* One turn of the inner loop.
ShiftBit(crc) ==
    IF 15 \in crc THEN SymDiff(ShiftLeft(crc, 1), CRC16_POLYNOMIAL)
                  ELSE ShiftLeft(crc, 1)

\* The inner loop: the register with the octet added, and after each of the
\* eight turns.
Shifts(crc, octet) ==
    LET shifted[k \in 0 .. 8] ==
            IF k = 0 THEN SymDiff(crc, ShiftLeft(Bits(octet), 8))
                     ELSE ShiftBit(shifted[k - 1])
    IN  shifted

AddOctet(crc, octet) == Shifts(crc, octet)[8]

\* The outer loop: the register after each octet.
Registers(seed, data) ==
    LET crc[n \in 0 .. Len(data)] ==
            IF n = 0 THEN seed ELSE AddOctet(crc[n - 1], data[n])
    IN  crc

\* Mutant: the register starts at zero.
crc16_compute_unseeded(data) == Number(Registers({}, data)[Len(data)])

crc16_compute(data) == Number(Registers(CRC16_SEED, data)[Len(data)])

-----------------------------------------------------------------------------
(* Reference: division of polynomials.                                     *)

\* The exponents of x^k times the message, its first octet the highest.
Message(data, k) ==
    UNION {{8 * (Len(data) - n) + i + k : i \in Bits(data[n])} : n \in DOMAIN data}

\* The division of p modulo x^16 + x^12 + x^5 + 1: what is left after the terms
\* of degree, degree - 1 and so on are taken away, down to degree 16.
Division(p, degree) ==
    LET rest[t \in 0 .. degree - 15] ==
            IF t = 0 THEN p
            ELSE LET e == degree + 1 - t
                     r == rest[t - 1]
                 IN  IF e \in r THEN SymDiff(r, {e - 16 + i : i \in {16, 12, 5, 0}}) ELSE r
    IN  rest

Remainder(p, degree) == Division(p, degree)[degree - 15]

\* The CRC with a seed of ones: the first sixteen bits of the message times
\* x^16 are inverted, and what is left over by the division is the CRC.
CrcReference(data) ==
    LET bits == 8 * Len(data)
    IN  Number(Remainder(SymDiff(Message(data, 16), bits .. bits + 15), bits + 15))

=============================================================================
