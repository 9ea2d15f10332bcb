------------------------- MODULE MCCommandTransport -------------------------
(* CommandTransport on a line that carries two octets: SOF, and 1, which is *)
(* a LEN, an ACK and a CRC byte.  SOF as a LEN is out of range.            *)
EXTENDS CommandTransport

MCByte == {1, PROTOCOL_SOF}
MCIntact == {<<PROTOCOL_SOF, 1, 1, 1, 1>>, <<PROTOCOL_SOF, 1, 1, PROTOCOL_SOF, 1>>}
MCTimeouts == {-1, 0, 3}

=============================================================================
