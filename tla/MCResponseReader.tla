-------------------------- MODULE MCResponseReader --------------------------
(* An alphabet and a set of intact frames for ResponseStream.              *)
EXTENDS ResponseStream

MCByte == {1, 2, PROTOCOL_SOF}
MCVal == [b \in MCByte |-> b]

\* Frames of one or two bytes after LEN; a toy checksum stands for the CRC:
\* CRC_L repeats LEN, CRC_H the byte before CRC_L.
MCIntact ==
    {<<PROTOCOL_SOF, 1, a, 1, a>> : a \in MCByte}
        \cup {<<PROTOCOL_SOF, 2, a, d, 2, d>> : a, d \in MCByte}

=============================================================================
