----------------------------- MODULE MCProtocol -----------------------------
(* Constants for ProtocolTrial: both sides of every limit, and values that  *)
(* only differ above the octet they are cut to.                            *)
EXTENDS ProtocolTrial

MCJunk == {<<>>, <<165>>, <<165, 1, 1, 31, 62>>, <<0, 255, 0, 255>>}

\* Inversions of one bit, of all bits, and the pair the CRC is blind to, except
\* where it would read a frequency beyond TLC's integers.
Flip == {0, 1, 2, 4, 8, 16, 32, 64, 128, 137, 161, 255}
MCDamage ==
    {d \in Replies \X (3 .. 8) \X (Flip \X Flip) :
        ~(d[1][1] = "freq" /\ Blind(d[1], d[2], d[3]))}

\* The reference CRC agrees with the bare ACK the protocol's documentation
\* works out, as test_protocol.cpp gives it.
ASSUME WorkedReply == Reply(<<"none", 1, 0>>) = <<165, 1, 1, 31, 62>>

=============================================================================
