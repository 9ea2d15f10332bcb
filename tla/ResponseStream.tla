--------------------------- MODULE ResponseStream ----------------------------
(***************************************************************************)
(* ResponseReader with the history of the bytes each call takes, compared  *)
(* with what the byte stream means when it is looked at as a whole.        *)
(***************************************************************************)
EXTENDS ResponseReader, FiniteSetsExt

CONSTANT MaxStream      \* bound: bytes of one call's stream

VARIABLE taken          \* history: the bytes the last call took

historyVars == <<vars, taken>>

HistoryInit == Init /\ taken = <<>>

HistoryNext ==
    \/ Start /\ taken' = <<>>
    \/ Step /\ taken' = taken \o SubSeq(rx, 1, Len(rx) - Len(rx'))
    \/ /\ Len(taken) + Len(rx) < MaxStream
       /\ \E b \in Byte : Arrive(b)
       /\ UNCHANGED taken
    \/ Drain /\ UNCHANGED taken

HistorySpec == HistoryInit /\ [][HistoryNext]_historyVars

-----------------------------------------------------------------------------

Sofs(s) == {i \in DOMAIN s : Val[s[i]] = PROTOCOL_SOF}

\* The stream from its first SOF on.
FromSof(s) == IF Sofs(s) = {} THEN <<>> ELSE SubSeq(s, Min(Sofs(s)), Len(s))

\* What a stream amounts to: a good frame, a bad one, or not a whole one yet.
Meaning(s) ==
    LET f == FromSof(s)
    IN  IF Len(f) < 2 THEN "incomplete"
        ELSE IF ~LengthOk(Val[f[2]]) THEN "BAD_FRAME"
        ELSE IF Len(f) < PROTOCOL_RESPONSE_OVERHEAD + Val[f[2]] THEN "incomplete"
        ELSE IF f \in Intact THEN "OK" ELSE "BAD_FRAME"

\* However the bytes arrive and however few a read delivers, the verdict of a
\* call is the meaning of exactly the bytes it took - none beyond the frame,
\* which belong to the next call - and the frame handed out is those bytes
\* from the first SOF on.  A call that gives up had no whole frame.
Reassembly ==
    /\ phase = "idle" /\ status \in {"OK", "BAD_FRAME"} /\ taken # <<>>
          => Meaning(taken) = status
    /\ phase # "idle" \/ status \in {"NO_RESPONSE", "ERR_IO"}
          => Meaning(taken) = "incomplete"
    /\ response # <<>> /\ phase = "idle" => response = FromSof(taken)

=============================================================================
