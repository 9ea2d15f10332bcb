------------------------ MODULE CommandWriter_proofs -------------------------
(***************************************************************************)
(* InOrder and OkIffWhole for every set of lengths, every queue and any    *)
(* number of calls.                                                        *)
(***************************************************************************)
EXTENDS CommandWriter, SequenceTheorems, TLAPS

Status == {"OK", "ERR_ARG", "ERR_IO", "killed"}

TypeOK ==
    /\ pc \in {"idle", "loop", "write"}
    /\ len \in Nat
    /\ total_written \in Nat
    /\ stream \in Seq(Byte)
    /\ drained \in Nat
    /\ unplugged \in BOOLEAN
    /\ results \in Seq([len : Nat, status : Status])

\* While a call is in its loop its last byte, if any, is the last of the
\* stream; otherwise all bytes belong to earlier calls.
InCall == pc # "idle"
Front ==
    /\ InCall => len > 0 /\ total_written <= len
    /\ pc = "write" => total_written < len
    /\ \A i \in DOMAIN stream :
          /\ stream[i].call <= Call
          /\ stream[i].call = Call => InCall /\ stream[i].pos <= total_written
    /\ InCall /\ total_written > 0 =>
          Len(stream) > 0 /\ stream[Len(stream)] = [call |-> Call, pos |-> total_written]

Inv == TypeOK /\ Front /\ InOrder /\ OkIffWhole

-----------------------------------------------------------------------------

LEMMA Numbers ==
    ASSUME TypeOK
    PROVE  /\ Call \in Nat /\ Len(stream) \in Nat /\ DOMAIN stream = 1 .. Len(stream)
           /\ \A i \in DOMAIN stream : stream[i].call \in Nat /\ stream[i].pos \in Nat
<1>1. \A i \in DOMAIN stream : stream[i] \in Byte
  BY DEF TypeOK
<1> QED
  BY <1>1 DEF TypeOK, Call, Byte

\* What write takes: k bytes, one after the other, behind those of before.
LEMMA Growth ==
    ASSUME TypeOK, NEW k \in Nat, stream' = stream \o Written(k)
    PROVE  /\ stream' \in Seq(Byte)
           /\ Len(stream') = Len(stream) + k
           /\ \A i \in DOMAIN stream : stream'[i] = stream[i]
           /\ \A i \in 1 .. k :
                 stream'[Len(stream) + i] = [call |-> Call, pos |-> total_written + i]
<1>1. Call \in Nat \ {0}
  BY DEF TypeOK, Call
<1>2. Written(k) \in Seq(Byte) /\ Len(Written(k)) = k
  BY <1>1 DEF TypeOK, Written, Byte
<1>3. \A i \in 1 .. k : Written(k)[i] = [call |-> Call, pos |-> total_written + i]
  BY DEF Written
<1> DEFINE w == Written(k)
<1> HIDE DEF w
<1>4. stream \in Seq(Byte) /\ w \in Seq(Byte) /\ Len(w) = k /\ stream' = stream \o w
  BY <1>2 DEF TypeOK, w
<1>5. stream' \in Seq(Byte)
  BY <1>4
<1>6. Len(stream') = Len(stream) + k
  BY <1>4, ConcatProperties
<1>7. \A i \in DOMAIN stream : stream'[i] = stream[i]
  BY <1>4
<1>8. \A i \in 1 .. k : stream'[Len(stream) + i] = w[i]
  BY <1>4
<1> QED
  BY <1>3, <1>5, <1>6, <1>7, <1>8 DEF w

\* A call that ends leaves the stream and the results of earlier calls alone.
LEMMA Ending ==
    ASSUME Inv, UNCHANGED <<len, total_written, stream, drained, unplugged>>,
           NEW l \in Nat, NEW s \in Status, Return(l, s),
           s = "OK" => InCall /\ l = len /\ total_written = len,
           s = "ERR_ARG" => pc = "idle" /\ l = 0,
           s = "ERR_IO" => pc = "write" /\ l = len
    PROVE  Inv'
<1>1. TypeOK'
  BY DEF Inv, TypeOK, Return
<1>2. /\ Len(results') = Len(results) + 1
      /\ results'[Len(results) + 1] = [len |-> l, status |-> s]
      /\ \A n \in DOMAIN results : results'[n] = results[n]
  BY DEF Inv, TypeOK, Return
<1>3. Front'
  <2>1. Call' = Call + 1 /\ ~InCall' /\ stream' = stream /\ pc' = "idle"
    BY <1>2 DEF Return, Call, InCall
  <2>2. \A i \in DOMAIN stream : stream[i].call < Call + 1
    BY Numbers DEF Inv, Front
  <2> QED
    BY <2>1, <2>2, Numbers DEF Inv, Front
<1>4. InOrder'
  BY DEF Inv, InOrder
<1>5. OkIffWhole'
  <2> SUFFICES ASSUME NEW n \in DOMAIN results'
               PROVE  /\ results'[n].status = "OK" => Finished(n)'
                      /\ results'[n].status \in {"ERR_ARG", "ERR_IO"} => ~Finished(n)'
    BY DEF OkIffWhole
  <2>1. CASE n \in DOMAIN results
    BY <2>1, <1>2 DEF Inv, OkIffWhole, Finished
  <2>2. CASE n = Call
    <3>1. results'[n] = [len |-> l, status |-> s]
      BY <2>2, <1>2 DEF Call
    <3>2. CASE s = "OK"
      <4>1. stream[Len(stream)] = [call |-> n, pos |-> l] /\ Len(stream) \in DOMAIN stream
        BY <3>2, <2>2 DEF Inv, TypeOK, Front, InCall
      <4> QED
        BY <4>1, <3>1, <3>2 DEF Finished
    <3>3. CASE s \in {"ERR_ARG", "ERR_IO"}
      <4>1. \A i \in DOMAIN stream : stream[i] # [call |-> n, pos |-> l]
        <5> SUFFICES ASSUME NEW i \in DOMAIN stream, stream[i] = [call |-> n, pos |-> l]
                     PROVE  FALSE
          OBVIOUS
        <5>1. InCall /\ l <= total_written
          BY <2>2 DEF Inv, Front
        <5>2. pc = "write" /\ l = len
          BY <3>3, <5>1 DEF InCall
        <5> QED
          BY <5>1, <5>2 DEF Inv, TypeOK, Front
      <4> QED
        BY <4>1, <3>1, <3>3 DEF Finished
    <3> QED
      BY <3>1, <3>2, <3>3 DEF Finished
  <2>3. n \in DOMAIN results \/ n = Call
    BY <1>1, <1>2 DEF Inv, TypeOK, Call
  <2> QED
    BY <2>1, <2>2, <2>3
<1> QED
  BY <1>1, <1>3, <1>4, <1>5 DEF Inv

LEMMA WriteKeeps == ASSUME Inv, NEW k \in 1 .. Capacity, Write(k) PROVE Inv'
<1>1. k \in Nat \ {0}
  BY CommandWriterAssumption
<1>2. /\ stream' \in Seq(Byte)
      /\ Len(stream') = Len(stream) + k
      /\ \A i \in DOMAIN stream : stream'[i] = stream[i]
      /\ \A i \in 1 .. k :
            stream'[Len(stream) + i] = [call |-> Call, pos |-> total_written + i]
  BY <1>1, Growth DEF Inv, Write
<1>3. TypeOK'
  BY <1>1, <1>2 DEF Inv, TypeOK, Write
<1>4. \A i \in DOMAIN stream' :
         \/ i \in DOMAIN stream /\ stream'[i] = stream[i]
         \/ /\ i - Len(stream) \in 1 .. k
            /\ stream'[i] = [call |-> Call, pos |-> total_written + (i - Len(stream))]
  <2> SUFFICES ASSUME NEW i \in DOMAIN stream', i \notin DOMAIN stream
               PROVE  /\ i - Len(stream) \in 1 .. k
                      /\ stream'[i] = [call |-> Call, pos |-> total_written + (i - Len(stream))]
    BY <1>2
  <2>1. i - Len(stream) \in 1 .. k
    BY <1>1, <1>2 DEF Inv, TypeOK
  <2>2. i = Len(stream) + (i - Len(stream))
    BY <1>1, <1>2 DEF Inv, TypeOK
  <2> QED
    BY <1>2, <2>1, <2>2
<1>5. Front'
  <2>1. \A i \in DOMAIN stream' :
           /\ stream'[i].call <= Call
           /\ stream'[i].call = Call => stream'[i].pos <= total_written + k
    <3> SUFFICES ASSUME NEW i \in DOMAIN stream'
                 PROVE  /\ stream'[i].call <= Call
                        /\ stream'[i].call = Call => stream'[i].pos <= total_written + k
      OBVIOUS
    <3>1. CASE i \in DOMAIN stream /\ stream'[i] = stream[i]
      BY <1>1, <3>1, Numbers DEF Inv, TypeOK, Front
    <3>2. CASE /\ i - Len(stream) \in 1 .. k
               /\ stream'[i] = [call |-> Call, pos |-> total_written + (i - Len(stream))]
      BY <1>1, <3>2, Numbers DEF Inv, TypeOK
    <3> QED
      BY <1>4, <3>1, <3>2
  <2>2. Len(stream') > 0 /\ stream'[Len(stream')] = [call |-> Call, pos |-> total_written + k]
    BY <1>1, <1>2 DEF Inv, TypeOK
  <2> QED
    BY <1>1, <1>3, <2>1, <2>2 DEF Inv, TypeOK, Front, Write, InCall, Call
<1>6. InOrder'
  <2> SUFFICES ASSUME NEW i \in DOMAIN stream'
               PROVE  \/ /\ i > 1
                         /\ stream'[i].call = stream'[i - 1].call
                         /\ stream'[i].pos = stream'[i - 1].pos + 1
                      \/ /\ stream'[i].pos = 1
                         /\ i > 1 => stream'[i].call > stream'[i - 1].call
    BY DEF InOrder
  <2>1. CASE i \in DOMAIN stream
    <3>1. i > 1 => i - 1 \in DOMAIN stream
      BY <2>1 DEF Inv, TypeOK
    <3> QED
      BY <2>1, <3>1, <1>2 DEF Inv, InOrder
  <2>2. CASE i = Len(stream) + 1
    <3>1. stream'[i] = [call |-> Call, pos |-> total_written + 1]
      BY <1>1, <1>2, <2>2
    <3>2. i > 1 => Len(stream) \in DOMAIN stream /\ stream'[i - 1] = stream[Len(stream)]
      BY <1>2, <2>2 DEF Inv, TypeOK
    <3>3. CASE total_written > 0
      BY <3>1, <3>2, <3>3, <2>2 DEF Inv, TypeOK, Front, Write, InCall
    <3>4. CASE total_written = 0
      <4>1. i > 1 => stream[Len(stream)].call < Call
        <5> SUFFICES ASSUME i > 1 PROVE stream[Len(stream)].call < Call
          OBVIOUS
        <5>1. /\ Len(stream) \in DOMAIN stream
              /\ stream[Len(stream)].call <= Call
              /\ stream[Len(stream)].call = Call => stream[Len(stream)].pos <= 0
          BY <3>2, <3>4 DEF Inv, Front
        <5>2. stream[Len(stream)].pos > 0
          <6>1. stream[Len(stream)] \in Byte
            BY <5>1 DEF Inv, TypeOK
          <6> QED
            BY <6>1 DEF Byte
        <5> QED
          BY <5>1, <5>2, Numbers DEF Inv
      <4> QED
        BY <3>1, <3>2, <3>4, <4>1 DEF Inv, TypeOK
    <3> QED
      BY <3>3, <3>4 DEF Inv, TypeOK
  <2>3. CASE i > Len(stream) + 1
    <3>1. i - 1 \in DOMAIN stream' /\ i - 1 \notin DOMAIN stream /\ i \notin DOMAIN stream
      BY <2>3, <1>2, <1>1 DEF Inv, TypeOK
    <3> QED
      <4>1. stream'[i] = [call |-> Call, pos |-> total_written + (i - Len(stream))]
        BY <3>1, <1>4
      <4>2. stream'[i - 1] = [call |-> Call, pos |-> total_written + (i - 1 - Len(stream))]
        BY <3>1, <1>4
      <4>3. i > 1 /\ i \in Nat
        BY <2>3, <1>2, Numbers DEF Inv
      <4> QED
        BY <4>1, <4>2, <4>3, Numbers DEF Inv, TypeOK
  <2>4. i \in DOMAIN stream \/ i = Len(stream) + 1 \/ i > Len(stream) + 1
    BY <1>1, <1>2 DEF Inv, TypeOK
  <2> QED
    BY <2>1, <2>2, <2>3, <2>4
<1>7. OkIffWhole'
  <2> SUFFICES ASSUME NEW n \in DOMAIN results
               PROVE  Finished(n)' <=> Finished(n)
    BY DEF Inv, OkIffWhole, Write
  <2>1. n # Call
    BY DEF Inv, TypeOK, Call
  <2>2. results' = results
    BY DEF Write
  <2>3. DOMAIN stream \subseteq DOMAIN stream'
    BY <1>1, <1>2 DEF Inv, TypeOK
  <2> QED
    BY <1>2, <1>4, <2>1, <2>2, <2>3 DEF Finished
<1> QED
  BY <1>3, <1>5, <1>6, <1>7 DEF Inv

-----------------------------------------------------------------------------

LEMMA Keeps == Inv /\ [Next]_vars => Inv'
<1> SUFFICES ASSUME Inv, [Next]_vars PROVE Inv'
  OBVIOUS
<1>1. ASSUME NEW l \in Lengths, Transmit(l) PROVE Inv'
  <2>1. l \in Nat
    BY CommandWriterAssumption
  <2>2. CASE l = 0
    <3>1. Return(0, "ERR_ARG") /\ pc = "idle"
      BY <1>1, <2>2 DEF Transmit
    <3>2. UNCHANGED <<len, total_written, stream, drained, unplugged>>
      BY <1>1, <2>2 DEF Transmit
    <3> QED
      BY <3>1, <3>2, Ending DEF Status
  <2>3. CASE l > 0
    <3>1. /\ pc = "idle" /\ pc' = "loop" /\ len' = l /\ total_written' = 0
          /\ UNCHANGED <<results, stream, drained, unplugged>>
      BY <1>1, <2>3 DEF Transmit
    <3>2. TypeOK'
      BY <2>1, <3>1 DEF Inv, TypeOK
    <3>3. Front'
      BY <2>1, <2>3, <3>1 DEF Inv, TypeOK, Front, InCall, Call
    <3> QED
      BY <3>1, <3>2, <3>3 DEF Inv, InOrder, OkIffWhole, Finished
  <2> QED
    BY <2>1, <2>2, <2>3
<1>2. CASE Loop
  <2>1. CASE total_written < len
    <3>1. pc = "loop" /\ pc' = "write"
          /\ UNCHANGED <<len, total_written, stream, drained, unplugged, results>>
      BY <1>2, <2>1 DEF Loop, LoopWhile
    <3> QED
      BY <2>1, <3>1 DEF Inv, TypeOK, Front, InCall, Call, InOrder, OkIffWhole, Finished
  <2>2. CASE ~(total_written < len)
    <3>1. pc = "loop" /\ Return(len, "OK")
          /\ UNCHANGED <<len, total_written, stream, drained, unplugged>>
      BY <1>2, <2>2 DEF Loop, LoopWhile
    <3>2. InCall /\ total_written = len /\ len \in Nat
      BY <2>2, <3>1 DEF Inv, TypeOK, Front, InCall
    <3> QED
      BY <3>1, <3>2, Ending DEF Status
  <2> QED
    BY <2>1, <2>2
<1>3. ASSUME NEW k \in 1 .. Capacity, Write(k) PROVE Inv'
  BY <1>3, WriteKeeps
<1>4. CASE WriteInterrupted
  BY <1>4 DEF WriteInterrupted, Inv, TypeOK, Front, InCall, Call, InOrder, OkIffWhole, Finished
<1>5. CASE WriteFails
  <2>1. len \in Nat
    BY DEF Inv, TypeOK
  <2> QED
    BY <1>5, <2>1, Ending DEF WriteFails, Status
<1>6. CASE Killed
  <2>1. len \in Nat
    BY DEF Inv, TypeOK
  <2> QED
    BY <1>6, <2>1, Ending DEF Killed, Status
<1>7. CASE Drain \/ Unplug
  <2>1. /\ UNCHANGED <<pc, len, total_written, stream, results>>
        /\ drained' \in Nat
    BY <1>7 DEF Drain, Unplug, Inv, TypeOK
  <2>2. unplugged' \in BOOLEAN
    BY <1>7, Zenon DEF Drain, Unplug, Inv, TypeOK
  <2> QED
    BY <2>1, <2>2 DEF Inv, TypeOK, Front, InCall, Call, InOrder, OkIffWhole, Finished
<1>8. CASE UNCHANGED vars
  BY <1>8 DEF vars, Inv, TypeOK, Front, InCall, Call, InOrder, OkIffWhole, Finished
<1> QED
  BY <1>1, <1>2, <1>3, <1>4, <1>5, <1>6, <1>7, <1>8 DEF Next

LEMMA Invariance == Spec => []Inv
<1>1. Init => Inv
  <2> SUFFICES ASSUME Init PROVE Inv
    OBVIOUS
  <2>1. stream \in Seq(Byte) /\ DOMAIN stream = {} /\ DOMAIN results = {}
    BY DEF Init
  <2>2. TypeOK
    <3>1. unplugged \in BOOLEAN
      BY Zenon DEF Init
    <3> QED
      BY <2>1, <3>1 DEF Init, TypeOK
  <2> QED
    BY <2>1, <2>2 DEF Init, Inv, Front, InCall, InOrder, OkIffWhole
<1> QED
  BY <1>1, Keeps, PTL DEF Spec

\* The frames reach the line byte by byte in order, whatever short writes,
\* signals, deaths and failures uart_write meets.
THEOREM BytesInOrder == Spec => []InOrder
<1>1. Inv => InOrder
  BY DEF Inv
<1> QED
  BY <1>1, Invariance, PTL

\* transmit_command reports OK exactly for the frames it has handed over whole.
THEOREM WholeFrames == Spec => []OkIffWhole
<1>1. Inv => OkIffWhole
  BY DEF Inv
<1> QED
  BY <1>1, Invariance, PTL

=============================================================================
