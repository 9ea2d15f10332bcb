------------------------ MODULE ResponseStream_proofs ------------------------
(***************************************************************************)
(* The call of receive_response makes of the bytes it takes what they mean *)
(* as a whole, for every alphabet, set of intact frames and bound.         *)
(***************************************************************************)
EXTENDS ResponseStream, SequenceTheorems, TLAPS

TypeOK ==
    /\ rx \in Seq(Byte)
    /\ phase \in Phases
    /\ frame \in Seq(Byte)
    /\ status \in Statuses
    /\ response \in Seq(Byte)
    /\ taken \in Seq(Byte)

\* The first SOF of the stream s is its i-th byte.
First(s, i) == i \in Sofs(s) /\ \A j \in Sofs(s) : i <= j

\* f is the stream from its first SOF on.
Suffix(s, f) == \E i \in 1 .. Len(s) : First(s, i) /\ f = SubSeq(s, i, Len(s))

\* What the call in progress has read.
Progress ==
    /\ phase = "sof" => Sofs(taken) = {}
    /\ phase = "len" => Suffix(taken, frame) /\ Len(frame) = 1
    /\ phase = "body" => /\ Suffix(taken, frame) /\ Len(frame) >= 2
                         /\ LengthOk(Val[frame[2]])
                         /\ Len(frame) < PROTOCOL_RESPONSE_OVERHEAD + Val[frame[2]]

StreamInv == TypeOK /\ Progress /\ Reassembly

-----------------------------------------------------------------------------
(* Streams.                                                                *)

(* Octets are numbers.                                                     *)
LEMMA Octets ==
    ASSUME NEW b \in Byte PROVE Val[b] \in Nat
<1>1. Val[b] \in 0 .. 255
  BY ReaderAssumption
<1>2. \A n \in 0 .. 255 : n \in Nat
  OBVIOUS
<1>. QED  BY <1>1, <1>2

(* The first SOF is the one FromSof starts at.                             *)
LEMMA SuffixIsFromSof ==
    ASSUME NEW s \in Seq(Byte), NEW f, Suffix(s, f)
    PROVE  FromSof(s) = f
<1>1. PICK i \in 1 .. Len(s) : First(s, i) /\ f = SubSeq(s, i, Len(s))
  BY DEF Suffix
<1>2. /\ i \in Sofs(s) /\ Sofs(s) # {} /\ \A j \in Sofs(s) : i <= j
  BY <1>1 DEF First
<1>. DEFINE m == Min(Sofs(s))
<1>3. m \in Sofs(s) /\ \A j \in Sofs(s) : m <= j
  <2>1. m = CHOOSE x \in Sofs(s) : \A y \in Sofs(s) : x =< y
    BY DEF Min
  <2>. QED  BY <1>2, <2>1
<1>4. \A j \in Sofs(s) : j \in Nat
  <2>1. DOMAIN s = 1 .. Len(s) /\ Len(s) \in Nat
    BY LenProperties
  <2>. QED  BY <2>1 DEF Sofs
<1>. HIDE DEF m
<1>5. m = i
  BY <1>2, <1>3, <1>4
<1>. QED  BY <1>1, <1>2, <1>5 DEF FromSof, m

(* More bytes after the first SOF are more of the same frame.              *)
LEMMA Longer ==
    ASSUME NEW s \in Seq(Byte), NEW t \in Seq(Byte), NEW f, Suffix(s, f)
    PROVE  f \in Seq(Byte) /\ Suffix(s \o t, f \o t)
<1>. DEFINE u == s \o t
            m == Len(s)
            n == Len(t)
<1>1. PICK i \in 1 .. m : First(s, i) /\ f = SubSeq(s, i, m)
  BY DEF Suffix
<1>2. m \in Nat /\ n \in Nat /\ DOMAIN s = 1 .. m /\ i \in Nat /\ 1 <= i /\ i <= m
  BY LenProperties
<1>3. /\ u \in Seq(Byte) /\ Len(u) = m + n
      /\ \A j \in 1 .. m + n : u[j] = IF j <= m THEN s[j] ELSE t[j - m]
  BY ConcatProperties
<1>4. DOMAIN u = 1 .. m + n
  BY <1>3, LenProperties
<1>5. /\ f \in Seq(Byte) /\ Len(f) = m - i + 1
      /\ \A j \in 1 .. m - i + 1 : f[j] = s[i + j - 1]
  <2>1. /\ SubSeq(s, i, m) \in Seq(Byte)
        /\ Len(SubSeq(s, i, m)) = m - i + 1
        /\ \A j \in 1 .. m - i + 1 : SubSeq(s, i, m)[j] = s[i + j - 1]
    BY <1>2, SubSeqProperties
  <2>. QED  BY <1>1, <2>1
<1>. HIDE DEF u, m, n
<1>6. First(u, i)
  <2>1. i \in Sofs(s) /\ \A j \in Sofs(s) : i <= j
    BY <1>1 DEF First
  <2>2. i \in 1 .. m + n /\ u[i] = s[i]
    BY <1>2, <1>3
  <2>3. i \in Sofs(u)
    BY <1>4, <2>1, <2>2 DEF Sofs
  <2>4. ASSUME NEW j \in Sofs(u) PROVE i <= j
    <3>1. j \in 1 .. m + n /\ Val[u[j]] = PROTOCOL_SOF
      BY <1>4, <2>4 DEF Sofs
    <3>2. CASE j <= m
      <4>1. j \in DOMAIN s /\ u[j] = s[j]
        BY <1>2, <1>3, <3>1, <3>2
      <4>. QED  BY <2>1, <3>1, <4>1 DEF Sofs
    <3>3. CASE ~(j <= m)
      BY <1>2, <3>1, <3>3
    <3>. QED  BY <3>2, <3>3
  <2>. QED  BY <2>3, <2>4 DEF First
<1>. DEFINE g == SubSeq(u, i, m + n)
            h == f \o t
<1>7. /\ g \in Seq(Byte) /\ Len(g) = (m + n) - i + 1
      /\ \A j \in 1 .. (m + n) - i + 1 : g[j] = u[i + j - 1]
  <2>1. i \in 1 .. (m + n) + 1 /\ m + n \in i - 1 .. Len(u)
    BY <1>2, <1>3
  <2>. QED  BY <1>2, <1>3, <2>1, SubSeqProperties
<1>8. /\ h \in Seq(Byte) /\ Len(h) = (m - i + 1) + n
      /\ \A j \in 1 .. (m - i + 1) + n :
            h[j] = IF j <= m - i + 1 THEN f[j] ELSE t[j - (m - i + 1)]
  BY <1>5, ConcatProperties DEF n
<1>. HIDE DEF g, h
<1>9. g = h
  <2>1. ASSUME NEW j \in 1 .. Len(g) PROVE g[j] = h[j]
    <3>1. j \in Nat /\ 1 <= j /\ j <= (m + n) - i + 1
      BY <1>2, <1>7
    <3>2. g[j] = u[i + j - 1] /\ i + j - 1 \in 1 .. m + n
      BY <1>2, <1>7, <3>1
    <3>3. CASE j <= m - i + 1
      <4>1. i + j - 1 <= m /\ j \in 1 .. m - i + 1 /\ j \in 1 .. (m - i + 1) + n
        BY <1>2, <3>1, <3>3
      <4>2. u[i + j - 1] = s[i + j - 1]
        BY <1>3, <3>2, <4>1
      <4>. QED  BY <1>5, <1>8, <3>2, <3>3, <4>1, <4>2
    <3>4. CASE ~(j <= m - i + 1)
      <4>1. /\ ~(i + j - 1 <= m) /\ j \in 1 .. (m - i + 1) + n
            /\ (i + j - 1) - m = j - (m - i + 1)
        BY <1>2, <3>1, <3>4
      <4>2. u[i + j - 1] = t[(i + j - 1) - m]
        BY <1>3, <3>2, <4>1
      <4>3. h[j] = t[j - (m - i + 1)]
        BY <1>8, <3>4, <4>1
      <4>. QED  BY <3>2, <4>1, <4>2, <4>3
    <3>. QED  BY <3>3, <3>4
  <2>2. Len(g) = Len(h)
    BY <1>2, <1>7, <1>8
  <2>. QED  BY <1>7, <1>8, <2>1, <2>2, SeqEqual
<1>10. i \in 1 .. Len(u)
  BY <1>2, <1>3
<1>. QED  BY <1>3, <1>5, <1>6, <1>9, <1>10 DEF Suffix, g, h, u

(* The scan for SOF.                                                       *)
LEMMA Scan ==
    ASSUME NEW s \in Seq(Byte), NEW b \in Byte, Sofs(s) = {}
    PROVE  /\ Val[b] = PROTOCOL_SOF => Suffix(s \o <<b>>, <<b>>)
           /\ Val[b] # PROTOCOL_SOF => Sofs(s \o <<b>>) = {}
<1>. DEFINE u == s \o <<b>>
            m == Len(s)
<1>1. m \in Nat /\ DOMAIN s = 1 .. m
  BY LenProperties
<1>2. <<b>> \in Seq(Byte) /\ Len(<<b>>) = 1 /\ <<b>>[1] = b
  OBVIOUS
<1>3. /\ u \in Seq(Byte) /\ Len(u) = m + 1
      /\ \A j \in 1 .. m + 1 : u[j] = IF j <= m THEN s[j] ELSE <<b>>[j - m]
  BY <1>2, ConcatProperties
<1>4. DOMAIN u = 1 .. m + 1
  BY <1>3, LenProperties
<1>5. (\A j \in 1 .. m : u[j] = s[j]) /\ u[m + 1] = b
  <2>1. m + 1 \in 1 .. m + 1 /\ ~(m + 1 <= m) /\ (m + 1) - m = 1
    BY <1>1
  <2>2. \A j \in 1 .. m : j \in 1 .. m + 1 /\ j <= m
    BY <1>1
  <2>. QED  BY <1>2, <1>3, <2>1, <2>2
<1>6. \A j \in Sofs(u) : j = m + 1 /\ Val[b] = PROTOCOL_SOF
  <2>. SUFFICES ASSUME NEW j \in 1 .. m + 1, Val[u[j]] = PROTOCOL_SOF
                PROVE  j = m + 1
    BY <1>4, <1>5 DEF Sofs
  <2>. HIDE DEF u, m
  <2>1. ASSUME j \in 1 .. m PROVE FALSE
    BY <1>1, <1>5, <2>1 DEF Sofs
  <2>. QED  BY <1>1, <2>1
<1>7. ASSUME Val[b] = PROTOCOL_SOF PROVE Suffix(u, <<b>>)
  <2>1. m + 1 \in 1 .. m + 1 /\ m + 1 \in Nat
    BY <1>1
  <2>2. m + 1 \in Sofs(u)
    BY <1>4, <1>5, <1>7, <2>1 DEF Sofs
  <2>3. First(u, m + 1)
    BY <1>6, <2>1, <2>2 DEF First
  <2>. DEFINE g == SubSeq(u, m + 1, m + 1)
  <2>4. g \in Seq(Byte) /\ Len(g) = 1 /\ g[1] = u[m + 1]
    <3>. HIDE DEF u, m
    <3>. QED  BY <1>1, <1>3, SubSeqProperties
  <2>. HIDE DEF g
  <2>5. g = <<b>>
    BY <1>2, <1>5, <2>4, SeqEqual
  <2>. QED  BY <1>3, <2>1, <2>3, <2>5 DEF Suffix, g
<1>. QED  BY <1>6, <1>7

(* What the stream means, by what has been read of it.                     *)
LEMMA MeaningOf ==
    ASSUME NEW s \in Seq(Byte)
    PROVE  /\ Sofs(s) = {} => Meaning(s) = "incomplete"
           /\ \A f : Suffix(s, f) =>
                 Meaning(s) = IF Len(f) < 2 THEN "incomplete"
                              ELSE IF ~LengthOk(Val[f[2]]) THEN "BAD_FRAME"
                              ELSE IF Len(f) < PROTOCOL_RESPONSE_OVERHEAD + Val[f[2]]
                                THEN "incomplete"
                              ELSE IF f \in Intact THEN "OK" ELSE "BAD_FRAME"
<1>1. ASSUME Sofs(s) = {} PROVE Meaning(s) = "incomplete"
  <2>1. FromSof(s) = <<>> /\ Len(<<>>) = 0
    BY <1>1 DEF FromSof
  <2>. QED  BY <2>1 DEF Meaning
<1>2. ASSUME NEW f, Suffix(s, f) PROVE FromSof(s) = f
  BY <1>2, SuffixIsFromSof
<1>. QED  BY <1>1, <1>2 DEF Meaning

-----------------------------------------------------------------------------
(* One lemma per action.                                                   *)

LEMMA InitInv == HistoryInit => StreamInv
<1>. SUFFICES ASSUME HistoryInit PROVE StreamInv
  OBVIOUS
<1>1. /\ rx = <<>> /\ phase = "idle" /\ frame = <<>> /\ status = "OK"
      /\ response = <<>> /\ taken = <<>>
  BY DEF HistoryInit, Init
<1>2. TypeOK
  BY <1>1, EmptySeq DEF TypeOK, Phases, Statuses
<1>3. Progress /\ Reassembly
  BY <1>1 DEF Progress, Reassembly
<1>. QED  BY <1>2, <1>3 DEF StreamInv

(* The line, a foreign reader, and steps that change nothing.              *)
LEMMA LineInv ==
    ASSUME StreamInv, rx' \in Seq(Byte), UNCHANGED <<phase, frame, status, response, taken>>
    PROVE  StreamInv'
BY DEF StreamInv, TypeOK, Progress, Reassembly, Suffix, First, Sofs, Meaning, FromSof

LEMMA StartInv ==
    ASSUME StreamInv, Start, taken' = <<>> PROVE StreamInv'
<1>1. phase' = "sof" /\ frame' = <<>> /\ UNCHANGED <<rx, status, response>>
  BY DEF Start
<1>2. TypeOK'
  BY <1>1, EmptySeq DEF StreamInv, TypeOK, Phases
<1>3. Sofs(taken') = {}
  BY DEF Sofs
<1>4. Meaning(taken') = "incomplete"
  BY <1>2, <1>3, MeaningOf DEF TypeOK
<1>. QED  BY <1>1, <1>2, <1>3, <1>4 DEF StreamInv, Progress, Reassembly

(* The next byte, and how it gets into the history.                        *)
LEMMA NextByte ==
    ASSUME StreamInv, rx # <<>>, rx' = Tail(rx),
           taken' = taken \o SubSeq(rx, 1, Len(rx) - Len(rx'))
    PROVE  /\ Head(rx) \in Byte /\ rx' \in Seq(Byte)
           /\ taken' = taken \o <<Head(rx)>> /\ taken' \in Seq(Byte)
<1>1. rx \in Seq(Byte) /\ taken \in Seq(Byte) /\ Len(rx) \in Nat /\ Len(rx) >= 1
  BY LenProperties DEF StreamInv, TypeOK
<1>2. /\ Head(rx) \in Byte /\ Head(rx) = rx[1]
      /\ rx' \in Seq(Byte) /\ Len(rx') = Len(rx) - 1
  BY <1>1, HeadTailProperties
<1>3. Len(rx) - Len(rx') = 1
  BY <1>1, <1>2
<1>. DEFINE p == SubSeq(rx, 1, 1)
            h == <<Head(rx)>>
<1>4. p \in Seq(Byte) /\ Len(p) = 1 /\ p[1] = rx[1]
  BY <1>1, SubSeqProperties
<1>5. h \in Seq(Byte) /\ Len(h) = 1 /\ h[1] = rx[1]
  BY <1>2
<1>6. taken' = taken \o p
  BY <1>3
<1>. HIDE DEF p, h
<1>7. p = h
  BY <1>4, <1>5, SeqEqual
<1>8. taken \o h \in Seq(Byte)
  BY <1>1, <1>5, ConcatProperties
<1>. QED  BY <1>2, <1>6, <1>7, <1>8 DEF h

LEMMA TakeSofInv ==
    ASSUME StreamInv, TakeSof, taken' = taken \o SubSeq(rx, 1, Len(rx) - Len(rx'))
    PROVE  StreamInv'
<1>. DEFINE b == Head(rx)
<1>1. /\ phase = "sof" /\ rx # <<>> /\ rx' = Tail(rx) /\ UNCHANGED <<status, response>>
      /\ \/ Val[b] = PROTOCOL_SOF /\ phase' = "len" /\ frame' = <<b>>
         \/ Val[b] # PROTOCOL_SOF /\ UNCHANGED <<phase, frame>>
      /\ Sofs(taken) = {} /\ taken \in Seq(Byte)
  BY DEF TakeSof, StreamInv, Progress, TypeOK
<1>2. b \in Byte /\ rx' \in Seq(Byte) /\ taken' = taken \o <<b>> /\ taken' \in Seq(Byte)
  BY <1>1, NextByte
<1>. HIDE DEF b
<1>3. <<b>> \in Seq(Byte) /\ Len(<<b>>) = 1
  BY <1>2
<1>4. TypeOK'
  BY <1>1, <1>2, <1>3 DEF StreamInv, TypeOK, Phases
<1>5. \/ phase' = "len" /\ frame' = <<b>> /\ Suffix(taken', frame')
      \/ phase' = "sof" /\ Sofs(taken') = {}
  BY <1>1, <1>2, Scan
<1>6. Progress'
  BY <1>3, <1>5 DEF Progress
<1>7. Meaning(taken') = "incomplete"
  <2>1. Len(<<b>>) < 2
    BY <1>3
  <2>. QED  BY <1>2, <1>5, <2>1, MeaningOf
<1>. QED  BY <1>4, <1>5, <1>6, <1>7 DEF StreamInv, Reassembly

LEMMA TakeLenInv ==
    ASSUME StreamInv, TakeLen, taken' = taken \o SubSeq(rx, 1, Len(rx) - Len(rx'))
    PROVE  StreamInv'
<1>. DEFINE b == Head(rx)
            f == frame \o <<b>>
<1>1. /\ phase = "len" /\ rx # <<>> /\ rx' = Tail(rx)
      /\ \/ /\ LengthOk(Val[b]) /\ phase' = "body" /\ frame' = Append(frame, b)
            /\ UNCHANGED <<status, response>>
         \/ /\ ~LengthOk(Val[b]) /\ phase' = "idle" /\ frame' = <<>>
            /\ status' = "BAD_FRAME" /\ response' = <<>>
      /\ Suffix(taken, frame) /\ Len(frame) = 1
      /\ taken \in Seq(Byte) /\ frame \in Seq(Byte)
  BY DEF TakeLen, Return, StreamInv, Progress, TypeOK
<1>2. b \in Byte /\ rx' \in Seq(Byte) /\ taken' = taken \o <<b>> /\ taken' \in Seq(Byte)
  BY <1>1, NextByte
<1>. HIDE DEF b
<1>3. <<b>> \in Seq(Byte) /\ Len(<<b>>) = 1 /\ <<b>>[1] = b
  BY <1>2
<1>4. f \in Seq(Byte) /\ Len(f) = 2 /\ f[2] = b /\ Append(frame, b) = f
  <2>1. /\ f \in Seq(Byte) /\ Len(f) = 1 + 1
        /\ \A i \in 1 .. 1 + 1 : f[i] = IF i <= 1 THEN frame[i] ELSE <<b>>[i - 1]
    <3>. DEFINE g == <<b>>
    <3>1. frame \in Seq(Byte) /\ g \in Seq(Byte) /\ Len(frame) = 1 /\ Len(g) = 1
      BY <1>1, <1>3
    <3>. HIDE DEF g
    <3>2. /\ frame \o g \in Seq(Byte) /\ Len(frame \o g) = Len(frame) + Len(g)
          /\ \A i \in 1 .. Len(frame) + Len(g) :
                (frame \o g)[i] = IF i <= Len(frame) THEN frame[i] ELSE g[i - Len(frame)]
      BY <3>1, ConcatProperties
    <3>. QED  BY <3>1, <3>2, Zenon DEF g
  <2>2. Append(frame, b) = f
    BY <1>1, <1>2, AppendIsConcat, Zenon
  <2>. HIDE DEF f
  <2>3. 2 \in 1 .. 1 + 1 /\ ~(2 <= 1) /\ 2 - 1 = 1 /\ 1 + 1 = 2
    OBVIOUS
  <2>. QED  BY <1>3, <2>1, <2>2, <2>3, Zenon
<1>5. Suffix(taken', f)
  BY <1>1, <1>2, <1>3, Longer
<1>. HIDE DEF f
<1>6. TypeOK'
  BY <1>1, <1>2, <1>4, EmptySeq DEF StreamInv, TypeOK, Phases, Statuses
<1>7. Val[b] \in Nat /\ Val[f[2]] = Val[b]
  BY <1>2, <1>4, Octets, Zenon
<1>8. CASE LengthOk(Val[b])
  <2>1. Len(f) < PROTOCOL_RESPONSE_OVERHEAD + Val[f[2]] /\ ~(Len(f) < 2) /\ Len(f) >= 2
    <3>. DEFINE n == Val[b]
    <3>1. n \in Nat /\ Val[f[2]] = n
      BY <1>7
    <3>. HIDE DEF n
    <3>. QED  BY <1>4, <3>1 DEF PROTOCOL_RESPONSE_OVERHEAD
  <2>2. LengthOk(Val[f[2]])
    BY <1>7, <1>8, Zenon
  <2>3. phase' = "body" /\ frame' = f
    BY <1>1, <1>4, <1>8, Zenon
  <2>4. Progress'
    <3>1. phase' # "sof" /\ phase' # "len"
      BY <2>3
    <3>. QED  BY <1>5, <2>1, <2>2, <2>3, <3>1, Zenon DEF Progress
  <2>5. Meaning(taken') = "incomplete"
    BY <1>2, <1>5, <2>1, <2>2, MeaningOf, Zenon
  <2>. QED  BY <1>1, <1>6, <1>8, <2>4, <2>5 DEF StreamInv, Reassembly
<1>9. CASE ~LengthOk(Val[b])
  <2>1. Meaning(taken') = "BAD_FRAME"
    <3>1. ~(Len(f) < 2)
      BY <1>4
    <3>. QED  BY <1>2, <1>5, <1>7, <1>9, <3>1, MeaningOf, Zenon
  <2>. QED  BY <1>1, <1>6, <1>9, <2>1 DEF StreamInv, Progress, Reassembly
<1>. QED  BY <1>8, <1>9

LEMMA TakeBodyInv ==
    ASSUME StreamInv, NEW k \in 1 .. Len(rx), TakeBody(k),
           taken' = taken \o SubSeq(rx, 1, Len(rx) - Len(rx'))
    PROVE  StreamInv'
<1>. DEFINE p == SubSeq(rx, 1, k)
            f == frame \o p
            size == PROTOCOL_RESPONSE_OVERHEAD + Val[frame[2]]
<1>1. /\ phase = "body" /\ k <= Remaining /\ rx' = SubSeq(rx, k + 1, Len(rx))
      /\ IF k < Remaining
           THEN frame' = f /\ UNCHANGED <<phase, status, response>>
           ELSE Return(ParseResponse(f), IF f \in Intact THEN f ELSE <<>>)
      /\ Suffix(taken, frame) /\ Len(frame) >= 2 /\ LengthOk(Val[frame[2]])
      /\ taken \in Seq(Byte) /\ frame \in Seq(Byte) /\ rx \in Seq(Byte)
  BY DEF TakeBody, StreamInv, Progress, TypeOK
<1>2. Len(frame) \in Nat /\ Len(rx) \in Nat /\ k \in Nat /\ 1 <= k /\ k <= Len(rx)
  BY <1>1, LenProperties
<1>3. p \in Seq(Byte) /\ Len(p) = k
  BY <1>1, <1>2, SubSeqProperties
<1>4. rx' \in Seq(Byte) /\ Len(rx') = Len(rx) - k
  BY <1>1, <1>2, SubSeqProperties
<1>5. taken' = taken \o p
  <2>1. Len(rx) - Len(rx') = k
    BY <1>2, <1>4
  <2>. QED  BY <2>1
<1>. HIDE DEF p
<1>6. /\ f \in Seq(Byte) /\ Len(f) = Len(frame) + k /\ f[2] = frame[2]
  <2>1. /\ f \in Seq(Byte) /\ Len(f) = Len(frame) + Len(p)
        /\ \A i \in 1 .. Len(frame) + Len(p) :
              f[i] = IF i <= Len(frame) THEN frame[i] ELSE p[i - Len(frame)]
    BY <1>1, <1>3, ConcatProperties
  <2>. HIDE DEF f
  <2>2. 2 \in 1 .. Len(frame) + Len(p) /\ 2 <= Len(frame)
    BY <1>1, <1>2, <1>3
  <2>. QED  BY <1>3, <2>1, <2>2, Zenon
<1>7. Suffix(taken', f) /\ taken' \in Seq(Byte)
  <2>1. Suffix(taken \o p, f)
    BY <1>1, <1>3, Longer, Zenon
  <2>2. taken \o p \in Seq(Byte)
    BY <1>1, <1>3, ConcatProperties
  <2>. QED  BY <1>5, <2>1, <2>2, Zenon
<1>8. size \in Nat /\ Remaining = size - Len(frame)
  <2>1. frame[2] \in Byte
    BY <1>1, <1>2, ElementOfSeq
  <2>2. Val[frame[2]] \in Nat
    BY <2>1, Octets, Zenon
  <2>. QED  BY <2>2 DEF Remaining, PROTOCOL_RESPONSE_OVERHEAD
<1>9. size = PROTOCOL_RESPONSE_OVERHEAD + Val[f[2]]
  BY <1>6
<1>. HIDE DEF f, size
<1>10. ~(Len(f) < 2) /\ LengthOk(Val[f[2]])
  BY <1>1, <1>2, <1>6
<1>11. CASE k < Remaining
  <2>1. frame' = f /\ UNCHANGED <<phase, status, response>> /\ Len(f) < size
    BY <1>1, <1>2, <1>6, <1>8, <1>11
  <2>2. TypeOK'
    BY <1>4, <1>6, <1>7, <2>1 DEF StreamInv, TypeOK
  <2>3. Progress'
    BY <1>1, <1>2, <1>6, <1>7, <1>9, <1>10, <2>1 DEF Progress
  <2>4. Meaning(taken') = "incomplete"
    BY <1>7, <1>9, <1>10, <2>1, MeaningOf
  <2>. QED  BY <1>1, <2>1, <2>2, <2>3, <2>4 DEF StreamInv, Reassembly
<1>12. CASE ~(k < Remaining)
  <2>1. ~(Len(f) < size)
    BY <1>1, <1>2, <1>6, <1>8, <1>12
  <2>2. /\ phase' = "idle" /\ frame' = <<>>
        /\ \/ f \in Intact /\ status' = "OK" /\ response' = f
           \/ f \notin Intact /\ status' = "BAD_FRAME" /\ response' = <<>>
    BY <1>1, <1>12 DEF Return, ParseResponse
  <2>3. TypeOK'
    BY <1>4, <1>6, <1>7, <2>2, EmptySeq DEF TypeOK, Phases, Statuses
  <2>4. Meaning(taken') = (IF f \in Intact THEN "OK" ELSE "BAD_FRAME")
    BY <1>7, <1>9, <1>10, <2>1, MeaningOf
  <2>5. FromSof(taken') = f
    BY <1>7, SuffixIsFromSof
  <2>6. Reassembly'
    BY <2>2, <2>4, <2>5 DEF Reassembly
  <2>. QED  BY <2>2, <2>3, <2>6 DEF StreamInv, Progress
<1>. QED  BY <1>11, <1>12

LEMMA GiveUpInv ==
    ASSUME StreamInv, NEW s \in {"NO_RESPONSE", "ERR_IO"}, GiveUp(s),
           taken' = taken \o SubSeq(rx, 1, Len(rx) - Len(rx'))
    PROVE  StreamInv'
<1>1. /\ phase # "idle" /\ phase' = "idle" /\ frame' = <<>> /\ status' = s
      /\ response' = <<>> /\ rx' = rx /\ rx \in Seq(Byte) /\ taken \in Seq(Byte)
  BY DEF GiveUp, Return, StreamInv, TypeOK
<1>2. taken' = taken
  <2>1. Len(rx) \in Nat /\ Len(rx) - Len(rx') = 0
    BY <1>1, LenProperties
  <2>2. SubSeq(rx, 1, 0) = <<>>
    BY <1>1, <2>1, SubSeqProperties, EmptySeq
  <2>3. taken \o <<>> = taken
    BY <1>1, ConcatEmptySeq
  <2>. QED  BY <2>1, <2>2, <2>3
<1>3. TypeOK'
  BY <1>1, <1>2, EmptySeq DEF TypeOK, Phases, Statuses
<1>4. Meaning(taken') = "incomplete"
  BY <1>1, <1>2 DEF StreamInv, Reassembly
<1>. QED  BY <1>1, <1>3, <1>4 DEF StreamInv, Progress, Reassembly

-----------------------------------------------------------------------------
(* Theorems.                                                               *)

LEMMA Invariance == HistorySpec => []StreamInv
<1>1. StreamInv /\ [HistoryNext]_historyVars => StreamInv'
  <2>. SUFFICES ASSUME StreamInv, [HistoryNext]_historyVars PROVE StreamInv'
    OBVIOUS
  <2>1. CASE Start /\ taken' = <<>>
    BY <2>1, StartInv
  <2>2. CASE Step /\ taken' = taken \o SubSeq(rx, 1, Len(rx) - Len(rx'))
    BY <2>2, TakeSofInv, TakeLenInv, TakeBodyInv, GiveUpInv DEF Step
  <2>3. CASE (\E b \in Byte : Arrive(b)) /\ UNCHANGED taken
    <3>1. PICK b \in Byte : Arrive(b)
      BY <2>3
    <3>2. rx' \in Seq(Byte)
      BY <3>1, AppendProperties DEF Arrive, StreamInv, TypeOK
    <3>. QED  BY <2>3, <3>1, <3>2, LineInv DEF Arrive
  <2>4. CASE Drain /\ UNCHANGED taken
    BY <2>4, EmptySeq, LineInv DEF Drain
  <2>5. CASE UNCHANGED historyVars
    BY <2>5, LineInv DEF historyVars, vars, StreamInv, TypeOK
  <2>. QED  BY <2>1, <2>2, <2>3, <2>4, <2>5 DEF HistoryNext
<1>. QED  BY InitInv, <1>1, PTL DEF HistorySpec

(* The verdict of receive_response is a function of the bytes it takes,    *)
(* however they arrive and in whatever pieces they are read: it takes the  *)
(* frame from the first SOF to its last byte and nothing more, and gives   *)
(* up only when they hold no whole frame.                                  *)
THEOREM FramesReassembled == HistorySpec => []Reassembly
<1>1. StreamInv => Reassembly
  BY DEF StreamInv
<1>. QED  BY Invariance, <1>1, PTL

=============================================================================
