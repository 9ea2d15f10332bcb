----------------------- MODULE CommandTransport_proofs -----------------------
(***************************************************************************)
(* Proofs about CommandTransport, for every alphabet, timeout, scheduling  *)
(* delay and bound.                                                        *)
(***************************************************************************)
EXTENDS CommandTransport, SequenceTheorems, TLAPS

(* The facts about the constants the proofs use.                           *)
LEMMA Constants ==
    /\ MaxLag \in Nat
    /\ MaxData \in Nat
    /\ \A b \in Byte : b \in Octet
    /\ \A b \in Octet : b \in Nat
    /\ 0 \in Octet
    /\ PROTOCOL_MAX_RESPONSE_FRAME = MaxData + 5
    /\ PROTOCOL_MAX_RESPONSE_LEN = MaxData + 1
    /\ Index = 0 .. MaxData + 4
    /\ EmptyFrame \in [Index -> Octet]
BY TransportAssumption
   DEF Octet, PROTOCOL_MAX_RESPONSE_FRAME, PROTOCOL_MAX_RESPONSE_LEN,
       PROTOCOL_RESPONSE_OVERHEAD, PROTOCOL_MIN_RESPONSE_LEN, Index, EmptyFrame

(* A call that returns leaves the state the invariant asks of an idle      *)
(* reader.                                                                 *)
LEMMA ReturnInv ==
    ASSUME NEW s \in {"OK", "NO_RESPONSE", "ERR_IO", "BAD_FRAME"},
           NEW f \in Seq(Octet),
           IInv, Return(s, f), Ran, rx' \in Seq(Byte)
    PROVE  IInv'
<1>1. TypeOK'
  BY Constants DEF IInv, TypeOK, Return, Ran
<1>2. InBounds'
  BY Constants DEF Return, InBounds, Offset
<1>3. BufferInv' /\ ClockInv'
  BY DEF Return, BufferInv, ClockInv, Active
<1>. QED  BY <1>1, <1>2, <1>3 DEF IInv

(* What read(2) has put into frame[]: octets, and LEN untouched by the     *)
(* bytes behind it.                                                        *)
LEMMA FilledType ==
    ASSUME IInv, NEW k \in Nat, k <= Len(rx)
    PROVE  /\ Filled(k) \in [Index -> Octet]
           /\ stage = "body" => Filled(k)[1] = frame[1]
<1>1. \A j \in 1 .. k : rx[j] \in Octet
  <2>1. rx \in Seq(Byte) /\ Len(rx) \in Nat
    BY LenProperties DEF IInv, TypeOK
  <2>2. \A j \in 1 .. Len(rx) : rx[j] \in Byte
    BY <2>1, ElementOfSeq
  <2>. QED  BY <2>1, <2>2, Constants
<1>2. Offset(stage) \in Nat /\ got \in Nat /\ frame \in [Index -> Octet]
  BY DEF IInv, TypeOK, Offset
<1>3. Filled(k) \in [Index -> Octet]
  BY <1>1, <1>2, Constants DEF Filled
<1>4. ASSUME stage = "body"
      PROVE  Filled(k)[1] = frame[1]
  <2>1. Offset(stage) = 2
    BY <1>4 DEF Offset
  <2>2. 1 \in Index
    BY Constants
  <2>. QED  BY <2>1, <2>2, <1>2 DEF Filled
<1>. QED  BY <1>3, <1>4

(* The next read_exactly of the same call starts with an invariant state.  *)
LEMMA NextReadInv ==
    ASSUME IInv, pc = "read", Ran, rx' \in Seq(Byte),
           NEW s \in {"sof", "len", "body"}, NEW w \in Nat,
           NEW f \in [Index -> Octet], NextRead(s, w, f),
           s # "body" => w = 1,
           s = "body" => w = f[1] + 2 /\ LengthOk(f[1])
    PROVE  IInv'
<1>1. TypeOK'
  BY Constants DEF IInv, TypeOK, NextRead, Ran, budget, result
<1>2. BufferInv'
  BY DEF NextRead, BufferInv
<1>3. InBounds'
  BY Constants DEF NextRead, InBounds, Offset, LengthOk,
                   PROTOCOL_MIN_RESPONSE_LEN
<1>4. ClockInv'
  BY Constants DEF IInv, TypeOK, ClockInv, NextRead, Ran, budget, Active
<1>. QED  BY <1>1, <1>2, <1>3, <1>4 DEF IInv

(* A read(2) that delivers bytes keeps the invariant, whether it completes *)
(* the piece asked for or not.                                             *)
LEMMA ReadBytesInv ==
    ASSUME IInv, NEW k \in 1 .. MaxRx, ReadBytes(k)
    PROVE  IInv'
<1>. USE Constants
<1>1. k \in Nat /\ k >= 1 /\ k <= Len(rx) /\ k <= want - got
  BY TransportAssumption DEF ReadBytes
<1>2. rx' \in Seq(Byte) /\ Ran /\ pc = "read"
  BY <1>1, SubSeqProperties DEF ReadBytes, IInv, TypeOK
<1>3. Filled(k) \in [Index -> Octet] /\ (stage = "body" => Filled(k)[1] = frame[1])
  BY <1>1, FilledType
<1>4. CASE /\ got + k < want
           /\ got' = got + k
           /\ frame' = Filled(k)
           /\ pc' = "loop"
           /\ UNCHANGED <<stage, want, budget, left, udeadline, expiry, result>>
  <2>1. TypeOK'
    BY <1>1, <1>2, <1>3, <1>4 DEF IInv, TypeOK, Ran, budget, result
  <2>2. InBounds' /\ BufferInv'
    BY <1>1, <1>3, <1>4 DEF IInv, TypeOK, InBounds, BufferInv, Offset
  <2>3. ClockInv'
    BY <1>2, <1>4 DEF IInv, TypeOK, ClockInv, Ran, budget, Active
  <2>. QED  BY <2>1, <2>2, <2>3 DEF IInv
<1>5. CASE SofRead(Filled(k))
  BY <1>2, <1>3, <1>5, NextReadInv DEF SofRead
<1>6. CASE LenRead(Filled(k))
  <2>1. Filled(k)[1] \in Nat
    <3>1. 1 \in Index
      OBVIOUS
    <3>2. Filled(k)[1] \in Octet
      BY <1>3, <3>1
    <3>. QED  BY <3>2
  <2>2. CASE LengthOk(Filled(k)[1])
    <3>1. NextRead("body", Filled(k)[1] + 2, Filled(k))
      BY <1>6, <2>2 DEF LenRead
    <3>2. Filled(k)[1] + 2 \in Nat
      BY <2>1
    <3>. QED  BY <1>2, <1>3, <2>2, <3>1, <3>2, NextReadInv
  <2>3. CASE ~LengthOk(Filled(k)[1])
    BY <1>2, <1>6, <2>3, ReturnInv, EmptySeq DEF LenRead
  <2>. QED  BY <2>2, <2>3
<1>7. CASE BodyRead(Filled(k))
  <2>. DEFINE f == Filled(k)
              g == [i \in 1 .. PROTOCOL_RESPONSE_OVERHEAD + f[1] |-> f[i - 1]]
  <2>1. f[1] \in 1 .. MaxData + 1
    BY <1>3, <1>7 DEF BodyRead, IInv, TypeOK, BufferInv, LengthOk,
                      PROTOCOL_MIN_RESPONSE_LEN
  <2>2. \A i \in 1 .. 4 + f[1] : f[i - 1] \in Octet
    BY <1>3, <2>1
  <2>3. g \in Seq(Octet)
    <3>1. 4 + f[1] \in Nat
      BY <2>1
    <3>2. g \in [1 .. 4 + f[1] -> Octet]
      BY <2>2 DEF PROTOCOL_RESPONSE_OVERHEAD
    <3>. HIDE DEF f, g
    <3>. QED  BY <3>1, <3>2, SeqDef
  <2>4. Return("OK", g) \/ Return("BAD_FRAME", <<>>)
    BY <1>7 DEF BodyRead
  <2>. QED  BY <1>2, <2>3, <2>4, ReturnInv, EmptySeq
<1>. QED  BY <1>4, <1>5, <1>6, <1>7 DEF ReadBytes

(* The invariant is inductive.                                             *)
LEMMA InitInv == Init => IInv
<1>. SUFFICES ASSUME Init PROVE IInv
  OBVIOUS
<1>1. TypeOK
  BY Constants, EmptySeq DEF Init, TypeOK
<1>2. InBounds /\ BufferInv /\ ClockInv
  BY Constants DEF Init, InBounds, BufferInv, ClockInv, Offset, Active
<1>. QED  BY <1>1, <1>2 DEF IInv

LEMMA NextInv == IInv /\ [Next]_vars => IInv'
<1>. SUFFICES ASSUME IInv, [Next]_vars PROVE IInv'
  OBVIOUS
<1>. USE Constants, TransportAssumption
<1>. USE DEF buffer, budget, result
<1>0. rx \in Seq(Byte) /\ <<>> \in Seq(Octet)
  BY EmptySeq DEF IInv, TypeOK
<1>1. ASSUME NEW t \in Timeouts, ReceiveResponse(t) PROVE IInv'
  <2>1. t \in Int
    OBVIOUS
  <2>2. TypeOK'
    BY <1>1, <2>1 DEF IInv, TypeOK, ReceiveResponse, Ran
  <2>3. InBounds' /\ BufferInv'
    BY <1>1 DEF IInv, InBounds, BufferInv, ReceiveResponse, Offset
  <2>4. ClockInv'
    BY <1>1, <2>1 DEF IInv, TypeOK, ClockInv, ReceiveResponse, Ran, Active
  <2>. QED  BY <2>2, <2>3, <2>4 DEF IInv
<1>2. CASE ReadExactly
  <2>1. CASE deadline - now <= 0
    BY <1>0, <1>2, <2>1, ReturnInv DEF ReadExactly
  <2>2. CASE ~(deadline - now <= 0)
    <3>1. TypeOK'
      BY <1>2, <2>2 DEF IInv, TypeOK, ReadExactly, Ran
    <3>2. InBounds' /\ BufferInv'
      BY <1>2, <2>2 DEF IInv, InBounds, BufferInv, ReadExactly, Offset
    <3>3. ClockInv'
      BY <1>2, <2>2 DEF IInv, TypeOK, ClockInv, ReadExactly, Ran, Active
    <3>. QED  BY <3>1, <3>2, <3>3 DEF IInv
  <2>. QED  BY <2>1, <2>2
<1>3. CASE UartRead
  <2>1. TypeOK'
    BY <1>3 DEF IInv, TypeOK, UartRead, Ran
  <2>2. InBounds' /\ BufferInv'
    BY <1>3 DEF IInv, TypeOK, InBounds, BufferInv, UartRead, Offset
  <2>3. ClockInv'
    BY <1>3 DEF IInv, TypeOK, ClockInv, UartRead, Ran, Active
  <2>. QED  BY <2>1, <2>2, <2>3 DEF IInv
<1>4. CASE UartReadLoop
  <2>1. CASE udeadline - now <= 0
    BY <1>0, <1>4, <2>1, ReturnInv DEF UartReadLoop
  <2>2. CASE ~(udeadline - now <= 0)
    <3>1. TypeOK'
      BY <1>4, <2>2 DEF IInv, TypeOK, UartReadLoop, Ran
    <3>2. InBounds' /\ BufferInv'
      BY <1>4, <2>2 DEF IInv, InBounds, BufferInv, UartReadLoop, Offset
    <3>3. ClockInv'
      BY <1>4, <2>2 DEF IInv, TypeOK, ClockInv, UartReadLoop, Ran, Active
    <3>. QED  BY <3>1, <3>2, <3>3 DEF IInv
  <2>. QED  BY <2>1, <2>2
<1>5. CASE PollCall
  <2>1. TypeOK'
    BY <1>5 DEF IInv, TypeOK, PollCall, Ran
  <2>2. InBounds' /\ BufferInv'
    BY <1>5 DEF IInv, InBounds, BufferInv, PollCall, Offset
  <2>3. ClockInv'
    BY <1>5 DEF IInv, TypeOK, ClockInv, PollCall, Ran, Active
  <2>. QED  BY <2>1, <2>2, <2>3 DEF IInv
<1>6. CASE PollReady
  <2>1. TypeOK'
    BY <1>6 DEF IInv, TypeOK, PollReady, Ran
  <2>2. InBounds' /\ BufferInv'
    BY <1>6 DEF IInv, InBounds, BufferInv, PollReady, Offset
  <2>3. ClockInv'
    BY <1>6 DEF IInv, TypeOK, ClockInv, PollReady, Ran, Active
  <2>. QED  BY <2>1, <2>2, <2>3 DEF IInv
<1>7. CASE PollInterrupted
  <2>1. TypeOK'
    BY <1>7 DEF IInv, TypeOK, PollInterrupted, Ran
  <2>2. InBounds' /\ BufferInv'
    BY <1>7 DEF IInv, InBounds, BufferInv, PollInterrupted, Offset
  <2>3. ClockInv'
    BY <1>7 DEF IInv, TypeOK, ClockInv, PollInterrupted, Ran, Active
  <2>. QED  BY <2>1, <2>2, <2>3 DEF IInv
<1>8. CASE ReadInterrupted
  <2>1. TypeOK'
    BY <1>8 DEF IInv, TypeOK, ReadInterrupted, Ran
  <2>2. InBounds' /\ BufferInv'
    BY <1>8 DEF IInv, InBounds, BufferInv, ReadInterrupted, Offset
  <2>3. ClockInv'
    BY <1>8 DEF IInv, TypeOK, ClockInv, ReadInterrupted, Ran, Active
  <2>. QED  BY <2>1, <2>2, <2>3 DEF IInv
<1>9. CASE PollTimeout \/ PollFails \/ PollHangup \/ ReadFails \/ ReadNothing
  <2>1. PICK s \in {"NO_RESPONSE", "ERR_IO"} :
            Return(s, <<>>) /\ UNCHANGED rx /\ Ran
    BY <1>9 DEF PollTimeout, PollFails, PollHangup, ReadFails, ReadNothing
  <2>. QED  BY <1>0, <2>1, ReturnInv
<1>10. ASSUME NEW k \in 1 .. MaxRx, ReadBytes(k) PROVE IInv'
  BY <1>10, ReadBytesInv
<1>11. ASSUME NEW b \in Byte, Arrive(b) PROVE IInv'
  <2>1. rx' \in Seq(Byte)
    BY <1>0, <1>11, AppendProperties DEF Arrive
  <2>2. TypeOK'
    BY <1>11, <2>1 DEF IInv, TypeOK, Arrive, clock
  <2>3. InBounds' /\ BufferInv' /\ ClockInv'
    BY <1>11 DEF IInv, InBounds, BufferInv, ClockInv, Arrive, clock, Offset, Active
  <2>. QED  BY <2>2, <2>3 DEF IInv
<1>12. CASE Drain
  <2>1. rx' \in Seq(Byte)
    BY <1>0, <1>12, EmptySeq DEF Drain
  <2>2. TypeOK'
    BY <1>12, <2>1 DEF IInv, TypeOK, Drain, clock
  <2>3. InBounds' /\ BufferInv'
    BY <1>12 DEF IInv, InBounds, BufferInv, Drain, clock, Offset
  <2>4. ClockInv'
    BY <1>12 DEF IInv, ClockInv, Drain, clock, Active
  <2>. QED  BY <2>2, <2>3, <2>4 DEF IInv
<1>13. CASE Disconnect
  <2>1. up' \in BOOLEAN
    BY <1>0, <1>13, EmptySeq DEF Disconnect
  <2>2. TypeOK'
    BY <1>13, <2>1 DEF IInv, TypeOK, Disconnect, clock
  <2>3. InBounds' /\ BufferInv'
    BY <1>13 DEF IInv, InBounds, BufferInv, Disconnect, clock, Offset
  <2>4. ClockInv'
    BY <1>13 DEF IInv, ClockInv, Disconnect, clock, Active
  <2>. QED  BY <2>2, <2>3, <2>4 DEF IInv
<1>14. CASE Tick
  <2>1. TypeOK'
    BY <1>14 DEF IInv, TypeOK, Tick, line
  <2>2. InBounds' /\ BufferInv'
    BY <1>14 DEF IInv, InBounds, BufferInv, Tick, Offset
  <2>3. ClockInv'
    <3>0. UNCHANGED <<pc, deadline, limit, left, udeadline, expiry>> /\ now' = now + 1
      BY <1>14 DEF Tick
    <3>1. CASE ~Active
      BY <3>0, <3>1 DEF IInv, ClockInv, Active
    <3>2. CASE Blocked
      BY <1>14, <3>0, <3>2 DEF IInv, TypeOK, ClockInv, Tick, Active, Blocked
    <3>3. CASE Active /\ ~Blocked
      <4>1. lag' = lag + 1
        BY <1>14, <3>3 DEF Tick
      <4>. QED  BY <3>0, <4>1 DEF IInv, TypeOK, ClockInv, Active
    <3>. QED  BY <3>1, <3>2, <3>3
  <2>. QED  BY <2>1, <2>2, <2>3 DEF IInv
<1>15. CASE UNCHANGED vars
  <2>1. TypeOK'
    BY <1>15 DEF vars, IInv, TypeOK
  <2>2. InBounds' /\ BufferInv'
    BY <1>15 DEF vars, IInv, InBounds, BufferInv, Offset
  <2>3. ClockInv'
    BY <1>15 DEF vars, IInv, ClockInv, Active
  <2>. QED  BY <2>1, <2>2, <2>3 DEF IInv
<1>. QED
  BY <1>1, <1>2, <1>3, <1>4, <1>5, <1>6, <1>7, <1>8, <1>9, <1>10, <1>11, <1>12,
     <1>13, <1>14, <1>15
     DEF Next, Run

(* Every reachable state satisfies the inductive invariant.                *)
LEMMA Invariance == Spec => []IInv
BY InitInv, NextInv, PTL DEF Spec

(* The variables keep the types of the C locals they stand for; no read    *)
(* ever asks for a length that is not a size_t.                            *)
THEOREM TypeCorrect == Spec => []TypeOK
<1>1. IInv => TypeOK
  BY DEF IInv
<1>. QED  BY <1>1, Invariance, PTL

(* No read, of any stage, in any number of pieces, leaves frame[].         *)
THEOREM ReadsInBounds == Spec => []InBounds
<1>1. IInv => InBounds
  BY DEF IInv
<1>. QED  BY <1>1, Invariance, PTL

(* timeout_ms bounds the whole call: five scheduling delays, however many  *)
(* reads and interruptions.                                                *)
THEOREM Timeliness == Spec => []OnTime
<1>1. IInv => OnTime
  BY Constants DEF IInv, TypeOK, ClockInv, OnTime, Active
<1>. QED  BY <1>1, Invariance, PTL

(* No call reports NO_RESPONSE before its deadline.                        *)
THEOREM Patience == Spec => NeverEarly
<1>. DEFINE Early == Active /\ ~Active' /\ status' = "NO_RESPONSE" => now >= deadline
<1>1. IInv /\ [Next]_vars => [Early]_vars
  <2>. SUFFICES ASSUME IInv, Next, Active, ~Active', status' = "NO_RESPONSE"
                PROVE  now >= deadline
    BY DEF vars
  <2>1. CASE ReadExactly
    BY <2>1 DEF ReadExactly, Active, IInv, TypeOK
  <2>2. CASE UartReadLoop
    BY <2>2 DEF UartReadLoop, Active, IInv, TypeOK, ClockInv
  <2>3. CASE PollTimeout
    BY <2>3 DEF PollTimeout, IInv, TypeOK, ClockInv
  <2>4. ASSUME NEW k \in 1 .. MaxRx, ReadBytes(k) PROVE FALSE
    BY <2>4 DEF ReadBytes, SofRead, LenRead, BodyRead, NextRead, Return, Active
  <2>5. CASE PollFails \/ PollHangup \/ ReadFails \/ ReadNothing
    BY <2>5 DEF PollFails, PollHangup, ReadFails, ReadNothing, Return
  <2>. QED
    BY <2>1, <2>2, <2>3, <2>4, <2>5
       DEF Next, Run, Active, ReceiveResponse, UartRead, PollCall, PollReady,
           PollInterrupted, ReadInterrupted, Arrive, Drain, Disconnect, Tick
<1>2. NeverEarly <=> [][Early]_vars
  BY DEF NeverEarly
<1>. QED  BY <1>1, <1>2, Invariance, PTL DEF Spec

-----------------------------------------------------------------------------
(* No time of a call outgrows its type.                                    *)

(* Inductive together with IInv: some timeout of the caller's reaches from *)
(* a moment that is past to each deadline of the running call.             *)
Spans(t) ==
    /\ deadline - t <= now
    /\ pc \in {"uart_read", "poll"} => left <= t
    /\ pc \in {"loop", "poll", "wait", "read"} => udeadline - t <= now

SpanInv == Active => \E t \in Timeouts : Spans(t)

LEMMA SpansStep ==
    ASSUME IInv, Active, Active', NEW t \in Timeouts, Spans(t), [Next]_vars
    PROVE  Spans(t)'
<1>. USE TransportAssumption
<1>. USE DEF buffer, budget, result, Active, Spans
<1>0. /\ t \in Int /\ now \in Int /\ deadline \in Int /\ udeadline \in Int
      /\ left \in Int
  BY DEF IInv, TypeOK
<1>1. CASE ReadExactly
  BY <1>0, <1>1 DEF ReadExactly, Return, Ran
<1>2. CASE UartRead
  BY <1>0, <1>2 DEF UartRead, Ran
<1>3. CASE UartReadLoop
  BY <1>0, <1>3 DEF UartReadLoop, Return, Ran
<1>4. CASE PollCall \/ PollReady \/ PollInterrupted \/ ReadInterrupted
  BY <1>0, <1>4 DEF PollCall, PollReady, PollInterrupted, ReadInterrupted, Ran
<1>5. ASSUME NEW k \in 1 .. MaxRx, ReadBytes(k) PROVE Spans(t)'
  BY <1>0, <1>5 DEF ReadBytes, SofRead, LenRead, BodyRead, NextRead, Return, Ran
<1>6. ASSUME PollTimeout \/ PollFails \/ PollHangup \/ ReadFails \/ ReadNothing
      PROVE  FALSE
  BY <1>6 DEF PollTimeout, PollFails, PollHangup, ReadFails, ReadNothing, Return
<1>7. CASE Tick
  BY <1>0, <1>7 DEF Tick
<1>8. ASSUME \/ \E b \in Byte : Arrive(b)
             \/ Drain \/ Disconnect \/ UNCHANGED vars
      PROVE  Spans(t)'
  BY <1>8 DEF Arrive, Drain, Disconnect, vars, clock
<1>9. ASSUME NEW u \in Timeouts, ReceiveResponse(u) PROVE FALSE
  BY <1>9 DEF ReceiveResponse
<1>. QED
  BY <1>1, <1>2, <1>3, <1>4, <1>5, <1>6, <1>7, <1>8, <1>9 DEF Next, Run

(* A call begins with its timeout ahead of it.                             *)
LEMMA SpansStart ==
    ASSUME IInv, ~Active, Active', [Next]_vars
    PROVE  \E t \in Timeouts : Spans(t)'
<1>. USE TransportAssumption
<1>1. PICK t \in Timeouts : ReceiveResponse(t)
  BY DEF Next, Run, Active, vars, ReadExactly, UartRead, UartReadLoop, PollCall,
         PollReady, PollTimeout, ReadBytes, ReadNothing, PollInterrupted,
         PollFails, PollHangup, ReadInterrupted, ReadFails, Arrive, Drain,
         Disconnect, Tick
<1>2. Spans(t)'
  BY <1>1 DEF ReceiveResponse, Spans, Ran, IInv, TypeOK
<1>. QED  BY <1>2

(* The timeouts handed to uart_read and poll are positive and no longer    *)
(* than the caller's, and no deadline lies more than a delay beyond it.    *)
THEOREM NothingOverflows == Spec => []TimesFit
<1>1. Init => SpanInv
  BY DEF Init, SpanInv, Active
<1>2. IInv /\ SpanInv /\ [Next]_vars => SpanInv'
  BY SpansStep, SpansStart DEF SpanInv
<1>3. IInv /\ SpanInv => TimesFit
  BY TransportAssumption DEF IInv, TypeOK, ClockInv, SpanInv, Spans, TimesFit, Active
<1>. QED  BY <1>1, <1>2, <1>3, Invariance, PTL DEF Spec

-----------------------------------------------------------------------------
(* CommandTransport implements ResponseReader.                             *)

\* The refinement mapping, as defined by the substitution of Reader.
Phase == IF Active THEN stage ELSE "idle"
Prefix == IF Active /\ stage # "sof"
            THEN [i \in 1 .. Offset(stage) + got |-> frame[i - 1]]
            ELSE <<>>

(* Steps that touch neither the queue nor the buffer are stutters.         *)
LEMMA Stutter ==
    ASSUME Active, Active', UNCHANGED <<rx, stage, frame, got, status, response>>
    PROVE  UNCHANGED Reader!vars
BY DEF Reader!vars, Active, Offset

(* A call that fails without taking bytes gives up.                        *)
LEMMA GivingUp ==
    ASSUME Active, UNCHANGED rx, NEW s \in {"NO_RESPONSE", "ERR_IO"},
           Return(s, <<>>), IInv
    PROVE  Reader!Next
<1>1. Reader!GiveUp(s)
  BY DEF Reader!GiveUp, Reader!Return, Return, Active, IInv, TypeOK
<1>. QED  BY <1>1 DEF Reader!Next, Reader!Step

(* A one-byte read takes the head of the queue and puts it where its stage *)
(* says.                                                                   *)
LEMMA OneByte ==
    ASSUME IInv, stage # "body", NEW k \in 1 .. MaxRx, ReadBytes(k)
    PROVE  /\ k = 1 /\ got = 0 /\ got + k = want
           /\ rx # <<>>
           /\ Head(rx) \in Byte
           /\ rx' = Tail(rx)
           /\ Filled(k)[Offset(stage)] = Head(rx)
           /\ stage = "len" => Filled(k)[0] = frame[0]
<1>. USE Constants, TransportAssumption
<1>1. want = 1 /\ got = 0 /\ k = 1
  BY DEF IInv, TypeOK, InBounds, BufferInv, ReadBytes
<1>2. rx \in Seq(Byte) /\ Len(rx) \in Nat /\ 1 <= Len(rx)
  BY <1>1, LenProperties DEF ReadBytes, IInv, TypeOK
<1>3. rx # <<>> /\ Head(rx) = rx[1] /\ Head(rx) \in Byte
  BY <1>2
<1>4. rx' = Tail(rx)
  BY <1>1, <1>2, <1>3 DEF ReadBytes
<1>5. Offset(stage) \in {0, 1} /\ (stage = "len" => Offset(stage) = 1)
  BY DEF Offset, IInv, TypeOK
<1>6. Filled(k)[Offset(stage)] = rx[1]
  <2>1. Offset(stage) \in Index
    BY <1>5
  <2>2. Offset(stage) - Offset(stage) - got + 1 = 1
    BY <1>1, <1>5
  <2>. QED  BY <1>1, <2>1, <2>2 DEF Filled
<1>7. ASSUME stage = "len" PROVE Filled(k)[0] = frame[0]
  BY <1>1, <1>5, <1>7 DEF Filled
<1>. QED  BY <1>1, <1>3, <1>4, <1>6, <1>7

(* The read for SOF is a turn of the scan.                                 *)
LEMMA ScanStep ==
    ASSUME IInv, stage = "sof", NEW k \in 1 .. MaxRx, ReadBytes(k)
    PROVE  Reader!Next
<1>1. /\ k = 1 /\ got = 0 /\ got + k = want
      /\ rx # <<>> /\ Head(rx) \in Byte /\ rx' = Tail(rx)
      /\ Filled(k)[0] = Head(rx)
  BY OneByte DEF Offset
<1>2. pc = "read" /\ SofRead(Filled(k))
  BY <1>1 DEF ReadBytes, LenRead, BodyRead
<1>3. /\ pc' = "read_exactly" /\ frame' = Filled(k) /\ got' = 0
      /\ stage' = IF Head(rx) = PROTOCOL_SOF THEN "len" ELSE "sof"
      /\ UNCHANGED <<status, response>>
  BY <1>1, <1>2 DEF SofRead, NextRead, result
<1>4. Reader!TakeSof
  <2>1. CASE Head(rx) = PROTOCOL_SOF
    <3>1. Prefix' = <<Head(rx)>>
      <4>1. Prefix' = [i \in 1 .. 1 |-> Filled(k)[i - 1]]
        BY <1>3, <2>1 DEF Prefix, Active, Offset
      <4>. QED  BY <4>1, <1>1
    <3>. QED
      BY <1>1, <1>2, <1>3, <2>1, <3>1
         DEF Reader!TakeSof, Reader!PROTOCOL_SOF, PROTOCOL_SOF, Active, Prefix
  <2>2. CASE Head(rx) # PROTOCOL_SOF
    BY <1>1, <1>2, <1>3, <2>2
       DEF Reader!TakeSof, Reader!PROTOCOL_SOF, PROTOCOL_SOF, Active
  <2>. QED  BY <2>1, <2>2
<1>. QED  BY <1>4 DEF Reader!Next, Reader!Step

(* The read for LEN goes on with the frame or rejects it.                  *)
LEMMA LengthStep ==
    ASSUME IInv, stage = "len", NEW k \in 1 .. MaxRx, ReadBytes(k)
    PROVE  Reader!Next
<1>. USE DEF PROTOCOL_MAX_RESPONSE_LEN, PROTOCOL_MIN_RESPONSE_LEN,
             Reader!PROTOCOL_MAX_RESPONSE_LEN, Reader!PROTOCOL_MIN_RESPONSE_LEN
<1>1. /\ k = 1 /\ got = 0 /\ got + k = want
      /\ rx # <<>> /\ Head(rx) \in Byte /\ rx' = Tail(rx)
      /\ Filled(k)[1] = Head(rx) /\ Filled(k)[0] = frame[0]
  BY OneByte DEF Offset
<1>2. pc = "read" /\ LenRead(Filled(k))
  BY <1>1 DEF ReadBytes, SofRead, BodyRead
<1>3. Prefix = <<frame[0]>>
  <2>1. Prefix = [i \in 1 .. 1 |-> frame[i - 1]]
    BY <1>1, <1>2 DEF Prefix, Active, Offset
  <2>. QED  BY <2>1
<1>4. CASE LengthOk(Head(rx))
  <2>1. /\ pc' = "read_exactly" /\ stage' = "body" /\ frame' = Filled(k)
        /\ got' = 0 /\ UNCHANGED <<status, response>>
    BY <1>1, <1>2, <1>4 DEF LenRead, NextRead, result
  <2>2. Prefix' = <<frame[0], Head(rx)>>
    <3>1. Prefix' = [i \in 1 .. 2 |-> Filled(k)[i - 1]]
      BY <2>1 DEF Prefix, Active, Offset
    <3>. QED  BY <3>1, <1>1
  <2>3. Prefix' = Append(Prefix, Head(rx))
    BY <1>3, <2>2
  <2>4. Reader!TakeLen
    BY <1>1, <1>2, <1>4, <2>1, <2>3
       DEF Reader!TakeLen, Reader!LengthOk, LengthOk, Active, Prefix
  <2>. QED  BY <2>4 DEF Reader!Next, Reader!Step
<1>5. CASE ~LengthOk(Head(rx))
  <2>1. Return("BAD_FRAME", <<>>)
    BY <1>1, <1>2, <1>5 DEF LenRead
  <2>2. Reader!TakeLen
    BY <1>1, <1>2, <1>5, <2>1
       DEF Reader!TakeLen, Reader!LengthOk, LengthOk, Active, Return, Reader!Return
  <2>. QED  BY <2>2 DEF Reader!Next, Reader!Step
<1>. QED  BY <1>4, <1>5

(* A read for the body appends what it delivers; the last one hands the    *)
(* whole frame to the parser.                                              *)
LEMMA BodyStep ==
    ASSUME IInv, stage = "body", NEW k \in 1 .. MaxRx, ReadBytes(k)
    PROVE  Reader!Next
<1>. USE Constants, TransportAssumption
<1>. DEFINE f == Filled(k)
            n == frame[1]
            p == SubSeq(rx, 1, k)
            whole == [i \in 1 .. 2 + got + k |-> f[i - 1]]
<1>1. /\ pc = "read" /\ got \in Nat /\ k \in Nat /\ k >= 1
      /\ Len(rx) \in Nat /\ k <= Len(rx) /\ rx \in Seq(Byte)
      /\ n \in 1 .. MaxData + 1 /\ want = n + 2 /\ got + k <= n + 2
  BY LenProperties DEF ReadBytes, IInv, TypeOK, InBounds, BufferInv, LengthOk,
                       PROTOCOL_MIN_RESPONSE_LEN
<1>2. \A i \in Index : f[i] = IF i - 2 - got + 1 \in 1 .. k
                                THEN rx[i - 2 - got + 1] ELSE frame[i]
  BY DEF Filled, Offset
<1>3. f[1] = n
  BY FilledType, <1>1
<1>4. Prefix = [i \in 1 .. 2 + got |-> frame[i - 1]]
  BY <1>1 DEF Prefix, Active, Offset
<1>5. p \in Seq(Byte) /\ Len(p) = k /\ \A i \in 1 .. k : p[i] = rx[i]
  BY <1>1, SubSeqProperties
<1>6. Prefix \in Seq(Octet) /\ Len(Prefix) = 2 + got
  <2>1. \A i \in 1 .. 2 + got : frame[i - 1] \in Octet
    <3>1. \A i \in 1 .. 2 + got : i - 1 \in Index
      <4>. HIDE DEF n
      <4>. QED  BY <1>1
    <3>. QED  BY <3>1 DEF IInv, TypeOK
  <2>2. Prefix \in [1 .. 2 + got -> Octet]
    BY <1>4, <2>1
  <2>3. 2 + got \in Nat
    BY <1>1
  <2>4. Prefix \in Seq(Octet)
    BY <2>2, <2>3, SeqDef
  <2>. QED  BY <2>2, <2>3, <2>4, LenProperties
<1>7. whole = Prefix \o p
  <2>1. p \in Seq(Octet)
    BY <1>5, SeqMonotonic
  <2>2. /\ Prefix \o p \in Seq(Octet)
        /\ Len(Prefix \o p) = 2 + got + k
        /\ \A i \in 1 .. 2 + got + k :
              (Prefix \o p)[i] = IF i <= 2 + got THEN Prefix[i]
                                                  ELSE p[i - (2 + got)]
    <3>. HIDE DEF p
    <3>1. /\ Prefix \o p \in Seq(Octet)
          /\ Len(Prefix \o p) = Len(Prefix) + Len(p)
          /\ \A i \in 1 .. Len(Prefix) + Len(p) :
                (Prefix \o p)[i] = IF i <= Len(Prefix) THEN Prefix[i]
                                                      ELSE p[i - Len(Prefix)]
      BY <1>6, <2>1, ConcatProperties, Zenon
    <3>2. Len(Prefix) = 2 + got /\ Len(p) = k
      BY <1>5, <1>6
    <3>. QED  BY <3>1, <3>2
  <2>3. \A i \in 1 .. 2 + got + k : f[i - 1] = (Prefix \o p)[i]
    <3>. SUFFICES ASSUME NEW i \in 1 .. 2 + got + k
                  PROVE  f[i - 1] = (Prefix \o p)[i]
      OBVIOUS
    <3>. HIDE DEF f, p, n
    <3>0. i - 1 \in Index
      BY <1>1
    <3>1. CASE i <= 2 + got
      <4>1. ~(i - 1 - 2 - got + 1 \in 1 .. k)
        BY <1>1, <3>1
      <4>2. i \in 1 .. 2 + got
        BY <1>1, <3>1
      <4>. QED  BY <1>2, <1>4, <2>2, <3>0, <3>1, <4>1, <4>2
    <3>2. CASE ~(i <= 2 + got)
      <4>1. i - 1 - 2 - got + 1 = i - (2 + got) /\ i - (2 + got) \in 1 .. k
        BY <1>1, <3>2
      <4>2. f[i - 1] = rx[i - (2 + got)]
        BY <1>2, <3>0, <4>1
      <4>3. (Prefix \o p)[i] = p[i - (2 + got)]
        BY <2>2, <3>2
      <4>. QED  BY <1>5, <4>1, <4>2, <4>3
    <3>. QED  BY <3>1, <3>2
  <2>4. DOMAIN (Prefix \o p) = 1 .. 2 + got + k
    BY <2>2, LenProperties
  <2>5. Prefix \o p = [i \in 1 .. 2 + got + k |-> (Prefix \o p)[i]]
    <3>. DEFINE c == Prefix \o p
    <3>1. c \in [1 .. 2 + got + k -> Octet]
      BY <2>2, <2>4, LenProperties, ElementOfSeq
    <3>. HIDE DEF c
    <3>2. c = [i \in 1 .. 2 + got + k |-> c[i]]
      BY <3>1
    <3>. QED  BY <3>2 DEF c
  <2>. HIDE DEF f, p
  <2>. QED  BY <2>3, <2>5
<1>8. Reader!Remaining = n + 2 - got
  <2>1. Prefix[2] = n
    <3>1. 2 \in 1 .. 2 + got
      BY <1>1
    <3>. QED  BY <1>4, <3>1
  <2>2. n \in Byte
    <3>1. 1 \in Index
      OBVIOUS
    <3>2. n \in Octet
      BY <3>1 DEF IInv, TypeOK
    <3>3. n # 0
      BY <1>1
    <3>. QED  BY <3>2, <3>3 DEF Octet
  <2>3. Reader!Remaining = 4 + [b \in Byte |-> b][Prefix[2]] - Len(Prefix)
    BY DEF Reader!Remaining, Reader!PROTOCOL_RESPONSE_OVERHEAD, Prefix
  <2>4. [b \in Byte |-> b][Prefix[2]] = n
    BY <2>1, <2>2
  <2>5. Reader!Remaining = 4 + n - Len(Prefix)
    BY <2>3, <2>4
  <2>6. 4 + n - (2 + got) = n + 2 - got
    <3>1. n \in Nat /\ got \in Nat
      BY <1>1
    <3>. HIDE DEF n
    <3>. QED  BY <3>1
  <2>. QED  BY <1>6, <2>5, <2>6
<1>9. rx' = SubSeq(rx, k + 1, Len(rx)) /\ k <= Reader!Remaining
  <2>1. k <= n + 2 - got
    <3>1. n \in Nat /\ got \in Nat /\ got + k <= n + 2
      BY <1>1
    <3>. HIDE DEF n
    <3>. QED  BY <1>1, <3>1
  <2>. QED  BY <1>8, <2>1 DEF ReadBytes
<1>10. CASE got + k < want
  <2>1. /\ got' = got + k /\ frame' = f /\ pc' = "loop"
        /\ UNCHANGED <<stage, status, response>>
    <3>1. want \in Nat
      BY DEF IInv, TypeOK
    <3>2. got + k # want
      BY <1>1, <1>10, <3>1
    <3>. QED  BY <3>2 DEF ReadBytes, result
  <2>2. Prefix' = whole
    <3>1. 2 + (got + k) = 2 + got + k
      BY <1>1
    <3>. QED  BY <2>1, <3>1 DEF Prefix, Active, Offset
  <2>3. k < Reader!Remaining
    BY <1>1, <1>8, <1>10
  <2>4. Reader!TakeBody(k)
    <3>. HIDE DEF f, p, whole
    <3>. QED
      BY <1>1, <1>7, <1>9, <2>1, <2>2, <2>3 DEF Reader!TakeBody, Active, Prefix, p
  <2>5. k \in 1 .. Len(rx)
    BY <1>1
  <2>. QED  BY <2>4, <2>5 DEF Reader!Next, Reader!Step
<1>11. CASE got + k = want
  <2>1. BodyRead(f)
    BY <1>1, <1>11 DEF ReadBytes, SofRead, LenRead
  <2>2. whole = [i \in 1 .. PROTOCOL_RESPONSE_OVERHEAD + f[1] |-> f[i - 1]]
    <3>1. 2 + got + k = PROTOCOL_RESPONSE_OVERHEAD + f[1]
      <4>1. n \in Nat /\ got + k = n + 2
        BY <1>1, <1>11
      <4>. HIDE DEF f, n
      <4>. QED  BY <1>1, <1>3, <4>1 DEF PROTOCOL_RESPONSE_OVERHEAD
    <3>. QED  BY <3>1
  <2>3. IF whole \in Intact THEN Return("OK", whole) ELSE Return("BAD_FRAME", <<>>)
    BY <2>1, <2>2 DEF BodyRead
  <2>4. ~(k < Reader!Remaining)
    BY <1>1, <1>8, <1>11
  <2>5. Reader!TakeBody(k)
    <3>. HIDE DEF f, p, whole
    <3>. QED
      BY <1>1, <1>7, <1>9, <2>3, <2>4
         DEF Reader!TakeBody, Reader!Return, Reader!ParseResponse, Return, Active,
             Prefix, p
  <2>6. k \in 1 .. Len(rx)
    BY <1>1
  <2>. QED  BY <2>5, <2>6 DEF Reader!Next, Reader!Step
<1>. QED  BY <1>10, <1>11 DEF ReadBytes

(* Every step of the transport is a step of the reader or a stutter.       *)
LEMMA StepRefines == IInv /\ [Next]_vars => [Reader!Next]_(Reader!vars)
<1>. SUFFICES ASSUME IInv, [Next]_vars PROVE Reader!Next \/ UNCHANGED Reader!vars
  OBVIOUS
<1>. USE DEF buffer, budget, result
<1>1. ASSUME NEW t \in Timeouts, ReceiveResponse(t)
      PROVE  Reader!Next
  <2>1. Reader!Start
    BY <1>1 DEF ReceiveResponse, Reader!Start, Active, IInv, BufferInv
  <2>. QED  BY <2>1 DEF Reader!Next
<1>2. CASE ReadExactly
  <2>1. CASE deadline - now <= 0
    BY <1>2, <2>1, GivingUp DEF ReadExactly, Active
  <2>2. CASE ~(deadline - now <= 0)
    BY <1>2, <2>2, Stutter DEF ReadExactly, Active
  <2>. QED  BY <2>1, <2>2
<1>3. CASE UartRead
  BY <1>3, Stutter DEF UartRead, Active, IInv, BufferInv
<1>4. CASE UartReadLoop
  <2>1. CASE udeadline - now <= 0
    BY <1>4, <2>1, GivingUp DEF UartReadLoop, Active
  <2>2. CASE ~(udeadline - now <= 0)
    BY <1>4, <2>2, Stutter DEF UartReadLoop, Active
  <2>. QED  BY <2>1, <2>2
<1>5. CASE PollCall
  BY <1>5, Stutter DEF PollCall, Active
<1>6. CASE PollReady \/ PollInterrupted \/ ReadInterrupted
  BY <1>6, Stutter DEF PollReady, PollInterrupted, ReadInterrupted, Active
<1>7. CASE PollTimeout \/ PollFails \/ PollHangup \/ ReadFails \/ ReadNothing
  BY <1>7, GivingUp
     DEF PollTimeout, PollFails, PollHangup, ReadFails, ReadNothing, Active
<1>8. ASSUME NEW k \in 1 .. MaxRx, ReadBytes(k)
      PROVE  Reader!Next
  BY <1>8, ScanStep, LengthStep, BodyStep DEF IInv, TypeOK
<1>9. ASSUME NEW b \in Byte, Arrive(b)
      PROVE  Reader!Next
  <2>1. Reader!Arrive(b)
    BY <1>9 DEF Arrive, Reader!Arrive, Active, Offset
  <2>. QED  BY <2>1 DEF Reader!Next
<1>10. CASE Drain
  <2>1. Reader!Drain
    BY <1>10 DEF Drain, Reader!Drain, Active, Offset
  <2>. QED  BY <2>1 DEF Reader!Next
<1>11. CASE Disconnect \/ Tick \/ UNCHANGED vars
  BY <1>11 DEF Disconnect, Tick, vars, line, Reader!vars, Active, Offset
<1>. QED
  BY <1>1, <1>2, <1>3, <1>4, <1>5, <1>6, <1>7, <1>8, <1>9, <1>10, <1>11
     DEF Next, Run

(* receive_response with its three deadlines, interrupted system calls and *)
(* reads in pieces takes bytes and accepts frames exactly as the untimed   *)
(* reader may.                                                             *)
THEOREM Refinement == Spec => ReaderSpec
<1>1. Init => Reader!Init
  BY DEF Init, Reader!Init, Active
<1>. QED
  BY <1>1, StepRefines, Invariance, PTL DEF Spec, ReaderSpec, Reader!Spec

=============================================================================
