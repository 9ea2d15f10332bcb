---------------------------- MODULE Mcuco_proofs ----------------------------
(***************************************************************************)
(* Proofs about Mcuco and McucoEffects, for every set of commands, reply   *)
(* width, number of commands and number of faults.                         *)
(***************************************************************************)
EXTENDS McucoEffects, SequenceTheorems, TLAPS

Command == [id : 1 .. MaxCmds, op : Op]

TypeOK ==
    /\ host \in {"closed", "opening", "open"}
    /\ call \in Op \cup {"none"}
    /\ sent \in 0 .. MaxCmds
    /\ cmds \in Seq(Command)
    /\ line \in Seq(Token)
    /\ faults \in Nat
    /\ rx \in Seq(Token)
    /\ phase \in {"idle", "sof", "len", "body"}
    /\ frame \in Seq(Token)
    /\ status \in {"OK", "NO_RESPONSE", "ERR_IO", "BAD_FRAME"}
    /\ response \in Seq(Token)
    /\ lastId \in Nat
    /\ debt \in Nat

Elems(s) == {s[i] : i \in DOMAIN s}

\* The order in which the firmware puts bytes on the line.
Before(x, y) == x.id < y.id \/ (x.id = y.id /\ ~x.last)
Precedes(s, t) == \A x \in Elems(s), y \in Elems(t) : Before(x, y)
Sorted(s) == \A i, j \in DOMAIN s : i < j => Before(s[i], s[j])

Flying == Elems(frame) \cup Elems(rx) \cup Elems(line)

\* Commands that may still be answered, or whose answer may still be read.
Pending == {x.id : x \in Flying} \cup {c.id : c \in Elems(cmds)}

\* Where the host is.
Control ==
    /\ call = "none" => phase = "idle"
    /\ phase \in {"idle", "sof"} => frame = <<>>
    /\ host = "closed" => call = "none"

\* Bytes are read in the order of their commands, and the firmware answers
\* commands in order.
Ordered ==
    /\ Sorted(frame) /\ Sorted(rx) /\ Sorted(line)
    /\ Precedes(frame, rx) /\ Precedes(frame, line) /\ Precedes(rx, line)
    /\ \A x \in Flying, c \in Elems(cmds) : x.id < c.id
    /\ \A i, j \in DOMAIN cmds : i < j => cmds[i].id < cmds[j].id

\* Nothing pending was accepted before.
Fresh ==
    /\ lastId <= sent
    /\ \A i \in Pending : lastId < i /\ i <= sent

\* How far back the oldest pending answer can lie.
Recent ==
    host # "closed" =>
        \A i \in Pending : IF call = "none" THEN sent < i + debt
                                            ELSE sent <= i + debt

\* An accepted reply leaves only later ones.
Taken ==
    Accepted =>
        /\ response # <<>>
        /\ lastId < AcceptedId /\ AcceptedId <= sent
        /\ sent <= AcceptedId + debt
        /\ \A i \in Pending : AcceptedId < i

McInv == TypeOK /\ Control /\ Ordered /\ Fresh /\ Recent /\ Taken

-----------------------------------------------------------------------------
(* Sequences of bytes.                                                     *)

(* A sequence cut in two.                                                  *)
LEMMA Cut ==
    ASSUME NEW T, NEW s \in Seq(T), NEW k \in 0 .. Len(s)
    PROVE  /\ SubSeq(s, 1, k) \in Seq(T)
           /\ Len(SubSeq(s, 1, k)) = k
           /\ \A i \in 1 .. k : SubSeq(s, 1, k)[i] = s[i]
           /\ SubSeq(s, k + 1, Len(s)) \in Seq(T)
           /\ Len(SubSeq(s, k + 1, Len(s))) = Len(s) - k
           /\ \A i \in 1 .. Len(s) - k : SubSeq(s, k + 1, Len(s))[i] = s[i + k]
<1>1. Len(s) \in Nat /\ k \in Nat /\ k <= Len(s)
  BY LenProperties
<1>2. 1 .. Len(s) \subseteq Nat
  BY <1>1
<1>3. /\ SubSeq(s, 1, k) \in Seq(T)
      /\ Len(SubSeq(s, 1, k)) = k
      /\ \A i \in 1 .. k : SubSeq(s, 1, k)[i] = s[i]
  BY <1>1, SubSeqProperties
<1>4. /\ SubSeq(s, k + 1, Len(s)) \in Seq(T)
      /\ Len(SubSeq(s, k + 1, Len(s))) = Len(s) - k
      /\ \A i \in 1 .. Len(s) - k : SubSeq(s, k + 1, Len(s))[i] = s[i + k]
  BY <1>1, SubSeqProperties
<1>. QED  BY <1>3, <1>4

LEMMA CutElems ==
    ASSUME NEW T, NEW s \in Seq(T), NEW k \in 0 .. Len(s)
    PROVE  /\ Elems(SubSeq(s, 1, k)) \subseteq Elems(s)
           /\ Elems(SubSeq(s, k + 1, Len(s))) \subseteq Elems(s)
<1>. DEFINE p == SubSeq(s, 1, k)
            q == SubSeq(s, k + 1, Len(s))
<1>1. Len(s) \in Nat /\ DOMAIN s = 1 .. Len(s)
  BY LenProperties
<1>2. /\ DOMAIN p = 1 .. k /\ \A i \in 1 .. k : p[i] = s[i]
      /\ DOMAIN q = 1 .. Len(s) - k
      /\ \A i \in 1 .. Len(s) - k : q[i] = s[i + k]
  BY Cut, LenProperties
<1>. HIDE DEF p, q
<1>3. \A i \in 1 .. k : i \in 1 .. Len(s)
  BY <1>1
<1>4. \A i \in 1 .. Len(s) - k : i + k \in 1 .. Len(s)
  BY <1>1
<1>5. Elems(p) \subseteq Elems(s)
  BY <1>1, <1>2, <1>3 DEF Elems
<1>6. Elems(q) \subseteq Elems(s)
  BY <1>1, <1>2, <1>4 DEF Elems
<1>. QED  BY <1>5, <1>6 DEF p, q

LEMMA CutSorted ==
    ASSUME NEW T, NEW s \in Seq(T), NEW k \in 0 .. Len(s), Sorted(s)
    PROVE  /\ Sorted(SubSeq(s, 1, k))
           /\ Sorted(SubSeq(s, k + 1, Len(s)))
           /\ Precedes(SubSeq(s, 1, k), SubSeq(s, k + 1, Len(s)))
<1>. DEFINE p == SubSeq(s, 1, k)
            q == SubSeq(s, k + 1, Len(s))
<1>1. Len(s) \in Nat /\ DOMAIN s = 1 .. Len(s)
  BY LenProperties
<1>2. /\ DOMAIN p = 1 .. k /\ \A i \in 1 .. k : p[i] = s[i]
      /\ DOMAIN q = 1 .. Len(s) - k
      /\ \A i \in 1 .. Len(s) - k : q[i] = s[i + k]
  BY Cut, LenProperties
<1>. HIDE DEF p, q
<1>3. Sorted(p)
  BY <1>1, <1>2 DEF Sorted
<1>4. Sorted(q)
  <2>. SUFFICES ASSUME NEW i \in 1 .. Len(s) - k, NEW j \in 1 .. Len(s) - k, i < j
                PROVE  Before(q[i], q[j])
    BY <1>2 DEF Sorted
  <2>1. i + k \in 1 .. Len(s) /\ j + k \in 1 .. Len(s) /\ i + k < j + k
    BY <1>1
  <2>. QED  BY <1>1, <1>2, <2>1 DEF Sorted
<1>5. Precedes(p, q)
  <2>. SUFFICES ASSUME NEW i \in 1 .. k, NEW j \in 1 .. Len(s) - k
                PROVE  Before(p[i], q[j])
    BY <1>2 DEF Precedes, Elems
  <2>1. i \in 1 .. Len(s) /\ j + k \in 1 .. Len(s) /\ i < j + k
    BY <1>1
  <2>. QED  BY <1>1, <1>2, <2>1 DEF Sorted
<1>. QED  BY <1>3, <1>4, <1>5 DEF p, q

(* Two sequences put together.                                             *)
LEMMA Join ==
    ASSUME NEW T, NEW s \in Seq(T), NEW t \in Seq(T)
    PROVE  /\ s \o t \in Seq(T)
           /\ Elems(s \o t) = Elems(s) \cup Elems(t)
           /\ Sorted(s) /\ Sorted(t) /\ Precedes(s, t) => Sorted(s \o t)
<1>. DEFINE c == s \o t
            m == Len(s)
            n == Len(t)
<1>1. /\ m \in Nat /\ DOMAIN s = 1 .. m /\ n \in Nat /\ DOMAIN t = 1 .. n
  BY LenProperties
<1>2. /\ c \in Seq(T) /\ Len(c) = m + n
      /\ \A i \in 1 .. m + n : c[i] = IF i <= m THEN s[i] ELSE t[i - m]
  BY ConcatProperties
<1>3. DOMAIN c = 1 .. m + n
  BY <1>2, LenProperties
<1>. HIDE DEF c, m, n
<1>4. Elems(c) \subseteq Elems(s) \cup Elems(t)
  <2>. SUFFICES ASSUME NEW i \in 1 .. m + n
                PROVE  c[i] \in Elems(s) \cup Elems(t)
    BY <1>3 DEF Elems
  <2>1. CASE i <= m
    <3>1. i \in 1 .. m
      BY <1>1, <2>1
    <3>. QED  BY <1>1, <1>2, <2>1, <3>1 DEF Elems
  <2>2. CASE ~(i <= m)
    <3>1. i - m \in 1 .. n
      BY <1>1, <2>2
    <3>. QED  BY <1>1, <1>2, <2>2, <3>1 DEF Elems
  <2>. QED  BY <2>1, <2>2
<1>5. Elems(s) \subseteq Elems(c)
  <2>. SUFFICES ASSUME NEW i \in 1 .. m PROVE s[i] \in Elems(c)
    BY <1>1 DEF Elems
  <2>1. i \in 1 .. m + n /\ i <= m
    BY <1>1
  <2>2. c[i] = s[i]
    BY <1>2, <2>1
  <2>. QED  BY <1>3, <2>1, <2>2 DEF Elems
<1>6. Elems(t) \subseteq Elems(c)
  <2>. SUFFICES ASSUME NEW i \in 1 .. n PROVE t[i] \in Elems(c)
    BY <1>1 DEF Elems
  <2>1. i + m \in 1 .. m + n /\ ~(i + m <= m) /\ (i + m) - m = i
    BY <1>1
  <2>2. c[i + m] = t[i]
    BY <1>2, <2>1
  <2>. QED  BY <1>3, <2>1, <2>2 DEF Elems
<1>7. ASSUME Sorted(s), Sorted(t), Precedes(s, t)
      PROVE  Sorted(c)
  <2>. SUFFICES ASSUME NEW i \in 1 .. m + n, NEW j \in 1 .. m + n, i < j
                PROVE  Before(c[i], c[j])
    BY <1>3 DEF Sorted
  <2>1. CASE j <= m
    <3>1. i \in 1 .. m /\ j \in 1 .. m /\ i <= m
      BY <1>1, <2>1
    <3>2. c[i] = s[i] /\ c[j] = s[j]
      BY <1>2, <2>1, <3>1
    <3>. QED  BY <1>1, <1>7, <3>1, <3>2 DEF Sorted
  <2>2. CASE i <= m /\ ~(j <= m)
    <3>1. i \in 1 .. m /\ j - m \in 1 .. n
      BY <1>1, <2>2
    <3>2. c[i] = s[i] /\ c[j] = t[j - m]
      BY <1>2, <2>2
    <3>. QED  BY <1>1, <1>7, <3>1, <3>2 DEF Precedes, Elems
  <2>3. CASE ~(i <= m)
    <3>1. i - m \in 1 .. n /\ j - m \in 1 .. n /\ i - m < j - m /\ ~(j <= m)
      BY <1>1, <2>3
    <3>2. c[i] = t[i - m] /\ c[j] = t[j - m]
      BY <1>2, <2>3, <3>1
    <3>. QED  BY <1>1, <1>7, <3>1, <3>2 DEF Sorted
  <2>. QED  BY <1>1, <2>1, <2>2, <2>3
<1>. QED  BY <1>2, <1>4, <1>5, <1>6, <1>7 DEF c

(* The head and the rest, as a cut.                                        *)
LEMMA HeadTail ==
    ASSUME NEW T, NEW s \in Seq(T), s # <<>>
    PROVE  /\ 1 \in 0 .. Len(s)
           /\ Head(s) \in T /\ Head(s) = s[1] /\ Head(s) \in Elems(s)
           /\ SubSeq(s, 1, 1) = <<Head(s)>>
           /\ Tail(s) = SubSeq(s, 1 + 1, Len(s))
<1>1. Len(s) \in Nat /\ Len(s) >= 1 /\ DOMAIN s = 1 .. Len(s)
  BY LenProperties
<1>2. Head(s) \in T /\ Head(s) = s[1]
  BY <1>1
<1>3. Head(s) \in Elems(s)
  <2>1. 1 \in DOMAIN s
    BY <1>1
  <2>. QED  BY <1>2, <2>1 DEF Elems
<1>4. SubSeq(s, 1, 1) = <<Head(s)>>
  <2>. DEFINE p == SubSeq(s, 1, 1)
              h == <<Head(s)>>
  <2>1. p \in Seq(T) /\ Len(p) = 1 /\ p[1] = s[1]
    <3>1. 1 \in 0 .. Len(s) /\ 1 \in 1 .. 1
      BY <1>1
    <3>. QED  BY <3>1, Cut
  <2>2. h \in Seq(T) /\ Len(h) = 1 /\ h[1] = s[1]
    BY <1>2
  <2>. HIDE DEF p, h
  <2>3. \A i \in 1 .. Len(p) : p[i] = h[i]
    BY <2>1, <2>2
  <2>4. p = h
    BY <2>1, <2>2, <2>3, SeqEqual
  <2>. QED  BY <2>4 DEF p, h
<1>5. Tail(s) = SubSeq(s, 1 + 1, Len(s))
  BY <1>1
<1>. QED  BY <1>1, <1>2, <1>3, <1>4, <1>5

LEMMA Elements ==
    ASSUME NEW T, NEW s \in Seq(T)
    PROVE  Elems(s) \subseteq T
<1>1. DOMAIN s = 1 .. Len(s)
  BY LenProperties
<1>. QED  BY <1>1, ElementOfSeq DEF Elems

LEMMA Nothing ==
    /\ Elems(<<>>) = {}
    /\ Sorted(<<>>)
    /\ \A s : Precedes(<<>>, s) /\ Precedes(s, <<>>)
BY DEF Elems, Sorted, Precedes

LEMMA Singleton ==
    ASSUME NEW x
    PROVE  Elems(<<x>>) = {x} /\ Sorted(<<x>>)
<1>1. DOMAIN <<x>> = {1} /\ <<x>>[1] = x
  OBVIOUS
<1>. QED  BY <1>1 DEF Elems, Sorted

(* Fewer bytes, in the same order.                                         *)
LEMMA PrecedesMono ==
    ASSUME NEW s, NEW t, NEW u, NEW v, Precedes(s, t),
           Elems(u) \subseteq Elems(s), Elems(v) \subseteq Elems(t)
    PROVE  Precedes(u, v)
BY DEF Precedes

-----------------------------------------------------------------------------
(* The invariant.                                                          *)

LEMMA Ids ==
    ASSUME TypeOK
    PROVE  /\ \A x \in Flying : x \in Token
           /\ \A c \in Elems(cmds) : c \in Command
           /\ \A i \in Pending : i \in 1 .. MaxCmds
           /\ MaxCmds \in Nat
<1>1. /\ Elems(frame) \subseteq Token /\ Elems(rx) \subseteq Token
      /\ Elems(line) \subseteq Token /\ Elems(cmds) \subseteq Command
  BY Elements DEF TypeOK
<1>2. /\ \A x \in Flying : x \in Token
      /\ \A c \in Elems(cmds) : c \in Command
  BY <1>1 DEF Flying
<1>3. \A i \in Pending : i \in 1 .. MaxCmds
  BY <1>2 DEF Pending, Token, Command
<1>. QED  BY <1>2, <1>3, McucoAssumption

(* Steps that add nothing to what is pending and leave the caller where it *)
(* is, or gone.                                                            *)
LEMMA Fewer ==
    ASSUME McInv, Pending' \subseteq Pending,
           UNCHANGED <<call, sent, lastId, debt>>,
           host' = "closed" \/ host' = host
    PROVE  Fresh' /\ Recent'
BY DEF McInv, Fresh, Recent

LEMMA FewerPending ==
    ASSUME Flying' \subseteq Flying, Elems(cmds)' \subseteq Elems(cmds)
    PROVE  Pending' \subseteq Pending
BY DEF Pending

(* Taking k bytes off the queue, to keep them behind the frame or to drop  *)
(* them together with it.                                                  *)
LEMMA Consume ==
    ASSUME McInv, NEW k \in 1 .. Len(rx), NEW g,
           g = frame \o SubSeq(rx, 1, k),
           frame' = <<>> \/ frame' = g,
           rx' = SubSeq(rx, k + 1, Len(rx)),
           UNCHANGED <<line, cmds>>
    PROVE  /\ g \in Seq(Token) /\ Elems(g) \subseteq Flying
           /\ Precedes(g, rx') /\ Precedes(g, line')
           /\ frame' \in Seq(Token) /\ rx' \in Seq(Token)
           /\ Ordered'
           /\ Flying' \subseteq Flying
           /\ Pending' \subseteq Pending
<1>. DEFINE p == SubSeq(rx, 1, k)
            q == SubSeq(rx, k + 1, Len(rx))
<1>0. /\ frame \in Seq(Token) /\ rx \in Seq(Token) /\ line \in Seq(Token)
      /\ k \in 0 .. Len(rx)
      /\ Sorted(frame) /\ Sorted(rx) /\ Sorted(line)
      /\ Precedes(frame, rx) /\ Precedes(frame, line) /\ Precedes(rx, line)
  <2>1. rx \in Seq(Token) /\ Len(rx) \in Nat
    BY LenProperties DEF McInv, TypeOK
  <2>. QED  BY <2>1 DEF McInv, TypeOK, Ordered
<1>1. /\ p \in Seq(Token) /\ q \in Seq(Token)
  BY <1>0, Cut
<1>2. Elems(p) \subseteq Elems(rx) /\ Elems(q) \subseteq Elems(rx)
  BY <1>0, CutElems
<1>3. Sorted(p) /\ Sorted(q) /\ Precedes(p, q)
  BY <1>0, CutSorted
<1>4. g = frame \o p /\ rx' = q
  OBVIOUS
<1>. HIDE DEF p, q
<1>5. Precedes(frame, p) /\ Precedes(frame, q) /\ Precedes(p, line) /\ Precedes(q, line)
  BY <1>0, <1>2 DEF Precedes
<1>6. g \in Seq(Token) /\ Elems(g) = Elems(frame) \cup Elems(p) /\ Sorted(g)
  <2>1. /\ frame \o p \in Seq(Token)
        /\ Elems(frame \o p) = Elems(frame) \cup Elems(p)
        /\ Sorted(frame) /\ Sorted(p) /\ Precedes(frame, p) => Sorted(frame \o p)
    BY <1>0, <1>1, Join, Zenon
  <2>2. Sorted(frame \o p)
    BY <1>0, <1>3, <1>5, <2>1, Zenon
  <2>. QED  BY <1>4, <2>1, <2>2, Zenon
<1>7. Precedes(g, q) /\ Precedes(g, line)
  BY <1>0, <1>3, <1>5, <1>6 DEF Precedes
<1>8. /\ frame' \in Seq(Token) /\ Sorted(frame') /\ Elems(frame') \subseteq Elems(g)
      /\ Precedes(frame', q) /\ Precedes(frame', line)
  BY <1>6, <1>7, Nothing, EmptySeq
<1>9. Flying' \subseteq Flying
  BY <1>2, <1>4, <1>6, <1>8 DEF Flying, Elems
<1>10. Ordered'
  <2>1. /\ Sorted(frame)' /\ Sorted(rx)' /\ Sorted(line)'
        /\ Precedes(frame, rx)' /\ Precedes(frame, line)' /\ Precedes(rx, line)'
    BY <1>0, <1>3, <1>4, <1>5, <1>8
  <2>2. (\A x \in Flying, c \in Elems(cmds) : x.id < c.id)'
    BY <1>9 DEF McInv, Ordered, Elems
  <2>3. (\A i, j \in DOMAIN cmds : i < j => cmds[i].id < cmds[j].id)'
    BY DEF McInv, Ordered
  <2>. QED  BY <2>1, <2>2, <2>3 DEF Ordered
<1>11. Elems(g) \subseteq Flying
  BY <1>2, <1>6 DEF Flying
<1>12. Pending' \subseteq Pending
  BY <1>9, FewerPending DEF Elems
<1>. QED  BY <1>1, <1>4, <1>6, <1>7, <1>8, <1>9, <1>10, <1>11, <1>12

(* Steps that leave the line and the commands alone and at most throw away *)
(* what was read or queued.                                                *)
LEMMA Discard ==
    ASSUME McInv, frame' = frame \/ frame' = <<>>, rx' = rx \/ rx' = <<>>,
           UNCHANGED <<line, cmds>>
    PROVE  /\ frame' \in Seq(Token) /\ rx' \in Seq(Token)
           /\ Ordered' /\ Flying' \subseteq Flying /\ Pending' \subseteq Pending
<1>1. /\ frame \in Seq(Token) /\ rx \in Seq(Token)
      /\ Sorted(frame) /\ Sorted(rx) /\ Sorted(line)
      /\ Precedes(frame, rx) /\ Precedes(frame, line) /\ Precedes(rx, line)
  BY DEF McInv, TypeOK, Ordered
<1>2. /\ Elems(frame') \subseteq Elems(frame) /\ Elems(rx') \subseteq Elems(rx)
      /\ Sorted(frame') /\ Sorted(rx')
      /\ Precedes(frame', rx') /\ Precedes(frame', line) /\ Precedes(rx', line)
  BY <1>1, Nothing
<1>3. Flying' \subseteq Flying
  BY <1>2 DEF Flying
<1>4. Pending' \subseteq Pending
  BY <1>3, FewerPending
<1>5. Ordered'
  <2>1. (\A x \in Flying, c \in Elems(cmds) : x.id < c.id)'
    BY <1>3 DEF McInv, Ordered
  <2>2. (\A i, j \in DOMAIN cmds : i < j => cmds[i].id < cmds[j].id)'
    BY DEF McInv, Ordered
  <2>. QED  BY <1>1, <1>2, <2>1, <2>2 DEF Ordered
<1>. QED  BY <1>1, <1>3, <1>4, <1>5, EmptySeq

(* Steps of the firmware and of the line, which the host does not see.     *)
LEMMA Unseen ==
    ASSUME McInv, Pending' \subseteq Pending,
           UNCHANGED <<host, call, sent, phase, frame, status, response, lastId, debt>>
    PROVE  Control' /\ Fresh' /\ Recent' /\ Taken'
<1>1. Fresh' /\ Recent'
  BY Fewer
<1>2. Control'
  BY DEF McInv, Control
<1>3. Taken'
  BY DEF McInv, Taken, Accepted, Replied, AcceptedId
<1>. QED  BY <1>1, <1>2, <1>3

(* The commands left once the first is handled.                            *)
LEMMA Handle ==
    ASSUME McInv, cmds # <<>>, cmds' = Tail(cmds) \/ cmds' = <<>>
    PROVE  /\ Head(cmds) \in Elems(cmds) /\ Head(cmds) \in Command
           /\ cmds' \in Seq(Command) /\ Elems(cmds') \subseteq Elems(cmds)
           /\ \A c \in Elems(cmds') : Head(cmds).id < c.id
           /\ \A i, j \in DOMAIN cmds' : i < j => cmds'[i].id < cmds'[j].id
<1>1. /\ cmds \in Seq(Command) /\ Len(cmds) \in Nat /\ Len(cmds) >= 1
      /\ DOMAIN cmds = 1 .. Len(cmds)
  BY LenProperties DEF McInv, TypeOK
<1>2. /\ Head(cmds) = cmds[1] /\ Head(cmds) \in Elems(cmds) /\ Head(cmds) \in Command
  BY <1>1, HeadTail
<1>3. \A i, j \in DOMAIN cmds : i < j => cmds[i].id < cmds[j].id
  BY DEF McInv, Ordered
<1>4. CASE cmds' = <<>>
  BY <1>2, <1>4, Nothing, EmptySeq
<1>5. CASE cmds' = Tail(cmds)
  <2>1. /\ Tail(cmds) \in Seq(Command) /\ DOMAIN Tail(cmds) = 1 .. Len(cmds) - 1
        /\ \A i \in 1 .. Len(cmds) - 1 : Tail(cmds)[i] = cmds[i + 1]
    BY <1>1, HeadTailProperties, LenProperties
  <2>2. \A i \in 1 .. Len(cmds) - 1 : i + 1 \in 1 .. Len(cmds) /\ 1 < i + 1
    BY <1>1
  <2>3. 1 \in 1 .. Len(cmds)
    BY <1>1
  <2>4. Elems(cmds') \subseteq Elems(cmds)
    BY <1>1, <1>5, <2>1, <2>2 DEF Elems
  <2>5. \A c \in Elems(cmds') : Head(cmds).id < c.id
    <3>. SUFFICES ASSUME NEW i \in 1 .. Len(cmds) - 1
                  PROVE  Head(cmds).id < cmds[i + 1].id
      BY <1>5, <2>1 DEF Elems
    <3>. QED  BY <1>1, <1>2, <1>3, <2>2, <2>3
  <2>6. \A i, j \in DOMAIN cmds' : i < j => cmds'[i].id < cmds'[j].id
    <3>. SUFFICES ASSUME NEW i \in 1 .. Len(cmds) - 1, NEW j \in 1 .. Len(cmds) - 1,
                         i < j
                  PROVE  cmds[i + 1].id < cmds[j + 1].id
      BY <1>5, <2>1
    <3>1. i + 1 < j + 1
      BY <1>1
    <3>. QED  BY <1>1, <1>3, <2>2, <3>1
  <2>. QED  BY <1>2, <1>5, <2>1, <2>4, <2>5, <2>6
<1>. QED  BY <1>4, <1>5

(* The firmware answers its first command with the bytes r.                *)
LEMMA Answer ==
    ASSUME McInv, cmds # <<>>, cmds' = Tail(cmds) \/ cmds' = <<>>,
           NEW r \in Seq(Token), Sorted(r), \A x \in Elems(r) : x.id = Head(cmds).id,
           line' = line \o r, UNCHANGED <<frame, rx>>
    PROVE  /\ line' \in Seq(Token) /\ cmds' \in Seq(Command)
           /\ Ordered' /\ Pending' \subseteq Pending
<1>1. /\ line \in Seq(Token)
      /\ Sorted(frame) /\ Sorted(rx) /\ Sorted(line)
      /\ Precedes(frame, rx) /\ Precedes(frame, line) /\ Precedes(rx, line)
      /\ \A x \in Flying, c \in Elems(cmds) : x.id < c.id
  BY DEF McInv, TypeOK, Ordered
<1>2. /\ Head(cmds) \in Elems(cmds)
      /\ cmds' \in Seq(Command) /\ Elems(cmds') \subseteq Elems(cmds)
      /\ \A c \in Elems(cmds') : Head(cmds).id < c.id
      /\ \A i, j \in DOMAIN cmds' : i < j => cmds'[i].id < cmds'[j].id
  BY Handle
<1>3. \A x \in Flying, y \in Elems(r) : Before(x, y)
  BY <1>1, <1>2 DEF Before
<1>4. Precedes(frame, r) /\ Precedes(rx, r) /\ Precedes(line, r)
  BY <1>3 DEF Precedes, Flying
<1>5. /\ line \o r \in Seq(Token)
      /\ Elems(line \o r) = Elems(line) \cup Elems(r)
      /\ Sorted(line) /\ Sorted(r) /\ Precedes(line, r) => Sorted(line \o r)
  BY <1>1, Join, Zenon
<1>6. /\ line' \in Seq(Token) /\ Elems(line') = Elems(line) \cup Elems(r) /\ Sorted(line')
  BY <1>1, <1>4, <1>5, Zenon
<1>7. Precedes(frame, line') /\ Precedes(rx, line')
  BY <1>1, <1>4, <1>6 DEF Precedes
<1>8. Flying' = Flying \cup Elems(r)
  BY <1>6 DEF Flying
<1>9. (\A x \in Flying, c \in Elems(cmds) : x.id < c.id)'
  BY <1>1, <1>2, <1>8
<1>10. Ordered'
  BY <1>1, <1>2, <1>6, <1>7, <1>9 DEF Ordered
<1>11. Pending' \subseteq Pending
  BY <1>2, <1>8 DEF Pending
<1>. QED  BY <1>2, <1>6, <1>10, <1>11

\* A reply to command id: bytes in their order, at least five of them, the
\* third of which is ack.
ReplyOk(r, id, ack) ==
    /\ r \in Seq(Token)
    /\ Sorted(r)
    /\ \A x \in Elems(r) :
          x.id = id /\ (x.last => x.pos >= 5) /\ (x.pos = 3 => x.val = ack)

(* What the firmware puts on the line is such a reply.                     *)
LEMMA ReplyBytes ==
    ASSUME NEW id \in 1 .. MaxCmds, NEW ack \in 0 .. 255,
           NEW data \in Seq(0 .. 255), Len(data) <= MaxData
    PROVE  ReplyOk(Reply(id, ack, data), id, ack)
<1>. DEFINE octets == <<R!PROTOCOL_SOF, 1 + Len(data), ack>> \o data \o <<0, 0>>
            n == Len(octets)
            r == [i \in 1 .. n |-> [id |-> id, pos |-> i, last |-> i = n,
                                    val |-> octets[i], bad |-> FALSE]]
<1>1. Len(data) \in Nat /\ 1 + Len(data) \in 0 .. 255 /\ MaxData \in Nat
  <2>1. Len(data) \in Nat
    BY LenProperties, Zenon
  <2>2. MaxData \in 1 .. 254
    BY McucoAssumption
  <2>3. \A k, m : k \in Nat /\ m \in 1 .. 254 /\ k <= m => 1 + k \in 0 .. 255 /\ m \in Nat
    OBVIOUS
  <2>. QED  BY <2>1, <2>2, <2>3, Zenon
<1>2. octets \in Seq(0 .. 255) /\ n = 5 + Len(data) /\ octets[3] = ack
  <2>1. /\ <<R!PROTOCOL_SOF, 1 + Len(data), ack>> \in Seq(0 .. 255)
        /\ Len(<<R!PROTOCOL_SOF, 1 + Len(data), ack>>) = 3
    BY <1>1 DEF R!PROTOCOL_SOF
  <2>2. <<0, 0>> \in Seq(0 .. 255) /\ Len(<<0, 0>>) = 2
    OBVIOUS
  <2>. HIDE DEF n
  <2>3. /\ <<R!PROTOCOL_SOF, 1 + Len(data), ack>> \o data \in Seq(0 .. 255)
        /\ Len(<<R!PROTOCOL_SOF, 1 + Len(data), ack>> \o data) = 3 + Len(data)
    BY <2>1, ConcatProperties
  <2>4. octets \in Seq(0 .. 255) /\ Len(octets) = (3 + Len(data)) + 2
    BY <2>2, <2>3, ConcatProperties
  <2>5. (<<R!PROTOCOL_SOF, 1 + Len(data), ack>> \o data)[3] = ack
    BY <1>1, <2>1
  <2>6. octets[3] = ack
    BY <1>1, <2>2, <2>3, <2>5, ConcatProperties
  <2>. QED  BY <1>1, <2>4, <2>6 DEF n
<1>3. Reply(id, ack, data) = r
  BY DEF Reply
<1>4. n \in Nat /\ \A i \in 1 .. n : octets[i] \in 0 .. 255 /\ i \in 1 .. 5 + MaxData
  <2>1. \A i \in 1 .. n : octets[i] \in 0 .. 255
    BY <1>2, ElementOfSeq
  <2>. HIDE DEF octets, n
  <2>. QED  BY <1>1, <1>2, <2>1
<1>. HIDE DEF octets, n
<1>5. \A i \in 1 .. n : r[i] \in Token
  BY <1>4 DEF Token
<1>6. DOMAIN r = 1 .. n /\ r \in Seq(Token)
  BY <1>4, <1>5
<1>7. \A x \in Elems(r) : x.id = id
  BY <1>6 DEF Elems
<1>8. \A x \in Elems(r) : (x.last => x.pos >= 5) /\ (x.pos = 3 => x.val = ack)
  <2>. SUFFICES ASSUME NEW i \in 1 .. n
                PROVE  (r[i].last => r[i].pos >= 5) /\ (r[i].pos = 3 => r[i].val = ack)
    BY <1>6 DEF Elems
  <2>1. r[i].pos = i /\ r[i].val = octets[i]
    OBVIOUS
  <2>2. r[i].last => i = n
    OBVIOUS
  <2>3. n >= 5
    BY <1>1, <1>2
  <2>. HIDE DEF r
  <2>. QED  BY <1>2, <2>1, <2>2, <2>3
<1>9. Sorted(r)
  <2>. SUFFICES ASSUME NEW i \in 1 .. n, NEW j \in 1 .. n, i < j
                PROVE  Before(r[i], r[j])
    BY <1>6 DEF Sorted
  <2>1. ~(i = n)
    BY <1>4
  <2>2. r[i].id = id /\ r[j].id = id /\ r[i].last = (i = n)
    OBVIOUS
  <2>. QED  BY <2>1, <2>2 DEF Before
<1>. HIDE DEF r
<1>. QED  BY <1>3, <1>6, <1>7, <1>8, <1>9 DEF ReplyOk

-----------------------------------------------------------------------------
(* One lemma per action.                                                   *)

LEMMA InitInv == Init => McInv
<1>. SUFFICES ASSUME Init PROVE McInv
  OBVIOUS
<1>. USE DEF Init, R!Init
<1>1. TypeOK
  BY McucoAssumption, EmptySeq DEF TypeOK
<1>2. Elems(frame) = {} /\ Elems(rx) = {} /\ Elems(line) = {} /\ Elems(cmds) = {}
  BY Nothing
<1>3. Flying = {} /\ Pending = {}
  BY <1>2 DEF Flying, Pending
<1>4. Ordered
  BY <1>3, Nothing DEF Ordered
<1>. QED  BY <1>1, <1>3, <1>4 DEF McInv, Control, Fresh, Recent, Taken, Accepted, Replied

LEMMA StutterInv ==
    ASSUME McInv, UNCHANGED vars PROVE McInv'
<1>. USE DEF vars
<1>1. Ordered' /\ Pending' \subseteq Pending
  BY Discard
<1>2. Control' /\ Fresh' /\ Recent' /\ Taken'
  BY <1>1, Unseen
<1>3. TypeOK'
  BY DEF McInv, TypeOK
<1>. QED  BY <1>1, <1>2, <1>3 DEF McInv

LEMMA OpenInv ==
    ASSUME McInv, Open PROVE McInv'
<1>. USE DEF Open, linkVars
<1>1. rx' \in Seq(Token) /\ Ordered' /\ Pending' \subseteq Pending
  BY Discard
<1>2. TypeOK'
  BY <1>1 DEF McInv, TypeOK
<1>3. call = "none" /\ phase = "idle" /\ frame = <<>>
  BY DEF McInv, Control
<1>4. Control'
  BY <1>3 DEF Control
<1>5. Fresh'
  BY <1>1 DEF McInv, Fresh
<1>6. Recent'
  <2>1. CASE line = <<>> /\ cmds = <<>>
    <3>1. Flying' = {} /\ Elems(cmds') = {}
      BY <1>3, <2>1, Nothing DEF Flying
    <3>. QED  BY <3>1 DEF Recent, Pending
  <2>2. CASE ~(line = <<>> /\ cmds = <<>>)
    <3>1. debt' = sent /\ sent \in Nat /\ sent' = sent
      BY <2>2 DEF McInv, TypeOK
    <3>2. \A i \in Pending' : i \in Nat /\ i > 0
      BY <1>1, Ids DEF McInv
    <3>3. \A i \in Pending' : sent' < i + debt'
      BY <3>1, <3>2
    <3>. QED  BY <1>3, <3>3 DEF Recent
  <2>. QED  BY <2>1, <2>2
<1>7. Taken'
  BY <1>3 DEF Taken, Accepted, Replied
<1>. QED  BY <1>1, <1>2, <1>4, <1>5, <1>6, <1>7 DEF McInv

LEMMA ExchangeInv ==
    ASSUME McInv, NEW op \in Op, Exchange(op) PROVE McInv'
<1>. USE DEF Exchange, MayCall, R!Start, history
<1>. DEFINE c == [id |-> sent + 1, op |-> op]
<1>1. /\ sent \in Nat /\ sent < MaxCmds /\ MaxCmds \in Nat /\ sent' = sent + 1
      /\ lastId \in Nat /\ debt \in Nat
  BY Ids DEF McInv, TypeOK
<1>2. c \in Command /\ cmds \in Seq(Command)
  BY <1>1 DEF Command, McInv, TypeOK
<1>3. /\ cmds' = Append(cmds, c) /\ cmds' \in Seq(Command) /\ Len(cmds) \in Nat
      /\ DOMAIN cmds = 1 .. Len(cmds) /\ DOMAIN cmds' = 1 .. Len(cmds) + 1
      /\ \A i \in 1 .. Len(cmds) : cmds'[i] = cmds[i]
      /\ cmds'[Len(cmds) + 1] = c
  BY <1>2, AppendProperties, LenProperties
<1>4. c.id = sent + 1 /\ c.op = op
  OBVIOUS
<1>. HIDE DEF c
<1>5. phase = "idle" /\ frame = <<>> /\ frame' = frame
  BY DEF McInv, Control
<1>6. Elems(cmds') = Elems(cmds) \cup {c}
  <2>1. \A i \in 1 .. Len(cmds) + 1 : i \in 1 .. Len(cmds) \/ i = Len(cmds) + 1
    BY <1>3
  <2>2. \A i \in 1 .. Len(cmds) : i \in 1 .. Len(cmds) + 1
    BY <1>3
  <2>3. Len(cmds) + 1 \in 1 .. Len(cmds) + 1
    BY <1>3
  <2>4. Elems(cmds') \subseteq Elems(cmds) \cup {c}
    BY <1>3, <2>1 DEF Elems
  <2>5. Elems(cmds) \subseteq Elems(cmds')
    BY <1>3, <2>2 DEF Elems
  <2>6. c \in Elems(cmds')
    BY <1>3, <2>3 DEF Elems
  <2>. QED  BY <2>4, <2>5, <2>6
<1>7. Flying' = Flying
  BY <1>5 DEF Flying
<1>8. Pending' = Pending \cup {sent + 1}
  BY <1>4, <1>6, <1>7 DEF Pending
<1>9. \A i \in Pending : i \in Nat /\ i <= sent /\ lastId < i
  BY <1>1, Ids DEF McInv, Fresh
<1>10. TypeOK'
  BY <1>1, <1>3 DEF McInv, TypeOK
<1>11. Control'
  <2>1. call' # "none" /\ host' # "closed"
    BY McucoAssumption
  <2>. QED  BY <1>5, <2>1 DEF Control
<1>12. Ordered'
  <2>1. (\A x \in Flying, d \in Elems(cmds) : x.id < d.id)'
    <3>1. \A x \in Flying, d \in Elems(cmds) : x.id < d.id
      BY DEF McInv, Ordered
    <3>2. \A x \in Flying : x.id \in Nat /\ x.id <= sent
      BY <1>9 DEF Pending
    <3>3. \A x \in Flying : x.id < c.id
      BY <1>1, <1>4, <3>2
    <3>. QED  BY <1>6, <1>7, <3>1, <3>3
  <2>2. (\A i, j \in DOMAIN cmds : i < j => cmds[i].id < cmds[j].id)'
    <3>. SUFFICES ASSUME NEW i \in 1 .. Len(cmds) + 1, NEW j \in 1 .. Len(cmds) + 1,
                         i < j
                  PROVE  cmds'[i].id < cmds'[j].id
      BY <1>3
    <3>1. i \in 1 .. Len(cmds)
      BY <1>3
    <3>2. CASE j \in 1 .. Len(cmds)
      BY <1>3, <3>1, <3>2 DEF McInv, Ordered
    <3>3. CASE j = Len(cmds) + 1
      <4>1. cmds[i].id \in Nat /\ cmds[i].id <= sent
        BY <1>3, <1>9, <3>1 DEF Pending, Elems
      <4>. QED  BY <1>1, <1>3, <1>4, <3>1, <3>3, <4>1
    <3>. QED  BY <1>3, <3>2, <3>3
  <2>3. UNCHANGED <<frame, rx, line>>
    BY <1>5
  <2>. QED  BY <2>1, <2>2, <2>3 DEF McInv, Ordered
<1>13. Fresh'
  <2>1. lastId < sent + 1
    <3>1. lastId <= sent
      BY DEF McInv, Fresh
    <3>. QED  BY <1>1, <3>1
  <2>. QED  BY <1>1, <1>8, <1>9, <2>1 DEF Fresh
<1>14. Recent'
  <2>1. \A i \in Pending : sent < i + debt
    BY DEF McInv, Recent
  <2>2. \A i \in Pending' : sent' <= i + debt'
    BY <1>1, <1>8, <1>9, <2>1
  <2>3. call' # "none"
    BY McucoAssumption
  <2>. QED  BY <2>2, <2>3 DEF Recent
<1>15. Taken'
  BY DEF Taken, Accepted, Replied
<1>. QED  BY <1>10, <1>11, <1>12, <1>13, <1>14, <1>15 DEF McInv

LEMMA TransmitFailsInv ==
    ASSUME McInv, NEW op \in Op, TransmitFails(op) PROVE McInv'
<1>. USE DEF TransmitFails, MayCall, linkVars, readerVars, history
<1>1. Ordered' /\ Pending' \subseteq Pending
  BY Discard
<1>2. host' = "closed" \/ host' = host
  OBVIOUS
<1>3. Fresh' /\ Recent'
  BY <1>1, <1>2, Fewer
<1>4. TypeOK'
  BY DEF McInv, TypeOK
<1>5. Control'
  BY DEF McInv, Control
<1>6. Taken'
  BY DEF Taken, Accepted, Replied
<1>. QED  BY <1>1, <1>3, <1>4, <1>5, <1>6 DEF McInv

LEMMA CloseInv ==
    ASSUME McInv, Close PROVE McInv'
<1>. USE DEF Close, linkVars, readerVars, history
<1>1. Ordered' /\ Pending' \subseteq Pending
  BY Discard
<1>2. Fresh' /\ Recent'
  BY <1>1, Fewer
<1>3. TypeOK'
  BY DEF McInv, TypeOK
<1>4. Control' /\ Taken'
  BY DEF McInv, Control, Taken, Accepted, Replied
<1>. QED  BY <1>1, <1>2, <1>3, <1>4 DEF McInv

LEMMA KilledInv ==
    ASSUME McInv, Killed PROVE McInv'
<1>. USE DEF Killed, linkVars, history
<1>1. frame' \in Seq(Token) /\ Ordered' /\ Pending' \subseteq Pending
  BY Discard
<1>2. Fresh' /\ Recent'
  BY <1>1 DEF McInv, Fresh, Recent
<1>3. TypeOK'
  BY <1>1, EmptySeq DEF McInv, TypeOK
<1>4. Control' /\ Taken'
  BY DEF Control, Taken, Accepted, Replied
<1>. QED  BY <1>1, <1>2, <1>3, <1>4 DEF McInv

(* The return of a command turns the bounds of Taken and Recent, which     *)
(* speak of the command being exchanged, into those for the next one.      *)
LEMMA ReturnInv ==
    ASSUME McInv, Return PROVE McInv'
<1>. USE DEF Return, linkVars
<1>1. Ordered' /\ Pending' \subseteq Pending
  BY Discard
<1>2. /\ sent \in Nat /\ debt \in Nat /\ lastId \in Nat /\ sent' = sent
      /\ \A i \in Pending : i \in Nat
  BY Ids DEF McInv, TypeOK
<1>3. host # "closed" /\ call # "none" /\ call' = "none"
  BY DEF McInv, Control, Replied
<1>4. Control'
  <2>1. phase' = "idle" /\ (phase' \in {"idle", "sof"} => frame' = <<>>)
    BY DEF McInv, Control, Replied
  <2>. QED  BY <1>3, <2>1 DEF Control
<1>5. Taken'
  BY <1>3 DEF Taken, Accepted, Replied
<1>6. ASSUME debt' \in Nat, lastId' \in Nat
      PROVE  TypeOK'
  <2>1. host' \in {"closed", "opening", "open"}
    BY DEF McInv, TypeOK
  <2>. QED  BY <1>6, <2>1, EmptySeq DEF McInv, TypeOK
<1>7. CASE status = "OK"
  <2>1. Accepted
    BY <1>7 DEF Accepted
  <2>2. /\ response # <<>> /\ response \in Seq(Token)
        /\ lastId < AcceptedId /\ AcceptedId <= sent
        /\ sent <= AcceptedId + debt
        /\ \A i \in Pending : AcceptedId < i
    BY <2>1 DEF McInv, Taken, TypeOK
  <2>3. AcceptedId \in Nat
    <3>1. response[1] \in Token
      BY <2>2, HeadTail
    <3>. QED  BY <3>1 DEF Token, AcceptedId
  <2>4. lastId' = AcceptedId /\ debt' = debt
    BY <1>7 DEF AcceptedId
  <2>5. Fresh'
    BY <1>1, <1>2, <2>2, <2>4 DEF McInv, Fresh
  <2>6. Recent'
    <3>1. \A i \in Pending' : sent' < i + debt'
      BY <1>1, <1>2, <2>2, <2>3, <2>4
    <3>. QED  BY <1>3, <3>1 DEF Recent
  <2>. QED  BY <1>1, <1>2, <1>4, <1>5, <1>6, <2>3, <2>4, <2>5, <2>6 DEF McInv
<1>8. CASE status # "OK"
  <2>1. lastId' = lastId /\ debt' = debt + 1
    BY <1>8
  <2>2. Fresh'
    BY <1>1, <1>2, <2>1 DEF McInv, Fresh
  <2>3. Recent'
    <3>1. \A i \in Pending : sent <= i + debt
      BY <1>3 DEF McInv, Recent
    <3>2. \A i \in Pending' : sent' < i + debt'
      BY <1>1, <1>2, <2>1, <3>1
    <3>. QED  BY <1>3, <3>2 DEF Recent
  <2>. QED  BY <1>1, <1>2, <1>4, <1>5, <1>6, <2>1, <2>2, <2>3 DEF McInv
<1>. QED  BY <1>7, <1>8

LEMMA AcceptInv ==
    ASSUME McInv, NEW v \in DataVal, Accept(v) PROVE McInv'
<1>. DEFINE c == Head(cmds)
            x == IF c.op = "probe" THEN PROBE_MAGIC ELSE v
            w == Width[c.op]
            data == [i \in 1 .. w |-> x]
            r == Reply(c.id, ACK, data)
<1>1. /\ cmds # <<>> /\ line' = line \o r /\ cmds' = Handled(c)
      /\ UNCHANGED <<hostVars, faults, readerVars, history>>
  BY DEF Accept
<1>2. cmds' = Tail(cmds) \/ cmds' = <<>>
  BY <1>1 DEF Handled
<1>3. c \in Command
  BY <1>1, <1>2, Handle
<1>4. c.id \in 1 .. MaxCmds /\ c.op \in Op
  BY <1>3 DEF Command
<1>. HIDE DEF c
<1>5. x \in 0 .. 255 /\ w \in Nat /\ w <= MaxData /\ ACK \in 0 .. 255
  BY <1>4, McucoAssumption DEF PROBE_MAGIC, ACK
<1>. HIDE DEF x, w
<1>6. data \in Seq(0 .. 255) /\ Len(data) <= MaxData
  BY <1>5
<1>. HIDE DEF data
<1>7. ReplyOk(r, c.id, ACK)
  BY <1>4, <1>5, <1>6, ReplyBytes, Zenon
<1>. HIDE DEF r
<1>8. UNCHANGED <<host, call, sent, phase, frame, rx, status, response, lastId, debt, faults>>
  BY <1>1 DEF hostVars, readerVars, history
<1>9. /\ line' \in Seq(Token) /\ cmds' \in Seq(Command)
      /\ Ordered' /\ Pending' \subseteq Pending
  BY <1>1, <1>2, <1>7, <1>8, Answer DEF c, ReplyOk
<1>10. Control' /\ Fresh' /\ Recent' /\ Taken'
  BY <1>8, <1>9, Unseen
<1>11. TypeOK'
  BY <1>8, <1>9 DEF McInv, TypeOK
<1>. QED  BY <1>9, <1>10, <1>11 DEF McInv

LEMMA RejectInv ==
    ASSUME McInv, Reject PROVE McInv'
<1>. DEFINE c == Head(cmds)
            r == Reply(c.id, NACK, <<3>>)
<1>1. /\ cmds # <<>> /\ line' = line \o r /\ cmds' = Tail(cmds)
      /\ UNCHANGED <<hostVars, faults, readerVars, history>>
  BY DEF Reject
<1>2. c \in Command
  BY <1>1, Handle
<1>3. c.id \in 1 .. MaxCmds
  BY <1>2 DEF Command
<1>. HIDE DEF c
<1>4. /\ <<3>> \in Seq(0 .. 255) /\ Len(<<3>>) = 1 /\ NACK \in 0 .. 255
  BY DEF NACK
<1>5. Len(<<3>>) <= MaxData
  BY <1>4, McucoAssumption
<1>6. ReplyOk(r, c.id, NACK)
  BY <1>3, <1>4, <1>5, ReplyBytes, Zenon
<1>. HIDE DEF r
<1>7. UNCHANGED <<host, call, sent, phase, frame, rx, status, response, lastId, debt, faults>>
  BY <1>1 DEF hostVars, readerVars, history
<1>8. /\ line' \in Seq(Token) /\ cmds' \in Seq(Command)
      /\ Ordered' /\ Pending' \subseteq Pending
  BY <1>1, <1>6, <1>7, Answer DEF c, ReplyOk
<1>9. Control' /\ Fresh' /\ Recent' /\ Taken'
  BY <1>7, <1>8, Unseen
<1>10. TypeOK'
  BY <1>7, <1>8 DEF McInv, TypeOK
<1>. QED  BY <1>8, <1>9, <1>10 DEF McInv

LEMMA IgnoreInv ==
    ASSUME McInv, Ignore PROVE McInv'
<1>. USE DEF Ignore, Fault, hostVars, readerVars, history
<1>1. /\ cmds' \in Seq(Command) /\ Elems(cmds') \subseteq Elems(cmds)
      /\ \A i, j \in DOMAIN cmds' : i < j => cmds'[i].id < cmds'[j].id
  BY Handle
<1>2. Flying' = Flying
  BY DEF Flying
<1>3. Pending' \subseteq Pending
  BY <1>1, <1>2, FewerPending
<1>4. Ordered'
  <2>1. (\A x \in Flying, c \in Elems(cmds) : x.id < c.id)'
    BY <1>1, <1>2 DEF McInv, Ordered
  <2>. QED  BY <1>1, <2>1 DEF McInv, Ordered
<1>5. Control' /\ Fresh' /\ Recent' /\ Taken'
  BY <1>3, Unseen
<1>6. TypeOK'
  BY <1>1 DEF McInv, TypeOK
<1>. QED  BY <1>4, <1>5, <1>6 DEF McInv

(* A byte moves from the line to the queue.                                *)
LEMMA ArriveInv ==
    ASSUME McInv, Arrive PROVE McInv' /\ Flying' \subseteq Flying
<1>. DEFINE p == SubSeq(line, 1, 1)
            q == SubSeq(line, 1 + 1, Len(line))
<1>1. /\ line # <<>> /\ line' = Tail(line) /\ rx' = Append(rx, Head(line))
      /\ UNCHANGED <<host, call, sent, phase, frame, status, response, cmds, faults,
                     lastId, debt>>
  BY DEF Arrive, R!Arrive, hostVars, history
<1>2. /\ line \in Seq(Token) /\ rx \in Seq(Token)
      /\ Sorted(frame) /\ Sorted(rx) /\ Sorted(line)
      /\ Precedes(frame, rx) /\ Precedes(frame, line) /\ Precedes(rx, line)
      /\ \A x \in Flying, c \in Elems(cmds) : x.id < c.id
      /\ \A i, j \in DOMAIN cmds : i < j => cmds[i].id < cmds[j].id
  BY DEF McInv, TypeOK, Ordered
<1>3. 1 \in 0 .. Len(line) /\ Head(line) \in Token /\ p = <<Head(line)>> /\ line' = q
  BY <1>1, <1>2, HeadTail
<1>4. p \in Seq(Token) /\ q \in Seq(Token)
  BY <1>2, <1>3, Cut
<1>5. Elems(p) \subseteq Elems(line) /\ Elems(q) \subseteq Elems(line)
  BY <1>2, <1>3, CutElems
<1>6. Sorted(p) /\ Sorted(q) /\ Precedes(p, q)
  BY <1>2, <1>3, CutSorted
<1>7. rx' = rx \o p
  BY <1>1, <1>2, <1>3, AppendIsConcat
<1>. HIDE DEF p, q
<1>8. /\ rx \o p \in Seq(Token)
      /\ Elems(rx \o p) = Elems(rx) \cup Elems(p)
      /\ Sorted(rx) /\ Sorted(p) /\ Precedes(rx, p) => Sorted(rx \o p)
  BY <1>2, <1>4, Join, Zenon
<1>9. Precedes(rx, p) /\ Precedes(frame, p) /\ Precedes(frame, q) /\ Precedes(rx, q)
  BY <1>2, <1>5 DEF Precedes
<1>10. rx' \in Seq(Token) /\ Elems(rx') = Elems(rx) \cup Elems(p) /\ Sorted(rx')
  BY <1>2, <1>6, <1>7, <1>8, <1>9, Zenon
<1>11. Precedes(frame, rx') /\ Precedes(rx', q)
  BY <1>2, <1>6, <1>9, <1>10 DEF Precedes
<1>12. Flying' \subseteq Flying
  BY <1>1, <1>3, <1>5, <1>10 DEF Flying
<1>13. Pending' \subseteq Pending
  BY <1>1, <1>12, FewerPending
<1>14. Ordered'
  <2>1. (\A x \in Flying, c \in Elems(cmds) : x.id < c.id)'
    BY <1>1, <1>2, <1>12
  <2>2. /\ Sorted(frame)' /\ Sorted(rx)' /\ Sorted(line)'
        /\ Precedes(frame, rx)' /\ Precedes(frame, line)' /\ Precedes(rx, line)'
    BY <1>1, <1>2, <1>3, <1>6, <1>9, <1>10, <1>11
  <2>. QED  BY <1>1, <1>2, <2>1, <2>2 DEF Ordered
<1>15. Control' /\ Fresh' /\ Recent' /\ Taken'
  BY <1>1, <1>13, Unseen
<1>16. TypeOK'
  BY <1>1, <1>3, <1>4, <1>10 DEF McInv, TypeOK
<1>. QED  BY <1>12, <1>14, <1>15, <1>16 DEF McInv

LEMMA LoseInv ==
    ASSUME McInv, Lose PROVE McInv' /\ Flying' \subseteq Flying
<1>. DEFINE q == SubSeq(line, 1 + 1, Len(line))
<1>1. /\ line # <<>> /\ line' = Tail(line) /\ faults' = faults + 1
      /\ UNCHANGED <<host, call, sent, phase, frame, rx, status, response, cmds,
                     lastId, debt>>
  BY DEF Lose, Fault, hostVars, readerVars, history
<1>2. /\ line \in Seq(Token) /\ Sorted(line)
      /\ Precedes(frame, line) /\ Precedes(rx, line)
  BY DEF McInv, TypeOK, Ordered
<1>3. 1 \in 0 .. Len(line) /\ line' = q
  BY <1>1, <1>2, HeadTail
<1>4. q \in Seq(Token)
  BY <1>2, <1>3, Cut
<1>5. Elems(q) \subseteq Elems(line)
  BY <1>2, <1>3, CutElems
<1>6. Sorted(q)
  BY <1>2, <1>3, CutSorted
<1>. HIDE DEF q
<1>7. Precedes(frame, q) /\ Precedes(rx, q)
  BY <1>2, <1>5 DEF Precedes
<1>8. Flying' \subseteq Flying
  BY <1>1, <1>3, <1>5 DEF Flying
<1>9. Pending' \subseteq Pending
  BY <1>1, <1>8, FewerPending
<1>10. Ordered'
  <2>1. (\A x \in Flying, c \in Elems(cmds) : x.id < c.id)'
    BY <1>1, <1>8 DEF McInv, Ordered
  <2>. QED  BY <1>1, <1>3, <1>6, <1>7, <2>1 DEF McInv, Ordered
<1>11. Control' /\ Fresh' /\ Recent' /\ Taken'
  BY <1>1, <1>9, Unseen
<1>12. TypeOK'
  BY <1>1, <1>3, <1>4 DEF McInv, TypeOK
<1>. QED  BY <1>8, <1>10, <1>11, <1>12 DEF McInv

(* Damage changes the octet of a byte, not the command it answers.         *)
LEMMA DamagedByte ==
    ASSUME NEW b \in Token, NEW v \in 0 .. 255
    PROVE  LET y == [b EXCEPT !.val = v, !.bad = TRUE]
           IN  y \in Token /\ y.bad /\ y.id = b.id /\ y.last = b.last /\ y.pos = b.pos
BY DEF Token

LEMMA DamageInv ==
    ASSUME McInv, NEW v \in DataVal, Damage(v)
    PROVE  /\ McInv'
           /\ \A y \in Flying' : y \in Flying \/
                 \E x \in Flying : y.bad /\ y.last = x.last /\ y.pos = x.pos
<1>1. /\ line # <<>> /\ line' = [line EXCEPT ![1].val = v, ![1].bad = TRUE]
      /\ faults' = faults + 1
      /\ UNCHANGED <<host, call, sent, phase, frame, rx, status, response, cmds,
                     lastId, debt>>
  BY DEF Damage, Fault, hostVars, readerVars, history
<1>2. /\ line \in Seq(Token) /\ Len(line) \in Nat /\ DOMAIN line = 1 .. Len(line)
      /\ 1 \in 1 .. Len(line)
  BY <1>1, LenProperties DEF McInv, TypeOK
<1>3. v \in 0 .. 255
  BY McucoAssumption
<1>4. \A i \in 1 .. Len(line) : line[i] \in Token
  BY <1>2, ElementOfSeq
<1>5. /\ DOMAIN line' = 1 .. Len(line)
      /\ \A i \in 1 .. Len(line) :
            /\ line'[i] \in Token
            /\ line'[i].id = line[i].id
            /\ line'[i].last = line[i].last
            /\ line'[i] = line[i] \/ (line'[i].bad /\ line'[i].pos = line[i].pos)
  <2>1. /\ DOMAIN line' = 1 .. Len(line)
        /\ \A i \in 1 .. Len(line) :
              line'[i] = IF i = 1 THEN [line[1] EXCEPT !.val = v, !.bad = TRUE]
                                  ELSE line[i]
    BY <1>1, <1>2
  <2>. DEFINE y == [line[1] EXCEPT !.val = v, !.bad = TRUE]
  <2>2. line[1] \in Token
    BY <1>2, <1>4
  <2>3. y \in Token /\ y.bad /\ y.id = line[1].id /\ y.last = line[1].last
        /\ y.pos = line[1].pos
    BY <1>3, <2>2, DamagedByte
  <2>. HIDE DEF y
  <2>4. \A i \in 1 .. Len(line) : line'[i] = IF i = 1 THEN y ELSE line[i]
    BY <2>1 DEF y
  <2>. QED  BY <1>4, <2>1, <2>3, <2>4
<1>6. line' \in Seq(Token)
  <2>1. line' \in [1 .. Len(line) -> Token]
    BY <1>1, <1>2, <1>5
  <2>. QED  BY <1>2, <2>1, SeqDef
<1>7. \A y \in Elems(line') : \E x \in Elems(line) :
        y.id = x.id /\ y.last = x.last /\ (y = x \/ (y.bad /\ y.pos = x.pos))
  BY <1>2, <1>5 DEF Elems
<1>8. \A y \in Flying' : \E x \in Flying : y.id = x.id
  BY <1>1, <1>7 DEF Flying
<1>9. Pending' \subseteq Pending
  BY <1>1, <1>8 DEF Pending
<1>10. Ordered'
  <2>1. Sorted(line')
    BY <1>2, <1>5 DEF McInv, Ordered, Sorted, Before
  <2>2. Precedes(frame, line') /\ Precedes(rx, line')
    BY <1>7 DEF McInv, Ordered, Precedes, Before
  <2>3. (\A x \in Flying, c \in Elems(cmds) : x.id < c.id)'
    BY <1>1, <1>8 DEF McInv, Ordered
  <2>. QED  BY <1>1, <2>1, <2>2, <2>3 DEF McInv, Ordered
<1>11. Control' /\ Fresh' /\ Recent' /\ Taken'
  BY <1>1, <1>9, Unseen
<1>12. TypeOK'
  BY <1>1, <1>6 DEF McInv, TypeOK
<1>13. \A y \in Flying' : y \in Flying \/
         \E x \in Flying : y.bad /\ y.last = x.last /\ y.pos = x.pos
  BY <1>1, <1>7 DEF Flying
<1>. QED  BY <1>10, <1>11, <1>12, <1>13 DEF McInv

\* The next byte of the queue, taken as a cut of it.
OneByte ==
    /\ 1 \in 1 .. Len(rx)
    /\ <<Head(rx)>> = SubSeq(rx, 1, 1)
    /\ Tail(rx) = SubSeq(rx, 1 + 1, Len(rx))
    /\ Append(frame, Head(rx)) = frame \o SubSeq(rx, 1, 1)
    /\ frame = <<>> => <<Head(rx)>> = frame \o SubSeq(rx, 1, 1)

LEMMA NextByte ==
    ASSUME McInv, rx # <<>> PROVE OneByte
<1>1. rx \in Seq(Token) /\ frame \in Seq(Token) /\ Len(rx) \in Nat
  BY LenProperties DEF McInv, TypeOK
<1>2. /\ 1 \in 0 .. Len(rx) /\ Head(rx) \in Token
      /\ <<Head(rx)>> = SubSeq(rx, 1, 1)
      /\ Tail(rx) = SubSeq(rx, 1 + 1, Len(rx))
  BY <1>1, HeadTail
<1>3. Append(frame, Head(rx)) = frame \o <<Head(rx)>>
  BY <1>1, <1>2, AppendIsConcat
<1>4. frame = <<>> => frame \o <<Head(rx)>> = <<Head(rx)>>
  BY <1>2
<1>5. 1 \in 1 .. Len(rx)
  BY <1>1, <1>2
<1>. QED  BY <1>2, <1>3, <1>4, <1>5, Zenon DEF OneByte

(* The bytes taken by a step of receive_response stay in the frame, become *)
(* the reply it hands over, or are dropped.                                *)
LEMMA StepBytes ==
    ASSUME McInv, Receive
    PROVE  /\ Flying' \subseteq Flying
           /\ \/ response' = response /\ phase' # "idle"
              \/ response' = <<>>
              \/ /\ phase' = "idle"
                 /\ response' \in IntactReply
                 /\ Elems(response') \subseteq Flying
<1>1. R!Step /\ UNCHANGED <<line, cmds>>
  BY DEF Receive, linkVars
<1>2. rx # <<>> => OneByte
  BY NextByte
<1>3. CASE R!TakeSof
  <2>1. /\ phase = "sof" /\ rx # <<>> /\ rx' = Tail(rx)
        /\ \/ phase' = "len" /\ frame' = <<Head(rx)>>
           \/ phase' = phase /\ frame' = frame
        /\ response' = response
    BY <1>3 DEF R!TakeSof
  <2>2. frame = <<>>
    BY <2>1 DEF McInv, Control
  <2>3. /\ frame' = <<>> \/ frame' = frame \o SubSeq(rx, 1, 1)
        /\ rx' = SubSeq(rx, 1 + 1, Len(rx)) /\ 1 \in 1 .. Len(rx)
    BY <1>2, <2>1, <2>2, Zenon DEF OneByte
  <2>4. Flying' \subseteq Flying
    BY <1>1, <2>3, Consume
  <2>. QED  BY <2>1, <2>4
<1>4. CASE R!TakeLen
  <2>1. /\ rx # <<>> /\ rx' = Tail(rx)
        /\ \/ phase' = "body" /\ frame' = Append(frame, Head(rx)) /\ response' = response
           \/ frame' = <<>> /\ response' = <<>>
    BY <1>4 DEF R!TakeLen, R!Return
  <2>2. /\ frame' = <<>> \/ frame' = frame \o SubSeq(rx, 1, 1)
        /\ rx' = SubSeq(rx, 1 + 1, Len(rx)) /\ 1 \in 1 .. Len(rx)
    BY <1>2, <2>1, Zenon DEF OneByte
  <2>3. Flying' \subseteq Flying
    BY <1>1, <2>2, Consume
  <2>. QED  BY <2>1, <2>3
<1>5. CASE \E k \in 1 .. Len(rx) : R!TakeBody(k)
  <2>. PICK k \in 1 .. Len(rx) : R!TakeBody(k)
    BY <1>5
  <2>. DEFINE g == frame \o SubSeq(rx, 1, k)
  <2>1. /\ rx' = SubSeq(rx, k + 1, Len(rx)) /\ phase = "body"
        /\ \/ frame' = g /\ UNCHANGED <<phase, response>>
           \/ /\ phase' = "idle" /\ frame' = <<>>
              /\ (g \in IntactReply /\ response' = g) \/ response' = <<>>
    BY DEF R!TakeBody, R!Return
  <2>2. frame' = <<>> \/ frame' = g
    BY <2>1
  <2>3. Elems(g) \subseteq Flying /\ Flying' \subseteq Flying
    BY <1>1, <2>1, <2>2, Consume
  <2>. HIDE DEF g
  <2>. QED  BY <2>1, <2>3
<1>6. CASE \E s \in {"NO_RESPONSE", "ERR_IO"} : R!GiveUp(s)
  <2>1. frame' = <<>> /\ response' = <<>> /\ rx' = rx
    BY <1>6 DEF R!GiveUp, R!Return
  <2>2. Flying' \subseteq Flying
    BY <1>1, <2>1, Discard
  <2>. QED  BY <2>1, <2>2
<1>. QED  BY <1>1, <1>3, <1>4, <1>5, <1>6 DEF R!Step

(* receive_response: only the end of a frame can accept a reply, and its   *)
(* last byte is behind every byte of the replies before it.                *)
LEMMA ReceiveInv ==
    ASSUME McInv, Receive PROVE McInv'
<1>1. UNCHANGED <<host, call, sent, cmds, line, faults, lastId, debt>>
  BY DEF Receive, hostVars, linkVars, history
<1>2. R!Step /\ rx \in Seq(Token) /\ frame \in Seq(Token) /\ Len(rx) \in Nat
  BY LenProperties DEF Receive, McInv, TypeOK
<1>3. phase # "idle"
  BY <1>2 DEF R!Step, R!TakeSof, R!TakeLen, R!TakeBody, R!GiveUp
<1>4. call # "none" /\ host # "closed"
  BY <1>3 DEF McInv, Control
<1>5. ASSUME Pending' \subseteq Pending, Ordered', frame' \in Seq(Token),
             rx' \in Seq(Token), phase' \in {"idle", "sof", "len", "body"},
             status' \in {"OK", "NO_RESPONSE", "ERR_IO", "BAD_FRAME"},
             response' \in Seq(Token),
             phase' \in {"idle", "sof"} => frame' = <<>>,
             Taken'
      PROVE  McInv'
  <2>1. TypeOK'
    BY <1>1, <1>5 DEF McInv, TypeOK
  <2>2. Control'
    BY <1>1, <1>4, <1>5 DEF Control
  <2>3. Fresh' /\ Recent'
    BY <1>1, <1>5, Fewer
  <2>. QED  BY <1>5, <2>1, <2>2, <2>3 DEF McInv
<1>6. rx # <<>> => OneByte
  BY NextByte
<1>7. CASE R!TakeSof
  <2>. DEFINE g == frame \o SubSeq(rx, 1, 1)
  <2>1. /\ phase = "sof" /\ rx # <<>> /\ rx' = Tail(rx)
        /\ \/ phase' = "len" /\ frame' = <<Head(rx)>>
           \/ phase' = phase /\ frame' = frame
        /\ status' = status /\ response' = response
    BY <1>7 DEF R!TakeSof
  <2>2. frame = <<>>
    BY <2>1 DEF McInv, Control
  <2>3. frame' = <<>> \/ frame' = g
    BY <1>6, <2>1, <2>2, Zenon DEF OneByte
  <2>4. rx' = SubSeq(rx, 1 + 1, Len(rx)) /\ 1 \in 1 .. Len(rx)
    BY <1>6, <2>1 DEF OneByte
  <2>5. /\ frame' \in Seq(Token) /\ rx' \in Seq(Token)
        /\ Ordered' /\ Pending' \subseteq Pending
    BY <1>1, <2>3, <2>4, Consume
  <2>6. Taken'
    BY <2>1 DEF Taken, Accepted, Replied
  <2>7. response \in Seq(Token) /\ status \in {"OK", "NO_RESPONSE", "ERR_IO", "BAD_FRAME"}
    BY DEF McInv, TypeOK
  <2>. HIDE DEF g
  <2>. QED  BY <1>5, <2>1, <2>2, <2>5, <2>6, <2>7
<1>8. CASE R!TakeLen
  <2>. DEFINE g == frame \o SubSeq(rx, 1, 1)
  <2>1. /\ rx # <<>> /\ rx' = Tail(rx)
        /\ \/ phase' = "body" /\ frame' = Append(frame, Head(rx))
              /\ status' = status /\ response' = response
           \/ phase' = "idle" /\ frame' = <<>> /\ status' = "BAD_FRAME"
              /\ response' = <<>>
    BY <1>8 DEF R!TakeLen, R!Return
  <2>2. frame' = <<>> \/ frame' = g
    BY <1>6, <2>1, Zenon DEF OneByte
  <2>3. rx' = SubSeq(rx, 1 + 1, Len(rx)) /\ 1 \in 1 .. Len(rx)
    BY <1>6, <2>1 DEF OneByte
  <2>4. /\ frame' \in Seq(Token) /\ rx' \in Seq(Token)
        /\ Ordered' /\ Pending' \subseteq Pending
    BY <1>1, <2>2, <2>3, Consume
  <2>5. Taken'
    BY <2>1 DEF Taken, Accepted, Replied
  <2>6. response \in Seq(Token) /\ status \in {"OK", "NO_RESPONSE", "ERR_IO", "BAD_FRAME"}
    BY DEF McInv, TypeOK
  <2>. HIDE DEF g
  <2>. QED  BY <1>5, <2>1, <2>4, <2>5, <2>6, EmptySeq
<1>9. CASE \E k \in 1 .. Len(rx) : R!TakeBody(k)
  <2>. PICK k \in 1 .. Len(rx) : R!TakeBody(k)
    BY <1>9
  <2>. DEFINE g == frame \o SubSeq(rx, 1, k)
  <2>1. /\ rx' = SubSeq(rx, k + 1, Len(rx)) /\ phase = "body"
        /\ \/ frame' = g /\ UNCHANGED <<phase, status, response>>
           \/ /\ phase' = "idle" /\ frame' = <<>>
              /\ \/ g \in IntactReply /\ status' = "OK" /\ response' = g
                 \/ status' = "BAD_FRAME" /\ response' = <<>>
    BY DEF R!TakeBody, R!Return, R!ParseResponse
  <2>2. frame' = <<>> \/ frame' = g
    BY <2>1
  <2>3. /\ g \in Seq(Token) /\ Elems(g) \subseteq Flying
        /\ Precedes(g, rx') /\ Precedes(g, line')
        /\ frame' \in Seq(Token) /\ rx' \in Seq(Token)
        /\ Ordered' /\ Pending' \subseteq Pending
    BY <1>1, <2>1, <2>2, Consume
  <2>. HIDE DEF g
  <2>4. response \in Seq(Token) /\ status \in {"OK", "NO_RESPONSE", "ERR_IO", "BAD_FRAME"}
    BY DEF McInv, TypeOK
  <2>5. /\ phase' \in {"idle", "sof", "len", "body"}
        /\ status' \in {"OK", "NO_RESPONSE", "ERR_IO", "BAD_FRAME"}
        /\ response' \in Seq(Token)
        /\ phase' \in {"idle", "sof"} => frame' = <<>>
    BY <2>1, <2>3, <2>4, EmptySeq
  <2>6. Taken'
    <3>. SUFFICES ASSUME Accepted' PROVE
              /\ response' # <<>>
              /\ lastId' < AcceptedId' /\ AcceptedId' <= sent'
              /\ sent' <= AcceptedId' + debt'
              /\ \A i \in Pending' : AcceptedId' < i
      BY DEF Taken
    <3>1. g \in IntactReply /\ response' = g /\ frame' = <<>>
      BY <2>1 DEF Accepted, Replied
    <3>2. /\ Len(g) \in Nat /\ Len(g) >= 1 /\ DOMAIN g = 1 .. Len(g) /\ g # <<>>
      BY <2>3, <3>1, LenProperties DEF IntactReply
    <3>. DEFINE l == g[Len(g)]
    <3>3. /\ l.last /\ l.id = g[1].id /\ l \in Elems(g) /\ AcceptedId' = l.id
      <4>1. Len(g) \in DOMAIN g
        BY <3>2
      <4>2. l.last /\ l.id = g[1].id
        BY <3>1, <4>1 DEF IntactReply
      <4>3. l \in Elems(g)
        BY <4>1 DEF Elems
      <4>. QED  BY <3>1, <4>2, <4>3 DEF AcceptedId
    <3>. HIDE DEF l
    <3>4. l \in Flying /\ l.id \in Pending
      BY <2>3, <3>3 DEF Pending
    <3>5. lastId < l.id /\ l.id <= sent /\ sent <= l.id + debt
      BY <1>4, <3>4 DEF McInv, Fresh, Recent
    <3>6. \A y \in Flying' : l.id < y.id
      <4>1. Elems(frame') = {}
        BY <3>1, Nothing
      <4>2. \A y \in Elems(rx') \cup Elems(line') : Before(l, y)
        BY <2>3, <3>3 DEF Precedes
      <4>3. \A y \in Flying' : Before(l, y)
        BY <4>1, <4>2 DEF Flying
      <4>. QED  BY <3>3, <4>3 DEF Before
    <3>7. \A c \in Elems(cmds') : l.id < c.id
      BY <1>1, <3>4 DEF McInv, Ordered
    <3>8. \A i \in Pending' : l.id < i
      BY <3>6, <3>7 DEF Pending
    <3>. QED  BY <1>1, <3>1, <3>2, <3>3, <3>5, <3>8
  <2>. QED  BY <1>5, <2>3, <2>5, <2>6
<1>10. CASE \E s \in {"NO_RESPONSE", "ERR_IO"} : R!GiveUp(s)
  <2>1. /\ phase' = "idle" /\ frame' = <<>> /\ response' = <<>> /\ rx' = rx
        /\ status' \in {"NO_RESPONSE", "ERR_IO"}
    BY <1>10 DEF R!GiveUp, R!Return
  <2>2. /\ frame' \in Seq(Token) /\ rx' \in Seq(Token)
        /\ Ordered' /\ Pending' \subseteq Pending
    BY <1>1, <2>1, Discard
  <2>3. Taken'
    BY <2>1 DEF Taken, Accepted
  <2>. QED  BY <1>5, <2>1, <2>2, <2>3, EmptySeq
<1>. QED  BY <1>2, <1>7, <1>8, <1>9, <1>10 DEF R!Step

-----------------------------------------------------------------------------
(* Theorems.                                                               *)

LEMMA Invariance == Spec => []McInv
<1>1. McInv /\ [Next]_vars => McInv'
  <2>. SUFFICES ASSUME McInv, [Next]_vars PROVE McInv'
    OBVIOUS
  <2>. QED
    BY StutterInv, OpenInv, ExchangeInv, TransmitFailsInv, ReceiveInv, ReturnInv,
       CloseInv, KilledInv, AcceptInv, RejectInv, IgnoreInv, ArriveInv, LoseInv,
       DamageInv DEF Next
<1>. QED  BY InitInv, <1>1, PTL DEF Spec

(* Whatever is lost, damaged, late or killed, the reply a command accepts  *)
(* is at most as many commands old as exchanges have failed on this handle *)
(* since mcuco_open found a quiet line: receive_response never drifts      *)
(* further from its command than the timeouts account for.                 *)
THEOREM BoundedStaleness == Spec => []StalenessBound
<1>1. McInv => StalenessBound
  <2>. SUFFICES ASSUME McInv, Accepted PROVE sent - AcceptedId <= debt
    BY DEF StalenessBound
  <2>1. response # <<>> /\ response \in Seq(Token) /\ sent <= AcceptedId + debt
    BY DEF McInv, Taken, TypeOK
  <2>2. AcceptedId \in Nat
    <3>1. response[1] \in Token
      BY <2>1, HeadTail
    <3>. QED  BY <3>1 DEF Token, AcceptedId
  <2>. QED  BY <2>1, <2>2 DEF McInv, TypeOK
<1>. QED  BY Invariance, <1>1, PTL

(* Replies are accepted in the order of their commands and no reply twice, *)
(* across timeouts, damage, kills and reopened ports.                      *)
THEOREM RepliesInOrder == Spec => []ReplyOrder
<1>1. McInv => ReplyOrder
  <2>. SUFFICES ASSUME McInv, Accepted PROVE AcceptedId \in lastId + 1 .. sent
    BY DEF ReplyOrder
  <2>1. /\ response # <<>> /\ response \in Seq(Token)
        /\ lastId < AcceptedId /\ AcceptedId <= sent
    BY DEF McInv, Taken, TypeOK
  <2>2. AcceptedId \in Nat
    <3>1. response[1] \in Token
      BY <2>1, HeadTail
    <3>. QED  BY <3>1 DEF Token, AcceptedId
  <2>. QED  BY <2>1, <2>2 DEF McInv, TypeOK
<1>. QED  BY Invariance, <1>1, PTL

-----------------------------------------------------------------------------
(* McucoEffects: what the host may conclude about commands it cannot see   *)
(* being executed.                                                         *)

\* The bytes of replies that the host has or may still get.
Seen == Flying \cup Elems(response)

\* Commands are executed in the order they are sent, and those that wait are
\* later than those executed.
InTurn ==
    /\ executed \in Seq(Nat)
    /\ ExecutedOnce
    /\ \A i \in Elems(executed) : i <= sent
    /\ \A i \in Elems(executed), c \in Elems(cmds) : i < c.id

\* The ACK/NACK byte of a reply, unless damaged, tells whether its command was
\* executed; a reply has at least five bytes.
Truth(x) ==
    /\ x.last => x.pos >= 5
    /\ x.pos = 3 /\ ~x.bad => (x.val = NACK <=> x.id \notin Elems(executed))

Told == \A x \in Seen : Truth(x)

\* A command with an accepted reply does not wait any more.
Settled == \A x \in Elems(response), c \in Elems(cmds) : x.id < c.id

\* A reply is held from the end of receive_response to the return only.
Held ==
    /\ call = "none" \/ phase # "idle" => response = <<>>
    /\ response # <<>> => response \in IntactReply

EffectInv == McInv /\ InTurn /\ Told /\ Settled /\ Held

-----------------------------------------------------------------------------
(* Executed, in terms of Elems.                                            *)
LEMMA ExecutedElems ==
    ASSUME NEW id PROVE Executed(id) <=> id \in Elems(executed)
BY DEF Executed, Elems

(* Steps in which the firmware executes nothing and no command is sent: no *)
(* byte is new, or it is damaged.                                          *)
LEMMA NothingExecuted ==
    ASSUME EffectInv, executed' = executed, sent' = sent,
           Elems(cmds)' \subseteq Elems(cmds),
           Elems(response)' \subseteq Seen,
           \A x \in Flying' : x \in Seen \/ (x.bad /\ (x.last => x.pos >= 5))
    PROVE  InTurn' /\ Told' /\ Settled'
<1>1. InTurn'
  BY DEF EffectInv, InTurn, ExecutedOnce
<1>2. Told'
  BY DEF EffectInv, Told, Truth, Seen
<1>3. Settled'
  BY DEF EffectInv, McInv, Ordered, Settled, Seen
<1>. QED  BY <1>1, <1>2, <1>3

(* The same for steps that only move bytes or drop them.                   *)
LEMMA NothingNew ==
    ASSUME EffectInv, McInv', executed' = executed, sent' = sent,
           Elems(cmds)' \subseteq Elems(cmds), Flying' \subseteq Flying,
           UNCHANGED <<call, phase, response>> \/ response' = <<>>
    PROVE  EffectInv'
<1>1. Elems(response)' \subseteq Seen
  BY Nothing DEF Seen
<1>2. InTurn' /\ Told' /\ Settled'
  BY <1>1, NothingExecuted DEF Seen
<1>3. Held'
  BY DEF EffectInv, Held
<1>. QED  BY <1>2, <1>3 DEF EffectInv

-----------------------------------------------------------------------------
(* One lemma per action.                                                   *)

LEMMA ExchangeEffect ==
    ASSUME EffectInv, NEW op \in Op, Exchange(op), executed' = executed
    PROVE  EffectInv'
<1>. DEFINE c == [id |-> sent + 1, op |-> op]
<1>1. /\ call = "none" /\ sent' = sent + 1 /\ cmds' = Append(cmds, c)
      /\ UNCHANGED <<line, rx, status, response>> /\ frame' = <<>> /\ phase' = "sof"
  BY DEF Exchange, MayCall, R!Start
<1>2. response = <<>>
  BY <1>1 DEF EffectInv, Held
<1>3. Flying' \subseteq Flying /\ Elems(response)' = {}
  BY <1>1, <1>2, Nothing DEF Flying
<1>4. Elems(cmds)' \subseteq Elems(cmds) \cup {c} /\ sent \in Nat
  <2>1. cmds \in Seq(Command) /\ sent \in Nat
    BY DEF EffectInv, McInv, TypeOK
  <2>2. Len(cmds) \in Nat /\ DOMAIN cmds = 1 .. Len(cmds)
    BY <2>1, LenProperties
  <2>. HIDE DEF c
  <2>. QED  BY <1>1, <2>1, <2>2 DEF Elems
<1>5. InTurn'
  <2>1. \A i \in Elems(executed) : i \in Nat /\ i <= sent
    BY Elements DEF EffectInv, InTurn
  <2>2. \A i \in Elems(executed') : i <= sent'
    BY <1>1, <1>4, <2>1
  <2>3. \A i \in Elems(executed'), d \in Elems(cmds)' : i < d.id
    BY <1>4, <2>1 DEF EffectInv, InTurn
  <2>. QED  BY <2>2, <2>3 DEF EffectInv, InTurn, ExecutedOnce
<1>6. Told'
  BY <1>3 DEF EffectInv, Told, Truth, Seen
<1>7. Settled' /\ Held'
  BY <1>1, <1>2, <1>3 DEF Settled, Held
<1>8. McInv'
  BY ExchangeInv DEF EffectInv
<1>. QED  BY <1>5, <1>6, <1>7, <1>8 DEF EffectInv

(* Execution comes with an acknowledgement, and every command that still   *)
(* waits is a later one.                                                   *)
LEMMA ExecuteEffect ==
    ASSUME EffectInv, NEW v \in DataVal, Execute(v) PROVE EffectInv'
<1>. DEFINE c == Head(cmds)
            x == IF c.op = "probe" THEN PROBE_MAGIC ELSE v
            data == [i \in 1 .. Width[c.op] |-> x]
            r == Reply(c.id, ACK, data)
<1>1. /\ cmds # <<>> /\ line' = line \o r /\ cmds' = Handled(c)
      /\ UNCHANGED <<hostVars, faults, readerVars, history>>
      /\ executed' = Append(executed, c.id)
  BY DEF Execute, Accept
<1>2. UNCHANGED <<call, sent, phase, frame, rx, response>>
  BY <1>1 DEF hostVars, readerVars
<1>3. McInv /\ McInv'
  BY AcceptInv DEF EffectInv, Execute
<1>4. cmds' = Tail(cmds) \/ cmds' = <<>>
  BY <1>1 DEF Handled
<1>5. /\ c \in Elems(cmds) /\ c \in Command /\ Elems(cmds') \subseteq Elems(cmds)
      /\ \A d \in Elems(cmds') : c.id < d.id
  BY <1>1, <1>3, <1>4, Handle
<1>6. c.id \in 1 .. MaxCmds /\ c.op \in Op
  BY <1>5 DEF Command
<1>. HIDE DEF c
<1>7. ReplyOk(r, c.id, ACK)
  <2>. DEFINE w == Width[c.op]
  <2>1. x \in 0 .. 255 /\ w \in Nat /\ w <= MaxData /\ ACK \in 0 .. 255
    BY <1>6, McucoAssumption DEF PROBE_MAGIC, ACK
  <2>. HIDE DEF x, w
  <2>2. [i \in 1 .. w |-> x] \in Seq(0 .. 255) /\ Len([i \in 1 .. w |-> x]) = w
    BY <2>1
  <2>3. data \in Seq(0 .. 255) /\ Len(data) <= MaxData
    BY <2>1, <2>2 DEF w
  <2>. HIDE DEF data
  <2>. QED  BY <1>6, <2>1, <2>3, ReplyBytes, Zenon
<1>. HIDE DEF r
<1>8. Flying' = Flying \cup Elems(r)
  <2>1. Elems(line \o r) = Elems(line) \cup Elems(r)
    BY <1>3, <1>7, Join DEF McInv, TypeOK, ReplyOk
  <2>. QED  BY <1>1, <1>2, <2>1 DEF Flying
<1>9. /\ executed' \in Seq(Nat)
      /\ Elems(executed') = Elems(executed) \cup {c.id}
      /\ ExecutedOnce'
  <2>1. executed \in Seq(Nat) /\ ExecutedOnce /\ \A i \in Elems(executed) : i < c.id
    BY <1>5 DEF EffectInv, InTurn
  <2>2. Len(executed) \in Nat /\ DOMAIN executed = 1 .. Len(executed)
    BY <2>1, LenProperties
  <2>3. /\ executed' \in Seq(Nat) /\ Len(executed') = Len(executed) + 1
        /\ DOMAIN executed' = 1 .. Len(executed) + 1
        /\ \A i \in 1 .. Len(executed) : executed'[i] = executed[i]
        /\ executed'[Len(executed) + 1] = c.id
    BY <1>1, <1>6, <2>1, <2>2, AppendProperties
  <2>4. Elems(executed') = Elems(executed) \cup {c.id}
    BY <2>2, <2>3 DEF Elems
  <2>5. ExecutedOnce'
    <3>. SUFFICES ASSUME NEW j \in 1 .. Len(executed) + 1, NEW i \in 1 .. j - 1
                  PROVE  executed'[i] < executed'[j]
      BY <2>3 DEF ExecutedOnce
    <3>1. i \in 1 .. Len(executed) /\ executed'[i] = executed[i] /\ executed[i] \in Elems(executed)
      BY <2>2, <2>3 DEF Elems
    <3>2. CASE j = Len(executed) + 1
      BY <2>1, <2>3, <3>1, <3>2
    <3>3. CASE j # Len(executed) + 1
      <4>1. j \in 1 .. Len(executed)
        BY <2>2, <3>3
      <4>. QED  BY <2>1, <2>2, <2>3, <3>1, <4>1 DEF ExecutedOnce
    <3>. QED  BY <3>2, <3>3
  <2>. QED  BY <2>3, <2>4, <2>5
<1>10. InTurn'
  <2>1. c.id <= sent
    BY <1>3, <1>5 DEF McInv, Fresh, Pending
  <2>. QED  BY <1>2, <1>5, <1>9, <2>1 DEF EffectInv, InTurn
<1>11. Told'
  <2>. SUFFICES ASSUME NEW y \in Seen' PROVE Truth(y)'
    BY DEF Told
  <2>1. CASE y \in Elems(r)
    BY <1>7, <1>9, <2>1 DEF Truth, ReplyOk, ACK, NACK
  <2>2. CASE y \in Seen
    <3>1. y.id < c.id /\ Truth(y)
      BY <1>3, <1>5, <2>2 DEF EffectInv, Told, Settled, Seen, McInv, Ordered
    <3>2. y.id # c.id
      <4>1. y \in Token
        BY <1>3, <2>2, Ids, Elements DEF Seen, McInv, TypeOK
      <4>. QED  BY <1>6, <3>1, <4>1 DEF Token
    <3>. QED  BY <1>9, <3>1, <3>2 DEF Truth
  <2>. QED  BY <1>2, <1>8, <2>1, <2>2 DEF Seen
<1>12. Settled' /\ Held'
  BY <1>2, <1>5 DEF EffectInv, Settled, Held
<1>. QED  BY <1>3, <1>10, <1>11, <1>12 DEF EffectInv

(* A refusal comes for a command that is not executed before and, handled, *)
(* not after.                                                              *)
LEMMA RejectEffect ==
    ASSUME EffectInv, Reject, executed' = executed PROVE EffectInv'
<1>. DEFINE c == Head(cmds)
            r == Reply(c.id, NACK, <<3>>)
<1>1. /\ cmds # <<>> /\ line' = line \o r /\ cmds' = Tail(cmds)
      /\ UNCHANGED <<hostVars, faults, readerVars, history>>
  BY DEF Reject
<1>2. UNCHANGED <<call, sent, phase, frame, rx, response>>
  BY <1>1 DEF hostVars, readerVars
<1>3. McInv /\ McInv'
  BY RejectInv DEF EffectInv
<1>4. /\ c \in Elems(cmds) /\ c \in Command /\ Elems(cmds') \subseteq Elems(cmds)
  BY <1>1, <1>3, Handle
<1>5. c.id \in 1 .. MaxCmds
  BY <1>4 DEF Command
<1>. HIDE DEF c
<1>6. ReplyOk(r, c.id, NACK)
  <2>1. <<3>> \in Seq(0 .. 255) /\ Len(<<3>>) = 1 /\ NACK \in 0 .. 255
    BY DEF NACK
  <2>2. Len(<<3>>) <= MaxData
    BY <2>1, McucoAssumption
  <2>. QED  BY <1>5, <2>1, <2>2, ReplyBytes, Zenon
<1>. HIDE DEF r
<1>7. Flying' = Flying \cup Elems(r)
  <2>1. Elems(line \o r) = Elems(line) \cup Elems(r)
    BY <1>3, <1>6, Join DEF McInv, TypeOK, ReplyOk
  <2>. QED  BY <1>1, <1>2, <2>1 DEF Flying
<1>8. c.id \notin Elems(executed)
  <2>1. \A i \in Elems(executed) : i \in Nat /\ i < c.id
    BY <1>4, Elements DEF EffectInv, InTurn
  <2>. QED  BY <1>5, <2>1
<1>9. Told'
  BY <1>2, <1>6, <1>7, <1>8 DEF EffectInv, Told, Truth, Seen, ReplyOk
<1>10. InTurn' /\ Settled' /\ Held'
  BY <1>2, <1>4 DEF EffectInv, InTurn, ExecutedOnce, Settled, Held
<1>. QED  BY <1>3, <1>9, <1>10 DEF EffectInv

(* A damaged byte tells nothing any more.                                  *)
LEMMA DamageEffect ==
    ASSUME EffectInv, NEW v \in DataVal, Damage(v), executed' = executed
    PROVE  EffectInv'
<1>1. UNCHANGED <<call, sent, cmds, phase, response>>
  BY DEF Damage, hostVars, readerVars
<1>2. /\ McInv'
      /\ \A y \in Flying' : y \in Flying \/
            \E x \in Flying : y.bad /\ y.last = x.last /\ y.pos = x.pos
  BY DamageInv DEF EffectInv
<1>3. \A x \in Flying : x.last => x.pos >= 5
  BY DEF EffectInv, Told, Truth, Seen
<1>4. \A y \in Flying' : y \in Seen \/ (y.bad /\ (y.last => y.pos >= 5))
  BY <1>2, <1>3 DEF Seen
<1>5. Elems(response)' \subseteq Seen /\ Elems(cmds)' \subseteq Elems(cmds)
  BY <1>1 DEF Seen
<1>6. InTurn' /\ Told' /\ Settled'
  BY <1>1, <1>4, <1>5, NothingExecuted
<1>7. Held'
  BY <1>1 DEF EffectInv, Held
<1>. QED  BY <1>2, <1>6, <1>7 DEF EffectInv

(* The reply receive_response hands over was on its way before.            *)
LEMMA ReceiveEffect ==
    ASSUME EffectInv, Receive, executed' = executed PROVE EffectInv'
<1>1. UNCHANGED <<call, sent, cmds>>
  BY DEF Receive, hostVars, linkVars
<1>2. McInv /\ McInv'
  BY ReceiveInv DEF EffectInv
<1>3. /\ Flying' \subseteq Flying
      /\ \/ response' = response /\ phase' # "idle"
         \/ response' = <<>>
         \/ /\ phase' = "idle"
            /\ response' \in IntactReply
            /\ Elems(response') \subseteq Flying
  BY <1>2, StepBytes
<1>4. Elems(response') \subseteq Seen
  BY <1>3, Nothing DEF Seen
<1>5. \A y \in Flying' : y \in Seen
  BY <1>3 DEF Seen
<1>6. InTurn' /\ Told' /\ Settled'
  BY <1>1, <1>4, <1>5, NothingExecuted
<1>7. Held'
  <2>1. phase # "idle" /\ call # "none"
    BY <1>2 DEF Receive, R!Step, R!TakeSof, R!TakeLen, R!TakeBody, R!GiveUp, McInv, Control
  <2>2. response = <<>>
    BY <2>1 DEF EffectInv, Held
  <2>. QED  BY <1>1, <1>3, <2>1, <2>2 DEF Held
<1>. QED  BY <1>2, <1>6, <1>7 DEF EffectInv

(* The other steps of the host, the firmware and the line.                 *)
LEMMA QuietEffect ==
    ASSUME EffectInv, executed' = executed,
           \/ Open \/ (\E op \in Op : TransmitFails(op)) \/ Return \/ Close \/ Killed
           \/ Ignore \/ Arrive \/ Lose \/ UNCHANGED vars
    PROVE  EffectInv'
<1>. USE DEF hostVars, linkVars, readerVars, history
<1>0. McInv
  BY DEF EffectInv
<1>1. CASE Open
  <2>1. Flying' \subseteq Flying /\ McInv'
    BY <1>0, <1>1, Discard, OpenInv DEF Open
  <2>. QED  BY <1>1, <2>1, NothingNew DEF Open
<1>2. CASE \E op \in Op : TransmitFails(op)
  <2>1. PICK op \in Op : TransmitFails(op)
    BY <1>2
  <2>2. Flying' \subseteq Flying /\ McInv'
    BY <1>0, <2>1, Discard, TransmitFailsInv DEF TransmitFails
  <2>. QED  BY <2>1, <2>2, NothingNew DEF TransmitFails
<1>3. CASE Return
  <2>1. Flying' \subseteq Flying /\ McInv'
    BY <1>0, <1>3, Discard, ReturnInv DEF Return
  <2>. QED  BY <1>3, <2>1, NothingNew DEF Return
<1>4. CASE Close
  <2>1. Flying' \subseteq Flying /\ McInv'
    BY <1>0, <1>4, Discard, CloseInv DEF Close
  <2>. QED  BY <1>4, <2>1, NothingNew DEF Close
<1>5. CASE Killed
  <2>1. Flying' \subseteq Flying /\ McInv'
    BY <1>0, <1>5, Discard, KilledInv DEF Killed
  <2>. QED  BY <1>5, <2>1, NothingNew DEF Killed
<1>6. CASE Ignore
  <2>1. McInv' /\ Flying' \subseteq Flying
    BY <1>0, <1>6, IgnoreInv DEF Ignore, Flying
  <2>2. Elems(cmds') \subseteq Elems(cmds)
    BY <1>0, <1>6, Handle DEF Ignore
  <2>. QED  BY <1>6, <2>1, <2>2, NothingNew DEF Ignore
<1>7. CASE Arrive
  <2>1. McInv' /\ Flying' \subseteq Flying
    BY <1>0, <1>7, ArriveInv
  <2>. QED  BY <1>7, <2>1, NothingNew DEF Arrive, R!Arrive
<1>8. CASE Lose
  <2>1. McInv' /\ Flying' \subseteq Flying
    BY <1>0, <1>8, LoseInv
  <2>. QED  BY <1>8, <2>1, NothingNew DEF Lose
<1>9. CASE UNCHANGED vars
  <2>1. McInv' /\ Flying' \subseteq Flying
    BY <1>0, <1>9, StutterInv DEF vars, Flying
  <2>. QED  BY <1>9, <2>1, NothingNew DEF vars
<1>. QED  BY <1>1, <1>2, <1>3, <1>4, <1>5, <1>6, <1>7, <1>8, <1>9

LEMMA EffectInitInv == EffectInit => EffectInv
<1>. SUFFICES ASSUME EffectInit PROVE EffectInv
  OBVIOUS
<1>1. McInv
  BY InitInv DEF EffectInit
<1>2. /\ executed = <<>> /\ response = <<>> /\ frame = <<>> /\ rx = <<>>
      /\ line = <<>> /\ cmds = <<>>
  BY DEF EffectInit, Init, R!Init
<1>3. Seen = {} /\ Elems(executed) = {} /\ Elems(response) = {}
  BY <1>2, Nothing DEF Seen, Flying
<1>4. InTurn
  <2>1. executed \in Seq(Nat) /\ DOMAIN executed = {}
    BY <1>2, EmptySeq
  <2>. QED  BY <1>3, <2>1 DEF InTurn, ExecutedOnce
<1>. QED  BY <1>1, <1>2, <1>3, <1>4 DEF EffectInv, Told, Settled, Held

-----------------------------------------------------------------------------
(* Theorems.                                                               *)

LEMMA EffectInvariance == EffectSpec => []EffectInv
<1>1. EffectInv /\ [EffectNext]_effectVars => EffectInv'
  <2>. SUFFICES ASSUME EffectInv, [EffectNext]_effectVars PROVE EffectInv'
    OBVIOUS
  <2>1. CASE EffectNext
    BY <2>1, ExecuteEffect, ExchangeEffect, ReceiveEffect, RejectEffect, DamageEffect,
       QuietEffect DEF EffectNext
  <2>2. CASE UNCHANGED effectVars
    BY <2>2, QuietEffect DEF effectVars
  <2>. QED  BY <2>1, <2>2
<1>. QED  BY EffectInitInv, <1>1, PTL DEF EffectSpec

(* No command is executed twice and none after a later one, whatever times *)
(* out, is damaged, is killed or is opened again: transmit_command puts    *)
(* each frame on the line at most once and nothing is sent again.          *)
THEOREM ExecutedInOrder == EffectSpec => []ExecutedOnce
<1>1. EffectInv => ExecutedOnce
  BY DEF EffectInv, InTurn
<1>. QED  BY EffectInvariance, <1>1, PTL

(* As long as no exchange has failed since mcuco_open found a quiet line,  *)
(* the status of a command is the truth about its effect: success only     *)
(* after it was executed, a refusal only when it was not and cannot be.    *)
THEOREM TruthfulStatus == EffectSpec => []StatusIsTrue
<1>1. EffectInv => StatusIsTrue
  <2>. SUFFICES ASSUME EffectInv, Replied, debt = 0,
                       Outcome(call) \in {"OK", "NACK"}
                PROVE  /\ Outcome(call) = "OK" => Executed(sent)
                       /\ Outcome(call) = "NACK" => ~Executed(sent) /\ ~Waiting(sent)
    BY DEF StatusIsTrue
  <2>1. status \in {"OK", "NO_RESPONSE", "ERR_IO", "BAD_FRAME"}
    BY DEF EffectInv, McInv, TypeOK
  <2>2. status = "OK"
    BY <2>1 DEF Outcome
  <2>3. (Outcome(call) = "OK" => Ack) /\ (Outcome(call) = "NACK" => ~Ack)
    BY <2>2 DEF Outcome, StatusFromResponse
  <2>4. /\ response # <<>> /\ response \in Seq(Token)
        /\ AcceptedId <= sent /\ sent <= AcceptedId + debt
        /\ \A i \in Pending : AcceptedId < i
    BY <2>2 DEF EffectInv, McInv, Taken, TypeOK, Accepted
  <2>5. AcceptedId = sent
    <3>1. response[1] \in Token
      BY <2>4, HeadTail
    <3>2. AcceptedId \in Nat /\ sent \in Nat
      BY <3>1 DEF AcceptedId, Token, EffectInv, McInv, TypeOK
    <3>. QED  BY <2>4, <3>2
  <2>6. response \in IntactReply /\ Len(response) \in Nat /\ Len(response) >= 1
        /\ DOMAIN response = 1 .. Len(response)
    BY <2>4, LenProperties DEF EffectInv, Held
  <2>7. Len(response) >= 5
    <3>1. Len(response) \in DOMAIN response
      BY <2>6
    <3>2. response[Len(response)].last /\ response[Len(response)].pos = Len(response)
      BY <2>6, <3>1 DEF IntactReply
    <3>3. response[Len(response)] \in Seen
      BY <3>1 DEF Seen, Elems
    <3>. QED  BY <3>2, <3>3 DEF EffectInv, Told, Truth
  <2>. DEFINE b == response[3]
  <2>8. b \in Seen /\ b.pos = 3 /\ ~b.bad /\ b.id = sent
    <3>1. 3 \in DOMAIN response
      BY <2>6, <2>7
    <3>2. b.pos = 3 /\ ~b.bad /\ b.id = response[1].id
      BY <2>6, <3>1 DEF IntactReply
    <3>3. b \in Seen
      BY <3>1 DEF Seen, Elems
    <3>. QED  BY <2>5, <3>2, <3>3 DEF AcceptedId
  <2>9. Ack <=> Executed(sent)
    <3>1. b.val = NACK <=> sent \notin Elems(executed)
      BY <2>8 DEF EffectInv, Told, Truth
    <3>. QED  BY <3>1, ExecutedElems DEF Ack
  <2>10. ~Waiting(sent)
    <3>. SUFFICES ASSUME NEW i \in DOMAIN cmds, cmds[i].id = sent PROVE FALSE
      BY DEF Waiting
    <3>1. sent \in Pending
      BY DEF Pending, Elems
    <3>2. sent < sent /\ sent \in Nat
      BY <2>4, <2>5, <3>1 DEF EffectInv, McInv, TypeOK
    <3>. QED  BY <3>2
  <2>. QED  BY <2>3, <2>9, <2>10
<1>. QED  BY EffectInvariance, <1>1, PTL

=============================================================================
