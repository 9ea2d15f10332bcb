--------------------------- MODULE UartPort_proofs ---------------------------
(***************************************************************************)
(* Proofs about UartPort, for every set of processes.                      *)
(***************************************************************************)
EXTENDS UartPort, TLAPS

(* Inductive: a descriptor is open from open(2) on until it is closed; the *)
(* format and the speed have been verified before the port is claimed, and *)
(* no later open undoes them; and the flag set by a claim outlives every   *)
(* other process's close, because the claimer's own descriptor is open.    *)
PortInv ==
    /\ pc \in [Proc -> {"closed", "tcgetattr", "tcsetattr", "verify",
                        "tiocexcl", "fcntl", "held"}]
    /\ settings \in SUBSET Settings
    /\ excl \in BOOLEAN
    /\ \A p \in Proc :
          /\ p \in fds <=> pc[p] # "closed"
          /\ pc[p] \in {"tiocexcl", "fcntl", "held"} => Verified \subseteq settings
          /\ pc[p] \in {"fcntl", "held"} => excl
          /\ pc[p] = "held" => p \notin nonblock
    /\ excl => fds # {}

LEMMA PortInvInit == Init => PortInv
BY DEF Init, PortInv

(* Closing a descriptor, for whatever reason, keeps the invariant.         *)
LEMMA CloseInv ==
    ASSUME PortInv, NEW p \in Proc, pc' = [pc EXCEPT ![p] = "closed"], CloseFd(p)
    PROVE  PortInv'
<1>1. \A q \in Proc : pc'[q] = IF q = p THEN "closed" ELSE pc[q]
  BY DEF PortInv
<1>2. settings' = settings /\ fds' = fds \ {p} /\ nonblock' = nonblock \ {p}
  BY DEF CloseFd
<1>3. \A q \in Proc : pc'[q] \in {"fcntl", "held"} => excl'
  <2>. SUFFICES ASSUME NEW q \in Proc, pc'[q] \in {"fcntl", "held"}
                PROVE  excl'
    OBVIOUS
  <2>1. q # p /\ pc[q] \in {"fcntl", "held"}
    BY <1>1
  <2>2. excl /\ q \in fds'
    BY <2>1, <1>2 DEF PortInv
  <2>. QED  BY <2>2 DEF CloseFd
<1>4. excl' \in BOOLEAN /\ (excl' => fds' # {})
  BY DEF CloseFd
<1>5. pc' \in [Proc -> {"closed", "tcgetattr", "tcsetattr", "verify",
                        "tiocexcl", "fcntl", "held"}]
  BY DEF PortInv
<1>. QED  BY <1>1, <1>2, <1>3, <1>4, <1>5 DEF PortInv

LEMMA PortInvNext == PortInv /\ [Next]_vars => PortInv'
<1>. SUFFICES ASSUME PortInv, [Next]_vars PROVE PortInv'
  OBVIOUS
<1>1. ASSUME NEW p \in Proc, Open(p) PROVE PortInv'
  BY <1>1 DEF Open, At, PortInv
<1>2. ASSUME NEW p \in Proc, GetSettings(p) PROVE PortInv'
  BY <1>2 DEF GetSettings, At, PortInv
<1>3. ASSUME NEW p \in Proc, SetSettings(p) PROVE PortInv'
  BY <1>3 DEF SetSettings, At, PortInv
<1>4. ASSUME NEW p \in Proc, Verify(p) PROVE PortInv'
  BY <1>4 DEF Verify, At, PortInv
<1>5. ASSUME NEW p \in Proc, Claim(p) PROVE PortInv'
  BY <1>5 DEF Claim, At, PortInv
<1>6. ASSUME NEW p \in Proc, SetBlocking(p) PROVE PortInv'
  BY <1>6 DEF SetBlocking, At, PortInv
<1>7. ASSUME NEW p \in Proc, Fail(p) \/ Close(p) \/ Killed(p) PROVE PortInv'
  BY <1>7, CloseInv DEF Fail, Close, Killed, At
<1>8. CASE UNCHANGED vars
  BY <1>8 DEF vars, PortInv
<1>. QED
  BY <1>1, <1>2, <1>3, <1>4, <1>5, <1>6, <1>7, <1>8 DEF Next

LEMMA PortInvariance == Spec => []PortInv
BY PortInvInit, PortInvNext, PTL DEF Spec

(* uart_open leaves nothing open when it fails, and no stale claim.        *)
THEOREM NoLeak == Spec => []NothingLeftOpen
<1>1. PortInv => NothingLeftOpen
  BY DEF PortInv, NothingLeftOpen
<1>. QED  BY <1>1, PortInvariance, PTL

(* Every handle uart_open returns sends 8N1 at 115200 and blocks, whatever *)
(* tcsetattr applied; nothing is claimed of the settings not read back.    *)
THEOREM Configured == Spec => []HeldIsConfigured
<1>1. PortInv => HeldIsConfigured
  BY DEF PortInv, HeldIsConfigured, Held
<1>. QED  BY <1>1, PortInvariance, PTL

(* Once a process holds the port, every later uart_open fails.             *)
THEOREM LateOpen == Spec => LateOpenRefused
<1>. DEFINE Refused == \A p \in Proc : pc[p] = "closed" /\ pc'[p] # "closed"
                            => \A q \in Proc : ~Held(q)
<1>1. PortInv /\ [Next]_vars => [Refused]_vars
  <2>. SUFFICES ASSUME PortInv, Next,
                       NEW p \in Proc, pc[p] = "closed", pc'[p] # "closed",
                       NEW q \in Proc, Held(q)
                PROVE  FALSE
    BY DEF vars
  <2>1. excl
    BY DEF PortInv, Held
  <2>2. PICK r \in Proc : \/ Open(r) \/ GetSettings(r) \/ SetSettings(r)
                          \/ Verify(r) \/ Claim(r) \/ SetBlocking(r)
                          \/ Fail(r) \/ Close(r) \/ Killed(r)
    BY DEF Next
  <2>3. r = p
    BY <2>2 DEF PortInv, Open, GetSettings, SetSettings, Verify, Claim,
                SetBlocking, Fail, Close, Killed, At
  <2>. QED
    BY <2>1, <2>2, <2>3 DEF PortInv, Open, GetSettings, SetSettings, Verify,
                Claim, SetBlocking, Fail, Close, Killed, At
<1>2. LateOpenRefused <=> [][Refused]_vars
  BY DEF LateOpenRefused
<1>. QED  BY <1>1, <1>2, PortInvariance, PTL DEF Spec

=============================================================================
