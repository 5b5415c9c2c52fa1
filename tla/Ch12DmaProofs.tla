---------------------------- MODULE Ch12DmaProofs ----------------------------
(***************************************************************************)
(* Proofs about Ch12Dma for every set of payload lengths, every bound on   *)
(* the calls, every poll budget and every device index modulus.            *)
(*                                                                         *)
(* The inductive invariant says why the properties hold. The host index    *)
(* goes from 0 to 1 at the first doorbell and stays there, and the device  *)
(* index follows it once (IndexInv). Between the two moments the engine    *)
(* has one descriptor to fetch, and unless a call has timed out the driver *)
(* is still polling inside the very first call, so that the memory the     *)
(* device sees is frozen at that call's packet (FrozenInv).                *)
(***************************************************************************)
EXTENDS Ch12Dma, TLAPS

(* What the driver has prepared by the time it reaches each step.          *)
CallInv ==
    /\ pc # "idle" => ring = "ready" /\ sends >= 1
    /\ pc \in {"bd", "doorbell"} => buf = [call |-> sends, bytes |-> TotalSize(len)]
    /\ pc = "doorbell" => bd = TotalSize(len)
    /\ pc = "poll" => hostIdx = Wrap(1) /\ polls >= 1
    /\ ring = "none" => sends = 0
    /\ timedOut => sends >= 1 /\ (pc # "idle" => sends >= 2)
    /\ buf.call <= sends /\ dmaBuf.call <= sends

(* How the two halves of the index register and the engine move together.  *)
IndexInv ==
    /\ hwIdx = 0 => received = <<>> /\ acked = {}
    /\ hwIdx = 1 => /\ hostIdx = 1 /\ engine = "idle"
                    /\ \E p \in Packets : received = <<p>>
    /\ hostIdx = 1 => IdxModulus # 1 /\ sends >= 1
    /\ engine = "fetch" => hostIdx = 1
    /\ hostIdx = 0 /\ IdxModulus # 1 =>
          /\ ~timedOut
          /\ IF pc = "idle" THEN sends = 0 ELSE sends = 1

(* While the first descriptor is posted and nothing has timed out, nobody  *)
(* moves the memory under the engine.                                      *)
FrozenInv ==
    ~timedOut /\ hostIdx = 1 /\ hwIdx = 0 =>
        /\ pc = "poll" /\ sends = 1
        /\ buf = [call |-> 1, bytes |-> TotalSize(len)] /\ bd = TotalSize(len)
        /\ dmaBuf = buf /\ dmaBd = bd
        /\ engine = "fetch" => latched = bd

FirstInv ==
    /\ ~timedOut /\ hwIdx = 1 => received = <<1>>
    /\ 1 \in acked => received = <<1>>

IInv == TypeOK /\ CallInv /\ IndexInv /\ FrozenInv /\ FirstInv

-----------------------------------------------------------------------------

(* The u16 arithmetic of total_size yields a natural number.               *)
LEMMA TotalSizeNat == ASSUME NEW n \in Nat PROVE TotalSize(n) \in Nat
<1>1. \A m \in Nat : m % 65536 \in Nat
  OBVIOUS
<1>2. (4 + n) % 65536 \in Nat
  <2>1. 4 + n \in Nat
    OBVIOUS
  <2>2. QED
    BY <1>1, <2>1
<1>3. 24 + ((4 + n) % 65536) \in Nat
  BY <1>2
<1>4. (24 + ((4 + n) % 65536)) % 65536 \in Nat
  BY <1>1, <1>3
<1>5. QED
  BY <1>4 DEF TotalSize

(* The invariant holds initially. *)
LEMMA InitIInv == Init => IInv
<1> SUFFICES ASSUME Init PROVE IInv
  OBVIOUS
<1> USE BoundAssumption DEF Init, NoPacket, Packets
<1>1. TypeOK
  <2>1. received \in Seq(Packets) /\ acked \subseteq Packets /\ sends \in Packets
    OBVIOUS
  <2>2. buf \in [call : Packets, bytes : Nat] /\ dmaBuf \in [call : Packets, bytes : Nat]
    OBVIOUS
  <2>3. len \in 0..2020 /\ polls \in 0..PollBudget
    OBVIOUS
  <2>4. /\ pc \in {"idle", "fill", "bd", "doorbell", "poll"}
        /\ ring \in {"none", "ready", "released"}
        /\ ret \in {"none", "ok", "timeout", "refused"}
        /\ engine \in {"idle", "fetch"}
    OBVIOUS
  <2>5. /\ bd \in Nat /\ dmaBd \in Nat /\ latched \in Nat
        /\ hostIdx \in {0, 1} /\ hwIdx \in {0, 1} /\ timedOut \in BOOLEAN
    OBVIOUS
  <2>6. QED
    BY <2>1, <2>2, <2>3, <2>4, <2>5 DEF TypeOK
<1>2. CallInv /\ FrozenInv /\ FirstInv
  BY DEF CallInv, FrozenInv, FirstInv
<1>3. IndexInv
  BY DEF IndexInv
<1>4. QED
  BY <1>1, <1>2, <1>3 DEF IInv

(* Every action, and the stuttering step, preserves the invariant. *)
LEMMA NextIInv == IInv /\ [Next]_vars => IInv'
<1> SUFFICES ASSUME IInv, [Next]_vars PROVE IInv'
  OBVIOUS
<1> USE BoundAssumption DEF IInv, Packets
<1>1. len \in Nat /\ TotalSize(len) \in Nat
  <2>1. len \in Nat
    BY DEF TypeOK
  <2>2. QED
    BY <2>1, TotalSizeNat
<1>2. CASE RingInit
  BY <1>1, <1>2
  DEF RingInit, TypeOK, CallInv, IndexInv, FrozenInv, FirstInv, hwVars, histVars
<1>3. CASE SendRefused
  BY <1>1, <1>3
  DEF SendRefused, TypeOK, CallInv, IndexInv, FrozenInv, FirstInv, cpuVars, dmaVars,
      hwVars, histVars
<1>4. ASSUME NEW n \in Lens, SendBegin(n) PROVE IInv'
  BY <1>1, <1>4, LensAssumption
  DEF SendBegin, Transition, NoPacket, TypeOK, CallInv, IndexInv, FrozenInv, FirstInv,
      dmaVars, hwVars, histVars
<1>5. CASE FillBuffer
  BY <1>1, <1>5
  DEF FillBuffer, Transition, TypeOK, CallInv, IndexInv, FrozenInv, FirstInv, dmaVars,
      hwVars, histVars
<1>6. CASE WriteBd
  BY <1>1, <1>6
  DEF WriteBd, Transition, TypeOK, CallInv, IndexInv, FrozenInv, FirstInv, dmaVars,
      hwVars, histVars
<1>7. CASE Doorbell
  BY <1>1, <1>7
  DEF Doorbell, Barrier, Wrap, Transition, TypeOK, CallInv, IndexInv, FrozenInv, FirstInv,
      cpuVars, hwVars, histVars
<1>8. CASE PollDone
  BY <1>1, <1>8
  DEF PollDone, Transition, TypeOK, CallInv, IndexInv, FrozenInv, FirstInv, cpuVars,
      dmaVars, hwVars
<1>9. CASE PollAgain
  BY <1>1, <1>9
  DEF PollAgain, TypeOK, CallInv, IndexInv, FrozenInv, FirstInv, cpuVars, dmaVars, hwVars,
      histVars
<1>10. CASE PollTimeout
  BY <1>1, <1>10
  DEF PollTimeout, Transition, Wrap, TypeOK, CallInv, IndexInv, FrozenInv, FirstInv,
      cpuVars, dmaVars, hwVars
<1>11. CASE Release
  BY <1>1, <1>11
  DEF Release, TypeOK, CallInv, IndexInv, FrozenInv, FirstInv, cpuVars, dmaVars, hwVars,
      histVars
<1>12. CASE DrainBuf
  BY <1>1, <1>12
  DEF DrainBuf, TypeOK, CallInv, IndexInv, FrozenInv, FirstInv, drvVars, cpuVars, hwVars,
      histVars
<1>13. CASE DrainBd
  BY <1>1, <1>13
  DEF DrainBd, TypeOK, CallInv, IndexInv, FrozenInv, FirstInv, drvVars, cpuVars, hwVars,
      histVars
<1>14. CASE EngineLatch
  BY <1>1, <1>14
  DEF EngineLatch, Pending, TypeOK, CallInv, IndexInv, FrozenInv, FirstInv, drvVars,
      cpuVars, dmaVars, histVars
<1>15. CASE EngineFetch
  <2>1. hwIdx = 0 /\ received = <<>> /\ IdxModulus # 1
    BY <1>15 DEF EngineFetch, TypeOK, IndexInv
  <2>2. Fetched \in Packets
    BY DEF Fetched, TypeOK
  <2>3. hwIdx' = 1 /\ received' = <<Fetched>>
    BY <1>15, <2>1 DEF EngineFetch, Wrap
  <2>4. ~timedOut => Fetched = 1
    BY <1>15, <2>1 DEF EngineFetch, Fetched, FrozenInv, CallInv, IndexInv
  <2>5. QED
    BY <1>1, <1>15, <2>1, <2>2, <2>3, <2>4
    DEF EngineFetch, TypeOK, CallInv, IndexInv, FrozenInv, FirstInv, drvVars, cpuVars,
        dmaVars, histVars
<1>16. CASE UNCHANGED vars
  BY <1>16
  DEF vars, drvVars, cpuVars, dmaVars, hwVars, histVars, TypeOK, CallInv, IndexInv,
      FrozenInv, FirstInv
<1>17. QED
  BY <1>2, <1>3, <1>4, <1>5, <1>6, <1>7, <1>8, <1>9, <1>10, <1>11, <1>12, <1>13, <1>14,
     <1>15, <1>16
  DEF Next, Driver, Memory, Engine

(* The inductive invariant holds in every reachable state. *)
LEMMA SpecIInv == Spec => []IInv
  BY InitIInv, NextIInv, PTL DEF Spec

-----------------------------------------------------------------------------

(* Every variable of the model keeps its type (pci.c:89-145). *)
THEOREM TypeCorrect == Spec => []TypeOK
  BY SpecIInv, PTL DEF IInv

(* However many packets are sent, the device takes at most one, because    *)
(* every doorbell of pci.c:127 writes the same index.                      *)
THEOREM DeviceTakesOne == Spec => []AtMostOneFetch
<1>1. IInv => AtMostOneFetch
  <2>1. IInv => received = <<>> \/ \E p \in Packets : received = <<p>>
    BY DEF IInv, IndexInv, TypeOK
  <2>2. Len(<<>>) <= 1 /\ \A p : Len(<<p>>) <= 1
    OBVIOUS
  <2>3. QED
    BY <2>1, <2>2 DEF AtMostOneFetch
<1>2. QED
  BY <1>1, SpecIInv, PTL

(* A return of 0 means the device has taken a packet (pci.c:131-144).      *)
THEOREM SuccessIsTaken == Spec => []SuccessMeansTaken
<1>1. IInv => SuccessMeansTaken
  <2>1. \A p : <<p>> # <<>>
    OBVIOUS
  <2>2. IInv /\ acked # {} => \E p \in Packets : received = <<p>>
    BY DEF IInv, IndexInv, TypeOK
  <2>3. QED
    BY <2>1, <2>2 DEF SuccessMeansTaken
<1>2. QED
  BY <1>1, SpecIInv, PTL

(* Until a call times out the device has only ever seen the first packet,  *)
(* whole (pci.c:108-128).                                                  *)
THEOREM CleanDelivery == Spec => []CleanUntilTimeout
<1>1. IInv => CleanUntilTimeout
  BY DEF IInv, IndexInv, FirstInv, TypeOK, CleanUntilTimeout
<1>2. QED
  BY <1>1, SpecIInv, PTL

(* The first call that reports success has delivered its own packet.       *)
THEOREM FirstHonest == Spec => []FirstSendHonest
<1>1. IInv => FirstSendHonest
  BY DEF IInv, FirstInv, FirstSendHonest
<1>2. QED
  BY <1>1, SpecIInv, PTL

(* A device that honours TXBD_NUM = 1 never completes anything.            *)
THEOREM OneBdDead == Spec => []OneBdNeverCompletes
<1>1. IInv => OneBdNeverCompletes
  BY DEF IInv, IndexInv, TypeOK, OneBdNeverCompletes
<1>2. QED
  BY <1>1, SpecIInv, PTL

(* The driver does not disturb memory the device may fetch until a call    *)
(* has timed out (pci.c:108, RealtekWifi.cpp:127-131).                     *)
THEOREM MemoryFrozen == Spec => NoRewriteUnderFetch
<1>1. IInv /\ [Next]_vars => [~timedOut /\ Pending => UNCHANGED <<buf, bd, ring>>]_vars
  <2> SUFFICES ASSUME IInv, Next, ~timedOut, Pending PROVE UNCHANGED <<buf, bd, ring>>
    OBVIOUS
  <2>1. hostIdx = 1 /\ hwIdx = 0
    BY DEF Pending, IInv, IndexInv, TypeOK
  <2>2. pc = "poll" /\ ring = "ready"
    BY <2>1 DEF IInv, FrozenInv, CallInv
  <2>3. QED
    BY <2>2
    DEF Next, Driver, Memory, Engine, RingInit, SendRefused, SendBegin, FillBuffer, WriteBd,
        Doorbell, PollDone, PollAgain, PollTimeout, Release, DrainBuf, DrainBd,
        EngineLatch, EngineFetch, Transition, cpuVars, drvVars
<1>2. QED
  BY <1>1, SpecIInv, PTL DEF Spec, NoRewriteUnderFetch

-----------------------------------------------------------------------------

(* Each step of the ring is a step of the mailbox or leaves it alone.      *)
LEMMA StepMailbox == IInv /\ IInv' /\ [Next]_vars => [Mailbox!Next]_(Mailbox!vars)
<1> SUFFICES ASSUME IInv, [Next]_vars PROVE [Mailbox!Next]_(Mailbox!vars)
  OBVIOUS
<1> USE DEF Mailbox!vars, Mailbox!Next
<1>1. ASSUME NEW n \in Lens, SendBegin(n) PROVE Mailbox!Begin
  BY <1>1 DEF SendBegin, Transition, hwVars, histVars, Mailbox!Begin
<1>2. CASE PollDone
  <2>1. Mailbox!Succeed
    BY <1>2 DEF PollDone, Transition, hwVars, Mailbox!Succeed, IInv, IndexInv
  <2>2. QED
    BY <2>1
<1>3. CASE PollTimeout
  <2>1. Mailbox!Fail
    BY <1>3 DEF PollTimeout, Transition, hwVars, Mailbox!Fail, IInv, IndexInv, TypeOK
  <2>2. QED
    BY <2>1
<1>4. CASE EngineFetch
  <2>1. hwIdx = 0 /\ received = <<>> /\ hostIdx = 1
    BY <1>4 DEF EngineFetch, IInv, TypeOK, IndexInv
  <2>. received' = <<Fetched>>
    BY <1>4, <2>1 DEF EngineFetch
  <2>2. CASE timedOut
    <3>1. Fetched \in 0..sends
      BY DEF Fetched, IInv, TypeOK, CallInv, Packets
    <3>2. Mailbox!TakeLate
      BY <1>4, <2>1, <2>2, <3>1 DEF EngineFetch, drvVars, histVars, Mailbox!TakeLate
    <3>3. QED
      BY <3>2
  <2>3. CASE ~timedOut
    <3>1. Mailbox!TakeCurrent
      BY <1>4, <2>1, <2>3
      DEF EngineFetch, Fetched, drvVars, histVars, Mailbox!TakeCurrent, IInv, FrozenInv,
          CallInv
    <3>2. QED
      BY <3>1
  <2>4. QED
    BY <2>2, <2>3
<1>5. CASE \/ RingInit \/ SendRefused \/ FillBuffer \/ WriteBd \/ Doorbell
           \/ PollAgain \/ Release \/ DrainBuf \/ DrainBd \/ EngineLatch \/ UNCHANGED vars
  <2>1. UNCHANGED Mailbox!vars
    BY <1>5
    DEF RingInit, SendRefused, FillBuffer, WriteBd, Doorbell, PollAgain, Release, DrainBuf,
        DrainBd, EngineLatch, Transition, vars, drvVars, hwVars, histVars
  <2>2. QED
    BY <2>1
<1>6. QED
  BY <1>1, <1>2, <1>3, <1>4, <1>5 DEF Next, Driver, Memory, Engine

(* The ring implements the mailbox that is emptied at most once.           *)
THEOREM RingImplementsMailbox == Spec => ImplementsMailbox
<1>1. Init => Mailbox!Init
  BY DEF Init, Mailbox!Init
<1>2. QED
  BY <1>1, StepMailbox, SpecIInv, PTL DEF Spec, ImplementsMailbox, Mailbox!Spec

-----------------------------------------------------------------------------

(* What remains of the running call: its stores, the doorbell and the      *)
(* reads of the index register it has left.                                *)
Left ==
    IF pc = "poll" THEN polls
    ELSE IF pc = "idle" THEN 0
    ELSE PollBudget + (IF pc = "fill" THEN 3 ELSE IF pc = "bd" THEN 2 ELSE 1)

(* Inside a call something is left to do, and while there is one of        *)
(* FillBuffer, WriteBd, Doorbell and the three outcomes of a read can be   *)
(* taken.                                                                  *)
LeftInCall == IF pc = "idle" THEN Left = 0 ELSE Left \in 1..PollBudget + 3

(* Nobody but the call itself changes what it has left, and every step of  *)
(* the call takes some of it away.                                         *)
CallShortens ==
    [][pc # "idle" => IF SendProgress THEN Left' < Left ELSE UNCHANGED <<pc, polls>>]_vars

(* Whatever the engine and the memory system do, a call of send_h2c is     *)
(* over after at most three steps and the reads of its poll budget         *)
(* (pci.c:104-144).                                                        *)
THEOREM CallIsBounded == Spec => []LeftInCall /\ CallShortens
<1>1. IInv => LeftInCall
  BY BoundAssumption DEF IInv, TypeOK, CallInv, LeftInCall, Left
<1>2. IInv /\ IInv' /\ [Next]_vars =>
        [pc # "idle" => IF SendProgress THEN Left' < Left ELSE UNCHANGED <<pc, polls>>]_vars
  <2> SUFFICES ASSUME IInv, IInv', Next, pc # "idle"
               PROVE  IF SendProgress THEN Left' < Left ELSE UNCHANGED <<pc, polls>>
    OBVIOUS
  <2>1. CASE SendProgress
    <3> SUFFICES Left' < Left
      BY <2>1
    <3>1. polls \in Nat /\ polls' \in Nat
      BY BoundAssumption DEF IInv, TypeOK
    <3>2. CASE FillBuffer \/ WriteBd
      BY <3>2, BoundAssumption DEF FillBuffer, WriteBd, Transition, Left
    <3>3. CASE Doorbell
      BY <3>1, <3>3, BoundAssumption DEF Doorbell, Transition, Left
    <3>4. CASE PollDone \/ PollTimeout
      BY <3>1, <3>4 DEF PollDone, PollTimeout, Transition, Left, IInv, CallInv
    <3>5. CASE PollAgain
      BY <3>1, <3>5 DEF PollAgain, Left
    <3>6. QED
      BY <2>1, <3>2, <3>3, <3>4, <3>5 DEF SendProgress
  <2>2. CASE ~SendProgress
    <3>1. UNCHANGED <<pc, polls>>
      BY <2>2
      DEF Next, Driver, Memory, Engine, SendProgress, RingInit, SendRefused, SendBegin, Release,
          DrainBuf, DrainBd, EngineLatch, EngineFetch, Transition, drvVars
    <3>2. QED
      BY <2>2, <3>1
  <2>3. QED
    BY <2>1, <2>2
<1>3. QED
  BY <1>1, <1>2, SpecIInv, PTL DEF Spec, CallShortens

(* The promise of section-by-section delivery cannot be kept for two       *)
(* calls: of the calls that returned 0 at most one has delivered its       *)
(* packet, so that the promise holds only while one call has (pci.c:127,   *)
(* 131, src/README.md:14).                                                 *)
THEOREM OneDeliveryAtMost ==
    Spec => [](EverySuccessDelivered => \A m, n \in acked : m = n)
<1>1. IInv => (EverySuccessDelivered => \A m, n \in acked : m = n)
  <2> SUFFICES ASSUME IInv, EverySuccessDelivered, NEW m \in acked, NEW n \in acked
               PROVE  m = n
    OBVIOUS
  <2>1. PICK p \in Packets : received = <<p>>
    BY DEF IInv, TypeOK, IndexInv
  <2>2. \A k \in 1..Len(received) : received[k] = p
    BY <2>1
  <2>3. m = p /\ n = p
    BY <2>2 DEF EverySuccessDelivered
  <2>4. QED
    BY <2>3
<1>2. QED
  BY <1>1, SpecIInv, PTL
=============================================================================
