--------------------------- MODULE Rtw88PciProofs ----------------------------
(***************************************************************************)
(* Proofs about Rtw88Pci for any rings, any number of descriptors, buffers *)
(* and events and any width of the count.                                  *)
(***************************************************************************)
EXTENDS Rtw88Pci, TLAPS

Places == {"idle", "read", "ack", "h2c", "mpdu"}

(* What the handler has in its hands, and what it has read and not yet     *)
(* cleared, is still set.                                                  *)
IrqInv ==
    /\ hisr \subseteq Kinds /\ seen \subseteq Kinds /\ at \in Places
    /\ raised \in [Kinds -> Nat] /\ handled \in [Kinds -> Nat]
    /\ at \in {"idle", "read"} => seen = {}
    /\ at = "ack" => seen \subseteq hisr
    /\ RaisedOnceHandledOnce

CountInv ==
    /\ head \in 0..TotalDesc - 1 /\ qlen \in 0..CountMod - 1
    /\ CountIsDistance

-----------------------------------------------------------------------------

Lifetime ==
    \/ SetupAllocates \/ SetupFails \/ SetupDone
    \/ AllocDev \/ CoreInit \/ CoreDeinit \/ FreeDev

LEMMA StepKinds ==
  ASSUME [Next]_vars
  PROVE  \/ Lifetime
         \/ Call \/ ReadStatus \/ Ack \/ H2cDone \/ MpduReceived
         \/ (\E k \in Kinds : Event(k))
         \/ UNCHANGED vars
BY Zenon DEF Next, Lifetime

LEMMA LifetimeKeeps == ASSUME Lifetime PROVE UNCHANGED irqVars
BY Zenon
DEF Lifetime, SetupAllocates, SetupFails, SetupDone, AllocDev, CoreInit, CoreDeinit, FreeDev

LEMMA IrqKept ==
  ASSUME IrqInv, UNCHANGED <<hisr, at, seen, raised, handled>>
  PROVE  IrqInv'
BY Zenon DEF IrqInv, RaisedOnceHandledOnce, InHand

LEMMA IrqInit == Init => IrqInv
BY DEF Init, IrqInv, Kinds, Places, RaisedOnceHandledOnce, InHand, One

(* The handler and the device, in whatever order their steps come.         *)
LEMMA IrqStep ==
  ASSUME IrqInv, [Next]_vars
  PROVE  IrqInv'
<1> USE DEF ringVars
<1>1. CASE Lifetime
  BY <1>1, LifetimeKeeps, IrqKept DEF irqVars
<1>2. CASE Call
  BY <1>2 DEF Call, IrqInv, Places, RaisedOnceHandledOnce, InHand, One
<1>3. CASE ReadStatus
  BY <1>3 DEF ReadStatus, IrqInv, Places, RaisedOnceHandledOnce, InHand, One
<1>4. CASE Ack
  BY <1>4 DEF Ack, IrqInv, Places, RaisedOnceHandledOnce, InHand, One
<1>5. CASE H2cDone
  BY <1>5 DEF H2cDone, Handle, IrqInv, Places, RaisedOnceHandledOnce, InHand, One, Kinds
<1>6. CASE MpduReceived
  BY <1>6 DEF MpduReceived, Handle, IrqInv, Places, RaisedOnceHandledOnce, InHand, One, Kinds
<1>7. ASSUME NEW k \in Kinds, Event(k) PROVE IrqInv'
  BY <1>7 DEF Event, IrqInv, Places, RaisedOnceHandledOnce, InHand, One, Kinds
<1>8. CASE UNCHANGED vars
  BY <1>8, IrqKept DEF vars, irqVars
<1>9. QED
  BY <1>1, <1>2, <1>3, <1>4, <1>5, <1>6, <1>7, <1>8, StepKinds

(* Every raising of a bit is handled once, also one that falls between the *)
(* read of HISR and the write that clears it (pci.c:142-157).              *)
THEOREM Handled == Spec => []RaisedOnceHandledOnce
<1>1. IrqInv => RaisedOnceHandledOnce
  BY DEF IrqInv
<1>2. QED
  BY <1>1, IrqInit, IrqStep, PTL DEF Spec

(* Remainders.                                                             *)
LEMMA Remainder ==
  ASSUME NEW x \in Int, NEW t \in Nat \ {0}
  PROVE  /\ (x % t) \in 0..t - 1 /\ x \div t \in Int
         /\ x = t * (x \div t) + (x % t)
<1>1. (x % t) \in 0..t - 1
  OBVIOUS
<1>2. x \div t \in Int
  OBVIOUS
<1>3. x = t * (x \div t) + (x % t)
  OBVIOUS
<1>4. QED
  BY <1>1, <1>2, <1>3

LEMMA SameRemainder ==
  ASSUME NEW t \in Nat \ {0}, NEW a \in Int, NEW b \in Int,
         NEW r \in 0..t - 1, NEW s \in 0..t - 1, t * a + r = t * b + s
  PROVE  r = s
<1>1. CASE a = b
  BY <1>1
<1>2. CASE a > b
  <2>1. PICK d \in Nat : a = b + 1 + d
    <3>1. a - b - 1 \in Nat /\ a = b + 1 + (a - b - 1)
      BY <1>2
    <3>2. QED
      BY <3>1
  <2>2. t * a = t * b + t + t * d
    BY <2>1
  <2>3. t * d \in Nat
    BY <2>1
  <2>4. t * a \in Int /\ t * b \in Int
    OBVIOUS
  <2>5. QED
    BY <2>2, <2>3, <2>4
<1>3. CASE b > a
  <2>1. PICK d \in Nat : b = a + 1 + d
    <3>1. b - a - 1 \in Nat /\ b = a + 1 + (b - a - 1)
      BY <1>3
    <3>2. QED
      BY <3>1
  <2>2. t * b = t * a + t + t * d
    BY <2>1
  <2>3. t * d \in Nat
    BY <2>1
  <2>4. t * a \in Int /\ t * b \in Int
    OBVIOUS
  <2>5. QED
    BY <2>2, <2>3, <2>4
<1>4. QED
  BY <1>1, <1>2, <1>3

LEMMA ShiftRemainder ==
  ASSUME NEW t \in Nat \ {0}, NEW x \in Int, NEW c \in Int
  PROVE  (x + t * c) % t = (x % t)
<1> DEFINE y == x + t * c
           a == y \div t
           b == x \div t
           r == y % t
           s == x % t
<1>1. y \in Int /\ y = x + t * c
  OBVIOUS
<1> HIDE DEF y
<1>2. /\ y = t * a + r /\ a \in Int /\ r \in 0..t - 1
      /\ x = t * b + s /\ b \in Int /\ s \in 0..t - 1
  BY <1>1, Remainder
<1> HIDE DEF a, b, r, s
<1>3. t * (b + c) = t * b + t * c /\ b + c \in Int
  BY <1>2
<1>4. t * a + r = t * (b + c) + s
  <2>1. t * a \in Int /\ t * b \in Int /\ t * c \in Int
    BY <1>2
  <2>2. QED
    BY <1>1, <1>2, <1>3, <2>1
<1>5. r = s
  BY <1>2, <1>3, <1>4, SameRemainder
<1>6. QED
  BY <1>5 DEF r, s, y

LEMMA CountInit == Init => CountInv
<1>1. (0 % TotalDesc) = 0
  <2>1. 0 = TotalDesc * 0 + 0 /\ TotalDesc \in Nat \ {0}
    BY RingsAssumption
  <2>2. /\ 0 \div TotalDesc \in Int /\ (0 % TotalDesc) \in 0..TotalDesc - 1
        /\ TotalDesc * (0 \div TotalDesc) + (0 % TotalDesc) = TotalDesc * 0 + 0
    BY <2>1, Remainder
  <2>3. 0 \in Int /\ 0 \in 0..TotalDesc - 1
    BY <2>1
  <2>4. QED
    BY <2>1, <2>2, <2>3, SameRemainder
<1>2. QED
  BY <1>1, RingsAssumption DEF Init, CountInv, CountIsDistance

(* A step of either number is undone by the other, also at the end of the  *)
(* ring and below 0.                                                       *)
LEMMA CountStep ==
  ASSUME CountInv, [Next]_vars
  PROVE  CountInv'
<1>1. CASE H2cDone /\ "h2c" \in seen
  <2> DEFINE t == TotalDesc
             h == head + 1
             q == qlen - 1
             hd == h \div t
             qd == q \div CountMod
             k == CountMod \div t
  <2>1. t \in Nat \ {0} /\ CountMod \in Nat \ {0} /\ (CountMod % t) = 0
    BY RingsAssumption
  <2>2. h \in Int /\ q \in Int /\ (h + q) % t = 0
    <3>1. head \in Int /\ qlen \in Int /\ (head + qlen) % t = 0
      BY RingsAssumption DEF CountInv, CountIsDistance
    <3>2. h + q = head + qlen
      BY <3>1
    <3>3. QED
      BY <3>1, <3>2
  <2>3. head' = (h % t) /\ qlen' = (q % CountMod)
    BY <1>1 DEF H2cDone
  <2> HIDE DEF h, q, t
  <2>4. /\ (h % t) \in 0..t - 1 /\ hd \in Int /\ h = t * hd + (h % t)
        /\ (q % CountMod) \in 0..CountMod - 1 /\ qd \in Int /\ q = CountMod * qd + (q % CountMod)
        /\ k \in Int /\ CountMod = t * k + (CountMod % t)
    BY <2>1, <2>2, Remainder
  <2> HIDE DEF hd, qd, k
  <2>5. CountMod * qd = t * (k * qd)
    BY <2>1, <2>4
  <2>6. (h % t) + (q % CountMod) = (h + q) + t * (0 - hd - k * qd)
    <3> DEFINE kq == k * qd
               m  == 0 - hd - kq
    <3>1. kq \in Int
      BY <2>4
    <3> HIDE DEF kq
    <3>2. m \in Int /\ t * hd \in Int /\ t * kq \in Int
      BY <2>1, <2>4, <3>1
    <3>3. t * m = 0 - (t * hd) - (t * kq)
      BY <2>1, <2>4, <3>1
    <3>4. CountMod * qd = t * kq
      BY <2>5 DEF kq
    <3> HIDE DEF m
    <3>5. (h % t) \in Int /\ (q % CountMod) \in Int /\ CountMod * qd \in Int
      BY <2>1, <2>4
    <3>6. (h % t) + (q % CountMod) = (h + q) + t * m
      BY <2>2, <2>4, <3>2, <3>3, <3>4, <3>5
    <3>7. QED
      BY <3>6 DEF m, kq
  <2>7. ((h % t) + (q % CountMod)) % t = 0
    <3>1. h + q \in Int /\ 0 - hd - k * qd \in Int
      BY <2>2, <2>4
    <3>2. ((h + q) + t * (0 - hd - k * qd)) % t = (h + q) % t
      BY <2>1, <3>1, ShiftRemainder
    <3>3. QED
      BY <2>2, <2>6, <3>2, Zenon
  <2>8. QED
    BY <2>3, <2>4, <2>7 DEF CountInv, CountIsDistance, t
<1>2. CASE UNCHANGED <<head, qlen>>
  BY <1>2 DEF CountInv, CountIsDistance
<1>3. QED
  BY <1>1, <1>2, StepKinds, LifetimeKeeps
  DEF Call, ReadStatus, Ack, H2cDone, MpduReceived, Event, vars, irqVars, ringVars

(* The count of the H2C ring is the way from its head to its tail, for     *)
(* every ring length that divides the range of the counter                 *)
(* (pci.c:148-152).                                                        *)
THEOREM CountKept == Spec => []CountIsDistance
<1>1. CountInv => CountIsDistance
  BY DEF CountInv
<1>2. QED
  BY <1>1, CountInit, CountStep, PTL DEF Spec

-----------------------------------------------------------------------------

DeviceBlocks == {Device, Lock("mutex"), Lock("lock")}

(* Where setup stands: a ring whose data it is allocating has its array.   *)
SetupAt ==
    /\ nth \in 1..Len(RingOrder) + 1 /\ next \in Nat \ {0}
    /\ next = 1 \/ (nth <= Len(RingOrder) /\ next <= Allocations(RingOrder[nth]))
    /\ phase = "setup" /\ next > 2 => Block(RingOrder[nth], "buffer", 0) \in ptrs
    /\ phase \in {"none", "alloced"} => nth = 1 /\ next = 1

(* Teardown can reach every block of a ring, and a block in use has its    *)
(* pointer: until the structure that holds the pointers is gone.           *)
HeldInv ==
    /\ SetupAt
    /\ ptrs \subseteq DeviceBlocks \cup Reachable
    /\ phase # "gone" => heap \subseteq ptrs
    /\ phase = "gone" => heap \subseteq {Lock("lock")}

LEMMA RingTypes ==
  /\ RingOrder \in Seq(Rings) /\ Len(RingOrder) \in Nat
  /\ \A n \in 1..Len(RingOrder) : RingOrder[n] \in Rings
  /\ \A r : Allocations(r) \in Nat /\ Allocations(r) >= 2
<1>1. TxRings \in Seq(Rings) /\ RxRings \in Seq(Rings)
  BY RingsAssumption DEF Rings
<1>2. RingOrder \in Seq(Rings)
  BY <1>1 DEF RingOrder
<1>3. QED
  BY <1>2, RingsAssumption DEF Allocations

LEMMA DueBlock ==
  ASSUME SetupAt, InSetup
  PROVE  /\ Due.ring = RingOrder[nth] /\ Due.ring \in Rings
         /\ Due.kind = "data" => next > 2
         /\ next = 2 => Due = Block(RingOrder[nth], "buffer", 0)
BY RingTypes DEF SetupAt, InSetup, Due, NthBlock, Block

(* More pointers, more to reach.                                           *)
LEMMA ReachableGrows ==
  ASSUME ptrs \subseteq ptrs'
  PROVE  Reachable \subseteq Reachable'
BY DEF Reachable

LEMMA HeldInit == Init => HeldInv
BY RingTypes DEF Init, HeldInv, SetupAt

LEMMA HeldStep ==
  ASSUME HeldInv, [Next]_vars
  PROVE  HeldInv'
<1> USE DEF memVars
<1>1. CASE SetupAllocates
  <2>1. /\ InSetup /\ phase' = phase /\ phase = "setup"
        /\ ptrs' = ptrs \cup {Due} /\ heap' = heap \cup {Due}
    BY <1>1 DEF SetupAllocates, Allocate, InSetup
  <2>2. SetupAt'
    <3>1. CASE next < Allocations(RingOrder[nth])
      <4>1. next' = next + 1 /\ nth' = nth
        BY <1>1, <3>1 DEF SetupAllocates
      <4>2. next + 1 > 2 => Block(RingOrder[nth], "buffer", 0) \in ptrs'
        BY <2>1, DueBlock DEF HeldInv, SetupAt
      <4>3. QED
        BY <2>1, <3>1, <4>1, <4>2, RingTypes DEF HeldInv, SetupAt, InSetup, Allocations
    <3>2. CASE ~ (next < Allocations(RingOrder[nth]))
      <4>1. next' = 1 /\ nth' = nth + 1
        BY <1>1, <3>2 DEF SetupAllocates
      <4>2. QED
        BY <2>1, <4>1, RingTypes DEF HeldInv, SetupAt, InSetup
    <3>3. QED
      BY <3>1, <3>2
  <2>3. Due \in Reachable'
    BY <2>1, DueBlock DEF HeldInv, SetupAt, Reachable
  <2>4. QED
    BY <2>1, <2>2, <2>3, ReachableGrows DEF HeldInv
<1>2. CASE SetupFails \/ SetupDone
  <2>1. UNCHANGED <<nth, next, ptrs>> /\ phase' \in {"failed", "ready"} /\ heap' \subseteq heap
    <3>1. CASE SetupDone
      BY <1>2, <3>1 DEF SetupDone
    <3>2. CASE SetupFails
      <4>1. heap' = heap \/ heap' = heap \ {Block(Due.ring, "desc", 0)}
        BY <3>2 DEF SetupFails, Free
      <4>2. QED
        BY <3>2, <4>1 DEF SetupFails
    <3>3. QED
      BY <1>2, <3>1, <3>2
  <2>2. phase = "setup"
    BY <1>2 DEF SetupFails, SetupDone, InSetup
  <2>3. SetupAt' /\ Reachable' = Reachable
    BY <2>1, <2>2 DEF HeldInv, SetupAt, Reachable
  <2>4. QED
    BY <2>1, <2>2, <2>3 DEF HeldInv
<1>3. CASE AllocDev
  <2>1. PICK locks \in SUBSET {Lock("mutex"), Lock("lock")} : Allocate({Device} \cup locks)
    BY <1>3 DEF AllocDev
  <2>2. /\ ptrs' = ptrs \cup ({Device} \cup locks) /\ heap' = heap \cup ({Device} \cup locks)
        /\ UNCHANGED <<nth, next>> /\ phase = "none" /\ phase' = "alloced"
    BY <1>3, <2>1 DEF AllocDev, Allocate
  <2>3. SetupAt'
    BY <2>2 DEF HeldInv, SetupAt
  <2>4. QED
    BY <2>2, <2>3, ReachableGrows DEF HeldInv, DeviceBlocks
<1>4. CASE CoreInit
  BY <1>4 DEF CoreInit, HeldInv, SetupAt, Reachable
<1>5. CASE CoreDeinit
  <2>1. /\ UNCHANGED <<phase, nth, next, ptrs>> /\ heap' = heap \ Reachable
        /\ phase # "gone" /\ phase # "setup"
    BY <1>5 DEF CoreDeinit, Free, Standing
  <2>2. SetupAt' /\ Reachable' = Reachable
    BY <2>1 DEF HeldInv, SetupAt, Reachable
  <2>3. QED
    BY <2>1, <2>2 DEF HeldInv
<1>6. CASE FreeDev
  <2>1. /\ UNCHANGED <<nth, next>> /\ phase' = "gone" /\ phase # "gone" /\ ptrs' = {}
        /\ heap' = heap \ (Reachable \cup (ptrs \cap {Device, Lock("mutex")}))
    BY <1>6 DEF FreeDev, Free, Standing
  <2>2. SetupAt'
    BY <2>1 DEF HeldInv, SetupAt
  <2>3. heap' \subseteq {Lock("lock")}
    BY <2>1 DEF HeldInv, DeviceBlocks
  <2>4. QED
    BY <2>1, <2>2, <2>3 DEF HeldInv
<1>7. CASE UNCHANGED setVars
  BY <1>7 DEF setVars, HeldInv, SetupAt, Reachable
<1>8. QED
  BY <1>1, <1>2, <1>3, <1>4, <1>5, <1>6, <1>7, StepKinds
  DEF Lifetime, Call, ReadStatus, Ack, H2cDone, MpduReceived, Event, vars

(* Wherever setup gave up, whatever had been allocated by then: once       *)
(* rtw_free_dev is through, only the spin lock is left (pci.c:107-136,     *)
(* rtw88.c:59-65).                                                         *)
THEOREM LockLeft == Spec => []OnlyLockLeft
<1>1. HeldInv => OnlyLockLeft
  BY DEF HeldInv, OnlyLockLeft
<1>2. QED
  BY <1>1, HeldInit, HeldStep, PTL DEF Spec

-----------------------------------------------------------------------------

(* Until a ring has been undone or emptied every pointer has its block;    *)
(* from then on some pointer that teardown follows has none, until the     *)
(* last teardown has followed it.                                          *)
FreeInv ==
    /\ phase \in {"none", "alloced"} => ptrs \subseteq DeviceBlocks
    /\ phase = "setup" /\ next >= 2 => Block(RingOrder[nth], "desc", 0) \in ptrs
    /\ phase \in {"none", "alloced", "setup"} => undone = {} /\ ~emptied
    /\ undone = {} /\ ~emptied => ptrs \subseteq heap /\ ~freedTwice
    /\ undone # {} \/ emptied => freedTwice \/ (phase # "gone" /\ ~ (Reachable \subseteq heap))

LEMMA FreeInit == Init => FreeInv
BY DEF Init, FreeInv

LEMMA FreeStep ==
  ASSUME HeldInv, FreeInv, [Next]_vars
  PROVE  FreeInv'
<1> USE DEF memVars, FreeInv
<1>1. CASE SetupAllocates
  <2>1. /\ phase = "setup" /\ phase' = phase /\ UNCHANGED <<freedTwice, undone, emptied>>
        /\ ptrs' = ptrs \cup {Due} /\ heap' = heap \cup {Due}
    BY <1>1 DEF SetupAllocates, Allocate, InSetup
  <2>2. next' >= 2 => Block(RingOrder[nth'], "desc", 0) \in ptrs'
    <3>1. next = 1 => Due = Block(RingOrder[nth], "desc", 0)
      BY DEF Due, NthBlock
    <3>2. next \in Nat \ {0} /\ ((next' = next + 1 /\ nth' = nth) \/ next' = 1)
      BY <1>1 DEF SetupAllocates, HeldInv, SetupAt
    <3>3. QED
      BY <2>1, <3>1, <3>2
  <2>3. QED
    BY <2>1, <2>2
<1>2. CASE SetupFails
  <2>1. /\ phase = "setup" /\ phase' = "failed" /\ UNCHANGED <<ptrs, emptied>>
        /\ undone = {} /\ ~emptied /\ ptrs \subseteq heap /\ ~freedTwice
    BY <1>2 DEF SetupFails, InSetup
  <2> DEFINE d == Block(RingOrder[nth], "desc", 0)
  <2>2. CASE Due.kind = "buffer"
    <3>1. next >= 2 /\ Due.ring = RingOrder[nth] /\ RingOrder[nth] \in Rings
      <4>1. next = 1 => Due.kind = "desc"
        BY DEF Due, NthBlock, Block
      <4>2. QED
        BY <1>2, <2>2, <4>1, DueBlock DEF SetupFails, HeldInv, SetupAt
    <3>2. heap' = heap \ {d} /\ undone' = {RingOrder[nth]} /\ d \in ptrs
      BY <1>2, <2>1, <2>2, <3>1 DEF SetupFails, Free
    <3>3. d \in Reachable' /\ d \notin heap'
      BY <2>1, <3>1, <3>2 DEF Reachable, Block
    <3>4. QED
      BY <2>1, <3>2, <3>3
  <2>3. CASE Due.kind # "buffer"
    BY <1>2, <2>1, <2>3 DEF SetupFails
  <2>4. QED
    BY <2>2, <2>3
<1>3. CASE SetupDone \/ CoreInit
  BY <1>3 DEF SetupDone, CoreInit, HeldInv, SetupAt, Reachable
<1>4. CASE AllocDev
  <2>1. PICK locks \in SUBSET {Lock("mutex"), Lock("lock")} : Allocate({Device} \cup locks)
    BY <1>4 DEF AllocDev
  <2>2. QED
    BY <1>4, <2>1 DEF AllocDev, Allocate, DeviceBlocks
<1>5. CASE CoreDeinit
  <2>1. /\ UNCHANGED <<phase, ptrs, undone>> /\ heap' = heap \ Reachable
        /\ freedTwice' = (freedTwice \/ ~ (Reachable \subseteq heap))
        /\ emptied' = (emptied \/ Reachable # {}) /\ phase \in {"alloced", "ready", "failed"}
    BY <1>5 DEF CoreDeinit, Free, Standing
  <2>2. Reachable \subseteq ptrs /\ Reachable' = Reachable
    BY <2>1 DEF Reachable
  <2>3. phase = "alloced" => Reachable = {}
    <3>1. \A b \in DeviceBlocks : b.ring \notin Rings
      BY RingsAssumption DEF DeviceBlocks, Device, Lock, Block, Rings
    <3>2. QED
      BY <3>1 DEF Reachable
  <2>4. CASE Reachable = {}
    BY <2>1, <2>2, <2>4
  <2>5. CASE Reachable # {}
    BY <2>1, <2>2, <2>3, <2>5
  <2>6. QED
    BY <2>4, <2>5
<1>6. CASE FreeDev
  <2>1. Reachable \cup (ptrs \cap {Device, Lock("mutex")}) \subseteq ptrs
    BY DEF Reachable
  <2>2. /\ UNCHANGED <<undone, emptied>> /\ ptrs' = {} /\ phase' = "gone" /\ phase # "gone"
        /\ freedTwice' = (freedTwice \/ ~ (Reachable \cup (ptrs \cap {Device, Lock("mutex")})
                                               \subseteq heap))
    BY <1>6 DEF FreeDev, Free, Standing
  <2>3. QED
    BY <2>1, <2>2
<1>7. CASE UNCHANGED setVars
  BY <1>7 DEF setVars, Reachable
<1>8. QED
  BY <1>1, <1>2, <1>3, <1>4, <1>5, <1>6, <1>7, StepKinds
  DEF Lifetime, Call, ReadStatus, Ack, H2cDone, MpduReceived, Event, vars

(* For any rings and wherever setup stopped, a life of the device frees a  *)
(* block twice exactly when setup has undone a ring by itself or           *)
(* rtw_core_deinit has found rings before rtw_free_dev                     *)
(* (pci.c:30-34, 107-136, rtw88.c:59-65, 85).                              *)
THEOREM Freed == Spec => []FreedTwiceExactly
<1>1. FreeInv => FreedTwiceExactly
  BY DEF FreeInv, FreedTwiceExactly
<1>2. QED
  BY <1>1, FreeInit, FreeStep, HeldInit, HeldStep, PTL DEF Spec

-----------------------------------------------------------------------------

RingBlocks ==
    {Block(r, kind, 0) : r \in Rings, kind \in {"desc", "buffer"}}
        \cup {Block(r, "data", i) : r \in Range(RxRings), i \in 1..RxBufs}

MemInv ==
    /\ phase \in {"none", "alloced", "setup", "ready", "failed", "gone"}
    /\ ptrs \subseteq RingBlocks \cup DeviceBlocks /\ heap \subseteq RingBlocks \cup DeviceBlocks
    /\ freedTwice \in BOOLEAN /\ emptied \in BOOLEAN
    /\ undone \subseteq Rings /\ deinits \in 0..MaxDeinits

(* A bit is not raised more often than its event has come.                 *)
EventInv ==
    /\ events \in [Kinds -> 0..MaxEvents]
    /\ \A k \in Kinds : raised[k] <= events[k]

LEMMA DueInRing ==
  ASSUME SetupAt, InSetup
  PROVE  Due \in RingBlocks
<1>1. RingOrder[nth] \in Rings /\ next <= Allocations(RingOrder[nth]) /\ next \in Nat \ {0}
  BY RingTypes DEF SetupAt, InSetup
<1>2. CASE next = 1 \/ next = 2
  BY <1>1, <1>2 DEF Due, NthBlock, RingBlocks
<1>3. CASE next > 2
  <2>1. RingOrder[nth] \in Range(RxRings) /\ next - 2 \in 1..RxBufs
    BY <1>1, <1>3, RingsAssumption DEF Allocations
  <2>2. Due = Block(RingOrder[nth], "data", next - 2)
    BY <1>3, <1>1 DEF Due, NthBlock
  <2>3. QED
    BY <2>1, <2>2 DEF RingBlocks
<1>4. QED
  BY <1>1, <1>2, <1>3

LEMMA MemInit == Init => MemInv /\ EventInv
<1> SUFFICES ASSUME Init PROVE MemInv /\ EventInv
  OBVIOUS
<1>1. MemInv
  <2>1. /\ phase = "none" /\ ptrs = {} /\ heap = {} /\ freedTwice = FALSE
        /\ undone = {} /\ emptied = FALSE /\ deinits = 0
    BY DEF Init
  <2>2. deinits \in 0..MaxDeinits
    BY <2>1, BoundAssumption
  <2>3. QED
    BY <2>1, <2>2, Zenon DEF MemInv
<1>2. events = [k \in Kinds |-> 0] /\ raised = events
  BY DEF Init
<1>3. EventInv
  <2>1. 0 \in 0..MaxEvents
    BY BoundAssumption
  <2>2. events \in [Kinds -> 0..MaxEvents]
    BY <1>2, <2>1
  <2>3. \A k \in Kinds : raised[k] = 0 /\ events[k] = 0
    BY <1>2
  <2>4. QED
    BY <2>2, <2>3 DEF EventInv
<1>4. QED
  BY <1>1, <1>3

LEMMA MemStep ==
  ASSUME MemInv, HeldInv, [Next]_vars
  PROVE  MemInv'
<1> USE DEF memVars, MemInv
<1>1. CASE SetupAllocates
  BY <1>1, DueInRing DEF SetupAllocates, Allocate, HeldInv, InSetup
<1>2. CASE SetupFails
  <2>1. Due.ring \in Rings
    BY <1>2, DueBlock DEF SetupFails, HeldInv
  <2>2. /\ heap' \subseteq heap /\ freedTwice' \in BOOLEAN
        /\ undone' = undone \/ undone' = {Due.ring}
    <3>1. CASE Due.kind = "buffer"
      BY <1>2, <3>1 DEF SetupFails, Free
    <3>2. CASE Due.kind # "buffer"
      BY <1>2, <3>2 DEF SetupFails
    <3>3. QED
      BY <3>1, <3>2
  <2>3. UNCHANGED <<ptrs, emptied, deinits>> /\ phase' = "failed"
    BY <1>2 DEF SetupFails
  <2>4. QED
    BY <2>1, <2>2, <2>3
<1>3. CASE SetupDone \/ CoreInit
  BY <1>3 DEF SetupDone, CoreInit
<1>4. CASE AllocDev
  BY <1>4 DEF AllocDev, Allocate, DeviceBlocks
<1>5. CASE CoreDeinit
  BY <1>5, BoundAssumption DEF CoreDeinit, Free
<1>6. CASE FreeDev
  BY <1>6 DEF FreeDev, Free
<1>7. CASE UNCHANGED setVars
  BY <1>7 DEF setVars
<1>8. QED
  BY <1>1, <1>2, <1>3, <1>4, <1>5, <1>6, <1>7, StepKinds
  DEF Lifetime, Call, ReadStatus, Ack, H2cDone, MpduReceived, Event, vars

LEMMA EventStep ==
  ASSUME EventInv, IrqInv, [Next]_vars
  PROVE  EventInv'
<1>1. CASE UNCHANGED <<events, raised>>
  BY <1>1 DEF EventInv
<1>2. ASSUME NEW k \in Kinds, Event(k) PROVE EventInv'
  <2>1. /\ events' = [events EXCEPT ![k] = @ + 1] /\ events[k] < MaxEvents
        /\ raised' = raised \/ raised' = [raised EXCEPT ![k] = @ + 1]
    BY <1>2 DEF Event
  <2>2. raised \in [Kinds -> Nat]
    BY DEF IrqInv
  <2>3. events[k] + 1 \in 0..MaxEvents
    BY <2>1, BoundAssumption DEF EventInv
  <2>4. events' \in [Kinds -> 0..MaxEvents]
    BY <2>1, <2>3 DEF EventInv
  <2>5. ASSUME NEW j \in Kinds PROVE raised'[j] <= events'[j]
    <3>1. raised[j] \in Nat /\ events[j] \in Nat /\ raised[j] <= events[j]
      BY <2>2, BoundAssumption DEF EventInv
    <3>2. events'[j] = IF j = k THEN events[j] + 1 ELSE events[j]
      BY <2>1 DEF EventInv
    <3>3. raised'[j] = raised[j] \/ (j = k /\ raised'[j] = raised[j] + 1)
      BY <2>1, <2>2
    <3>4. QED
      BY <3>1, <3>2, <3>3
  <2>6. QED
    BY <2>4, <2>5 DEF EventInv
<1>3. QED
  BY <1>1, <1>2, StepKinds, LifetimeKeeps
  DEF Call, ReadStatus, Ack, H2cDone, MpduReceived, vars, irqVars

RxIdxOK == rxIdx \in 0..TotalDesc - 1

LEMMA RxIdxStep ==
  ASSUME RxIdxOK, [Next]_vars
  PROVE  RxIdxOK'
<1>1. CASE UNCHANGED rxIdx
  BY <1>1 DEF RxIdxOK
<1>2. CASE MpduReceived
  BY <1>2, RingsAssumption DEF MpduReceived, RxIdxOK
<1>3. QED
  BY <1>1, <1>2, StepKinds, LifetimeKeeps
  DEF Call, ReadStatus, Ack, H2cDone, Event, vars, irqVars, ringVars

PciInv == IrqInv /\ CountInv /\ HeldInv /\ MemInv /\ EventInv /\ RxIdxOK

(* The blocks are those of the rings and the device, setup stays within    *)
(* its loops, the indices within the ring, and neither more bits are       *)
(* raised than events came nor more handled than were raised (pci.c:15-97, *)
(* 142-157).                                                               *)
THEOREM TypeCorrect == Spec => []TypeOK
<1>1. Init => PciInv
  BY IrqInit, CountInit, HeldInit, MemInit, RingsAssumption DEF PciInv, Init, RxIdxOK
<1>2. PciInv /\ [Next]_vars => PciInv'
  BY IrqStep, CountStep, HeldStep, MemStep, EventStep, RxIdxStep DEF PciInv
<1>3. PciInv => TypeOK
  <2> SUFFICES ASSUME PciInv PROVE TypeOK
    OBVIOUS
  <2>1. {events, raised, handled} \subseteq [Kinds -> 0..MaxEvents]
    <3>1. \A k \in Kinds : handled[k] <= raised[k]
      BY DEF PciInv, IrqInv, RaisedOnceHandledOnce, One
    <3>2. /\ raised \in [Kinds -> Nat] /\ handled \in [Kinds -> Nat]
          /\ events \in [Kinds -> 0..MaxEvents] /\ \A k \in Kinds : raised[k] <= events[k]
      BY DEF PciInv, IrqInv, EventInv
    <3>3. \A k \in Kinds : raised[k] \in 0..MaxEvents /\ handled[k] \in 0..MaxEvents
      BY <3>1, <3>2, BoundAssumption
    <3>4. QED
      BY <3>2, <3>3
  <2>2. next \in 1..RxBufs + 2 /\ nth \in 1..Len(RingOrder) + 1
    BY RingsAssumption DEF PciInv, HeldInv, SetupAt, Allocations
  <2>3. ptrs \subseteq RingBlocks \cup DeviceBlocks /\ heap \subseteq RingBlocks \cup DeviceBlocks
    BY DEF PciInv, MemInv
  <2>4. /\ phase \in {"none", "alloced", "setup", "ready", "failed", "gone"}
        /\ freedTwice \in BOOLEAN /\ emptied \in BOOLEAN
        /\ undone \subseteq Rings /\ deinits \in 0..MaxDeinits
    BY Zenon DEF PciInv, MemInv
  <2>5. /\ hisr \subseteq Kinds /\ seen \subseteq Kinds
        /\ at \in {"idle", "read", "ack", "h2c", "mpdu"}
        /\ head \in 0..TotalDesc - 1 /\ rxIdx \in 0..TotalDesc - 1 /\ qlen \in 0..CountMod - 1
    BY Zenon DEF PciInv, IrqInv, CountInv, RxIdxOK, Places
  <2>6. QED
    <3>1. LET blocks ==
               {Block(r, kind, 0) : r \in Rings, kind \in {"desc", "buffer"}}
                   \cup {Block(r, "data", i) : r \in Range(RxRings), i \in 1..RxBufs}
                   \cup {Device, Lock("mutex"), Lock("lock")}
          IN  ptrs \subseteq blocks /\ heap \subseteq blocks
      BY <2>3 DEF RingBlocks, DeviceBlocks
    <3>2. QED
      BY <2>1, <2>2, <2>4, <2>5, <3>1 DEF TypeOK
<1>4. QED
  BY <1>1, <1>2, <1>3, PTL DEF Spec
=============================================================================
