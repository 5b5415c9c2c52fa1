------------------------------- MODULE Rtw88Pci -------------------------------
(***************************************************************************)
(* The PCI side of an rtw88 device: rtw_alloc_dev, rtw_core_init,          *)
(* rtw_core_deinit and rtw_free_dev (rtw88/rtw88.c) over rtw_pci_setup and *)
(* rtw_pci_teardown, with any allocation failing, and in between           *)
(* rtw_pci_irq_handler beside the device (rtw88/pci.c).                    *)
(*                                                                         *)
(* Every pointer is assigned once in the life of a device, so a block is   *)
(* named by the pointer that gets it: ptrs are the pointers that are not   *)
(* NULL, heap the blocks allocated and not freed; a pointer whose block is *)
(* not in heap dangles. The data pointers of TX rings are never assigned,  *)
(* and nothing fills the H2C ring, so its tail stays 0.                    *)
(*                                                                         *)
(* Nobody in the repository calls this code. Interrupts (external) are     *)
(* taken from the time setup has succeeded until the rings are torn down.  *)
(***************************************************************************)
EXTENDS Integers, Sequences, SequencesExt

CONSTANTS
    TxRings, RxRings,   (* sequences of rings, in the order of the arrays  *)
    RxBufs,             (* data buffers of an RX ring                      *)
    TotalDesc,          (* descriptors of a ring                           *)
    CountMod,           (* q_len is kept modulo this; 2^32 in the code     *)
    MaxDeinits,         (* bound: calls of rtw_core_deinit                 *)
    MaxEvents           (* bound: events of one kind                       *)

ASSUME RingsAssumption ==
    /\ TxRings \in Seq(Range(TxRings)) /\ RxRings \in Seq(Range(RxRings))
    /\ Range(TxRings) \cap Range(RxRings) = {} /\ RxBufs \in Nat
    /\ "device" \notin Range(TxRings) \cup Range(RxRings)
    /\ TotalDesc \in Nat \ {0} /\ CountMod \in Nat \ {0} /\ CountMod % TotalDesc = 0
ASSUME BoundAssumption == MaxDeinits \in Nat /\ MaxEvents \in Nat

VARIABLES
    phase,      (* "none", "alloced", "setup", "ready", "failed", "gone"   *)
    nth,        (* in rtw_pci_setup: the ring, counted through both loops  *)
    next,       (* and which of its allocations is due                     *)
    ptrs,       (* pointers that are not NULL                              *)
    heap,       (* blocks in use                                           *)
    freedTwice, (* history: a block was freed that was not in use          *)
    undone,     (* history: rings whose descriptors setup has freed itself *)
    emptied,    (* history: rtw_core_deinit has found a ring to free       *)
    deinits,    (* calls of rtw_core_deinit                                *)
    hisr,       (* bits set in the status register                         *)
    at,         (* in the handler: "idle", "read", "ack", "h2c", "mpdu"    *)
    seen,       (* what the handler has read                               *)
    head, qlen, (* cur_head and q_len of the H2C ring                      *)
    rxIdx,      (* idx of the MPDU ring                                    *)
    events,     (* history: events of each kind                            *)
    raised,     (* history: times each bit went from 0 to 1                *)
    handled     (* history: times the handler has dealt with each bit      *)

memVars  == <<ptrs, heap, freedTwice>>
setVars  == <<phase, nth, next, memVars, undone, emptied, deinits>>
ringVars == <<head, qlen, rxIdx, handled>>
irqVars  == <<hisr, at, seen, ringVars, events, raised>>
vars     == <<setVars, irqVars>>

Block(ring, kind, i) == [ring |-> ring, kind |-> kind, i |-> i]
Lock(kind)           == Block("device", kind, 0)
Device               == Lock("dev")

(* The rings as the two loops of rtw_pci_setup go through them.            *)
RingOrder == TxRings \o RxRings

(* Mutant: one data buffer too many.                                       *)
AllocationsOneMore(r) == 2 + IF r \in Range(RxRings) THEN RxBufs + 1 ELSE 0

(* A ring takes its descriptors, its array of buffers and, when it is an   *)
(* RX ring, the data of each buffer.                                       *)
Allocations(r) == 2 + IF r \in Range(RxRings) THEN RxBufs ELSE 0

NthBlock(r, n) ==
    CASE n = 1 -> Block(r, "desc", 0)
      [] n = 2 -> Block(r, "buffer", 0)
      [] OTHER -> Block(r, "data", n - 2)

Due == NthBlock(RingOrder[nth], next)

Rings == Range(TxRings) \cup Range(RxRings)
Kinds == {"h2c", "mpdu"}

Init ==
    /\ phase = "none" /\ nth = 1 /\ next = 1 /\ ptrs = {} /\ heap = {}
    /\ freedTwice = FALSE /\ undone = {} /\ emptied = FALSE /\ deinits = 0
    /\ hisr = {} /\ at = "idle" /\ seen = {}
    /\ head = 0 /\ qlen = 0 /\ rxIdx = 0
    /\ events = [k \in Kinds |-> 0] /\ raised = events /\ handled = events

(***************************************************************************)
(* Setup and teardown.                                                     *)
(***************************************************************************)
Allocate(blocks) == ptrs' = ptrs \cup blocks /\ heap' = heap \cup blocks

Free(blocks) ==
    /\ heap' = heap \ blocks
    /\ freedTwice' = (freedTwice \/ ~ (blocks \subseteq heap))

(* rtw_alloc_dev: the structure and its two locks.                         *)
AllocDev ==
    /\ phase = "none" /\ phase' = "alloced"
    /\ \E locks \in SUBSET {Lock("mutex"), Lock("lock")} : Allocate({Device} \cup locks)
    /\ UNCHANGED <<nth, next, freedTwice, undone, emptied, deinits, irqVars>>

(* rtw_core_init, which fails at once on a device without chip info.       *)
CoreInit ==
    /\ phase = "alloced" /\ phase' \in {"setup", "failed"}
    /\ UNCHANGED <<nth, next, memVars, undone, emptied, deinits, irqVars>>

InSetup == phase = "setup" /\ nth <= Len(RingOrder)

SetupAllocates ==
    /\ InSetup
    /\ Allocate({Due})
    /\ IF next < Allocations(RingOrder[nth])
       THEN next' = next + 1 /\ nth' = nth
       ELSE next' = 1 /\ nth' = nth + 1
    /\ UNCHANGED <<phase, freedTwice, undone, emptied, deinits, irqVars>>

(* Mutant: a data buffer that cannot be had undoes the ring as well.       *)
SetupFailsUndoingAll ==
    /\ InSetup /\ phase' = "failed"
    /\ LET b == Due IN
       IF b.kind \in {"buffer", "data"}
       THEN /\ Free({Block(b.ring, "desc", 0)})
            /\ undone' = IF b.kind = "buffer" THEN {b.ring} ELSE {}
       ELSE UNCHANGED <<heap, freedTwice, undone>>
    /\ UNCHANGED <<nth, next, ptrs, emptied, deinits, irqVars>>

(* An allocation fails: setup returns. When it was the array of a ring's   *)
(* buffers the descriptors are freed before, and ring->desc dangles.       *)
SetupFails ==
    /\ InSetup /\ phase' = "failed"
    /\ LET b == Due IN
       IF b.kind = "buffer"
       THEN Free({Block(b.ring, "desc", 0)}) /\ undone' = {b.ring}
       ELSE UNCHANGED <<heap, freedTwice, undone>>
    /\ UNCHANGED <<nth, next, ptrs, emptied, deinits, irqVars>>

SetupDone ==
    /\ phase = "setup" /\ nth > Len(RingOrder) /\ phase' = "ready"
    /\ UNCHANGED <<nth, next, memVars, undone, emptied, deinits, irqVars>>

(* Mutant: the array of buffers is freed without what it points to.        *)
ReachableArrays == {b \in ptrs : b.ring \in Rings /\ b.kind # "data"}

(* rtw_pci_teardown: data through the array of buffers, the array, the     *)
(* descriptors. No pointer is set to NULL.                                 *)
Reachable ==
    {b \in ptrs : b.ring \in Rings /\ (b.kind = "data" => Block(b.ring, "buffer", 0) \in ptrs)}

Standing == phase \in {"alloced", "ready", "failed"} /\ at = "idle"

CoreDeinit ==
    /\ Standing /\ deinits < MaxDeinits
    /\ Free(Reachable)
    /\ emptied' = (emptied \/ Reachable # {}) /\ deinits' = deinits + 1
    /\ UNCHANGED <<phase, nth, next, ptrs, undone, irqVars>>

(* rtw_free_dev: teardown, the mutex, the structure.                       *)
FreeDev ==
    /\ Standing /\ phase' = "gone"
    /\ Free(Reachable \cup (ptrs \cap {Device, Lock("mutex")}))
    /\ ptrs' = {}
    /\ UNCHANGED <<nth, next, undone, emptied, deinits, irqVars>>

(***************************************************************************)
(* Interrupts.                                                             *)
(***************************************************************************)
Live == phase = "ready" /\ deinits = 0

(* The device (external): an event sets its bit, or finds it set.          *)
Event(k) ==
    /\ Live /\ events[k] < MaxEvents
    /\ events' = [events EXCEPT ![k] = @ + 1]
    /\ raised' = IF k \in hisr THEN raised ELSE [raised EXCEPT ![k] = @ + 1]
    /\ hisr' = hisr \cup {k}
    /\ UNCHANGED <<setVars, at, seen, ringVars>>

(* The handler is called for a bit, or for another device's interrupt.     *)
Call ==
    /\ Live /\ at = "idle" /\ at' = "read"
    /\ UNCHANGED <<setVars, hisr, seen, ringVars, events, raised>>

(* The read of HISR; with nothing in it the handler returns.               *)
ReadStatus ==
    /\ at = "read" /\ seen' = hisr
    /\ at' = IF hisr = {} THEN "idle" ELSE "ack"
    /\ UNCHANGED <<setVars, hisr, ringVars, events, raised>>

(* Mutant: everything that is set by now is cleared.                       *)
AckAll ==
    /\ at = "ack" /\ at' = "h2c"
    /\ hisr' = {}
    /\ UNCHANGED <<setVars, seen, ringVars, events, raised>>

(* What was read is written back, which clears those bits.                 *)
Ack ==
    /\ at = "ack" /\ at' = "h2c"
    /\ hisr' = hisr \ seen
    /\ UNCHANGED <<setVars, seen, ringVars, events, raised>>

Handle(k) == handled' = IF k \in seen THEN [handled EXCEPT ![k] = @ + 1] ELSE handled

(* Mutant: the count stops at 0.                                           *)
H2cDoneSaturating ==
    /\ at = "h2c" /\ at' = "mpdu" /\ Handle("h2c")
    /\ IF "h2c" \in seen
       THEN head' = (head + 1) % TotalDesc /\ qlen' = IF qlen = 0 THEN 0 ELSE qlen - 1
       ELSE UNCHANGED <<head, qlen>>
    /\ UNCHANGED <<setVars, hisr, seen, rxIdx, events, raised>>

H2cDone ==
    /\ at = "h2c" /\ at' = "mpdu" /\ Handle("h2c")
    /\ IF "h2c" \in seen
       THEN head' = (head + 1) % TotalDesc /\ qlen' = (qlen - 1) % CountMod
       ELSE UNCHANGED <<head, qlen>>
    /\ UNCHANGED <<setVars, hisr, seen, rxIdx, events, raised>>

MpduReceived ==
    /\ at = "mpdu" /\ at' = "idle" /\ Handle("mpdu")
    /\ rxIdx' = IF "mpdu" \in seen THEN (rxIdx + 1) % TotalDesc ELSE rxIdx
    /\ seen' = {}
    /\ UNCHANGED <<setVars, hisr, head, qlen, events, raised>>

Next ==
    \/ AllocDev \/ CoreInit \/ SetupAllocates \/ SetupFails \/ SetupDone
    \/ CoreDeinit \/ FreeDev
    \/ Call \/ ReadStatus \/ Ack \/ H2cDone \/ MpduReceived
    \/ \E k \in Kinds : Event(k)

Spec == Init /\ [][Next]_vars

(***************************************************************************)
(* Properties.                                                             *)
(***************************************************************************)
TypeOK ==
    /\ phase \in {"none", "alloced", "setup", "ready", "failed", "gone"}
    /\ nth \in 1..Len(RingOrder) + 1 /\ next \in 1..RxBufs + 2
    /\ LET blocks ==
            {Block(r, kind, 0) : r \in Rings, kind \in {"desc", "buffer"}}
                \cup {Block(r, "data", i) : r \in Range(RxRings), i \in 1..RxBufs}
                \cup {Device, Lock("mutex"), Lock("lock")}
       IN  ptrs \subseteq blocks /\ heap \subseteq blocks
    /\ freedTwice \in BOOLEAN /\ emptied \in BOOLEAN
    /\ undone \subseteq Rings /\ deinits \in 0..MaxDeinits
    /\ hisr \subseteq Kinds /\ seen \subseteq Kinds
    /\ at \in {"idle", "read", "ack", "h2c", "mpdu"}
    /\ head \in 0..TotalDesc - 1 /\ rxIdx \in 0..TotalDesc - 1 /\ qlen \in 0..CountMod - 1
    /\ {events, raised, handled} \subseteq [Kinds -> 0..MaxEvents]

(* Wherever setup gave up, rtw_free_dev leaves nothing behind but the spin *)
(* lock, which it has no call for (pci.c:107-136, rtw88.c:59-65).          *)
OnlyLockLeft == phase = "gone" => heap \subseteq {Lock("lock")}

(* A block is freed twice in exactly two cases: when setup has itself      *)
(* freed the descriptors of a ring whose array of buffers it could not     *)
(* get, and when rtw_core_deinit has found rings before rtw_free_dev does. *)
(* In every other life none is, wherever setup failed; in these two one    *)
(* is, no pointer having been set to NULL (pci.c:30-34, 107-136,           *)
(* rtw88.c:59-65, 85).                                                     *)
FreedTwiceExactly ==
    /\ freedTwice => undone # {} \/ emptied
    /\ phase = "gone" /\ (undone # {} \/ emptied) => freedTwice

(* The count of the H2C ring is the way from its head to its tail, also    *)
(* when completions nobody has queued take it below 0 and around           *)
(* (pci.c:148-152).                                                        *)
CountIsDistance == (head + qlen) % TotalDesc = 0

(* Cleared from HISR and not dealt with yet.                               *)
InHand(k) == k \in seen /\ (at = "h2c" \/ (at = "mpdu" /\ k = "mpdu"))

One(b) == IF b THEN 1 ELSE 0

(* Each time a bit was raised is dealt with once or still to come, however *)
(* events fall between the read and the clearing: none is lost with        *)
(* another's bit, none counted twice (pci.c:142-157).                      *)
RaisedOnceHandledOnce ==
    \A k \in Kinds : raised[k] = handled[k] + One(k \in hisr) + One(InHand(k))
=============================================================================
