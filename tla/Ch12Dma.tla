------------------------------- MODULE Ch12Dma -------------------------------
(***************************************************************************)
(* The CH12 ring of the RTL8852BE: the single buffer and the single buffer *)
(* descriptor through which rtw89_pci_ch12_send_h2c (rtw89/pci.c) hands    *)
(* one host-to-chip packet at a time to the PCIe DMA engine.               *)
(*                                                                         *)
(* Three actors run concurrently:                                          *)
(*   - the driver thread, inside rtw89_pci_ch12_send_h2c;                  *)
(*   - the memory system, which may make the driver's plain stores visible *)
(*     to the device in any order until __sync_synchronize orders them;    *)
(*   - the DMA engine (external), which fetches a descriptor and then the  *)
(*     buffer whenever the host index and its own index differ.            *)
(*                                                                         *)
(* A packet is named by the number of the call that sent it: 1, 2, ...     *)
(* Call 0 stands for memory that holds no packet: zeroed, half rewritten   *)
(* or already released.                                                    *)
(***************************************************************************)
EXTENDS Naturals, Sequences

CONSTANTS
    Lens,        (* payload lengths the callers pass                       *)
    MaxSends,    (* bound: calls of send_h2c                               *)
    PollBudget,  (* reads of the index register before a send gives up     *)
    IdxModulus   (* the device index counts modulo this: the programmed    *)
                 (* TXBD_NUM (1) if the device honours it, else more       *)

(* The payload fits behind the descriptor and the header (RealtekWifi.cpp  *)
(* allocates 24 + 8 + FWDL_SECTION_PER_PKT_LEN bytes).                     *)
ASSUME LensAssumption == Lens \subseteq 0..2020
ASSUME BoundAssumption ==
    MaxSends \in Nat /\ PollBudget \in Nat \ {0} /\ IdxModulus \in Nat \ {0}

VARIABLES
    pc,        (* where the driver is in send_h2c                          *)
    ring,      (* life of the ring memory                                  *)
    sends,     (* calls made so far; the current packet is number sends    *)
    len,       (* payload length of the current call                       *)
    polls,     (* register reads left in read_poll_timeout                 *)
    ret,       (* what the last finished call returned                     *)
    buf, bd,         (* buffer and descriptor as the CPU sees them         *)
    dmaBuf, dmaBd,   (* and as the device sees them                        *)
    hostIdx, hwIdx,  (* both halves of R_AX_CH12_TXBD_IDX                  *)
    engine,    (* the DMA engine: "idle", or "fetch" with a latched length *)
    latched,
    received,  (* history: packets the device has taken, in order          *)
    acked,     (* history: the calls that returned 0                       *)
    timedOut   (* history: some call has returned -1 after polling         *)

drvVars  == <<pc, ring, sends, len, polls, ret>>
cpuVars  == <<buf, bd>>
dmaVars  == <<dmaBuf, dmaBd>>
hwVars   == <<hwIdx, engine, latched, received>>
histVars == <<acked, timedOut>>
vars     == <<drvVars, cpuVars, dmaVars, hostIdx, hwVars, histVars>>

NoPacket == [call |-> 0, bytes |-> 0]

(* total_size: 24 bytes of TX descriptor and 4 of H2C header before the    *)
(* payload, computed in two u16 steps.                                     *)
TotalSize(n) == (24 + ((4 + n) % 65536)) % 65536

(* The index arithmetic of the device.                                     *)
Wrap(i) == IF i = IdxModulus THEN 0 ELSE i

(* The device has been told of a descriptor it has not consumed.           *)
Pending == hwIdx # hostIdx

Transition(from, to) == pc = from /\ pc' = to

(***************************************************************************)
(* Initial state: the power-on sequence has cleared both indices           *)
(* (R_AX_TXBD_RWPTR_CLR1) and no ring memory is attached.                  *)
(***************************************************************************)
Init ==
    /\ pc = "idle" /\ ring = "none" /\ sends = 0 /\ len = 0
    /\ polls = 0 /\ ret = "none"
    /\ buf = NoPacket /\ bd = 0 /\ dmaBuf = NoPacket /\ dmaBd = 0
    /\ hostIdx = 0 /\ hwIdx = 0 /\ engine = "idle" /\ latched = 0
    /\ received = <<>> /\ acked = {} /\ timedOut = FALSE

(***************************************************************************)
(* The driver.                                                             *)
(***************************************************************************)

(* rtw89_pci_ch12_ring_init: the descriptor is zeroed and the store is     *)
(* ordered before the ring registers are programmed.                       *)
RingInit ==
    /\ pc = "idle" /\ ring = "none"
    /\ ring' = "ready"
    /\ bd' = 0 /\ dmaBd' = 0
    /\ UNCHANGED <<pc, sends, len, polls, ret, buf, dmaBuf, hostIdx, hwVars, histVars>>

(* A call while the ring has no memory: refused before anything is touched.*)
SendRefused ==
    /\ pc = "idle" /\ ring # "ready"
    /\ ret' = "refused"
    /\ UNCHANGED <<pc, ring, sends, len, polls, cpuVars, dmaVars, hostIdx, hwVars, histVars>>

(* send_h2c starts: the memset leaves the buffer without a packet.         *)
SendBegin(n) ==
    /\ ring = "ready" /\ sends < MaxSends
    /\ Transition("idle", "fill")
    /\ sends' = sends + 1 /\ len' = n
    /\ buf' = NoPacket
    /\ UNCHANGED <<ring, polls, ret, bd, dmaVars, hostIdx, hwVars, histVars>>

(* TX descriptor, H2C header and payload are in the buffer.                *)
FillBuffer ==
    /\ Transition("fill", "bd")
    /\ buf' = [call |-> sends, bytes |-> TotalSize(len)]
    /\ UNCHANGED <<ring, sends, len, polls, ret, bd, dmaVars, hostIdx, hwVars, histVars>>

(* rtw89_pci_ch12_write_bd: always descriptor 0, always the same buffer.   *)
WriteBd ==
    /\ Transition("bd", "doorbell")
    /\ bd' = TotalSize(len)
    /\ UNCHANGED <<ring, sends, len, polls, ret, buf, dmaVars, hostIdx, hwVars, histVars>>

(* Mutant: the barrier of pci.c:126 is left out.                           *)
BarrierMissing == UNCHANGED dmaVars

(* __sync_synchronize: every earlier store is visible to the device.       *)
Barrier == dmaBuf' = buf /\ dmaBd' = bd

(* Mutant: the index runs on, as if the ring had a descriptor per call.    *)
DoorbellRunsOn ==
    /\ Transition("doorbell", "poll")
    /\ Barrier
    /\ hostIdx' = Wrap(sends)
    /\ polls' = PollBudget
    /\ UNCHANGED <<ring, sends, len, ret, cpuVars, hwVars, histVars>>

(* The barrier, then the doorbell. The host index written is idx + 1 = 1   *)
(* in every call, because idx is never anything but 0.                     *)
Doorbell ==
    /\ Transition("doorbell", "poll")
    /\ Barrier
    /\ hostIdx' = Wrap(1)
    /\ polls' = PollBudget
    /\ UNCHANGED <<ring, sends, len, ret, cpuVars, hwVars, histVars>>

(* Mutant: the poll tests the host half of the register.                   *)
PollHostHalf ==
    /\ hostIdx = 1
    /\ Transition("poll", "idle")
    /\ ret' = "ok" /\ acked' = acked \cup {sends}
    /\ UNCHANGED <<ring, sends, len, polls, cpuVars, dmaVars, hostIdx, hwVars, timedOut>>

(* A read that finds the device index at idx + 1 ends the call with 0.     *)
PollDone ==
    /\ hwIdx = 1
    /\ Transition("poll", "idle")
    /\ ret' = "ok" /\ acked' = acked \cup {sends}
    /\ UNCHANGED <<ring, sends, len, polls, cpuVars, dmaVars, hostIdx, hwVars, timedOut>>

(* Mutant: the budget is tested before it is decremented.                  *)
PollPastBudget ==
    /\ pc = "poll" /\ hwIdx # 1
    /\ polls' = polls - 1
    /\ UNCHANGED <<pc, ring, sends, len, ret, cpuVars, dmaVars, hostIdx, hwVars, histVars>>

(* Mutant: the poll has no budget.                                         *)
PollForever ==
    /\ pc = "poll" /\ hwIdx # 1 /\ polls > 1
    /\ UNCHANGED vars

PollAgain ==
    /\ pc = "poll" /\ hwIdx # 1 /\ polls > 1
    /\ polls' = polls - 1
    /\ UNCHANGED <<pc, ring, sends, len, ret, cpuVars, dmaVars, hostIdx, hwVars, histVars>>

(* The last read of the budget: -1, and nothing is taken back. The         *)
(* descriptor stays posted.                                                *)
PollTimeout ==
    /\ hwIdx # 1 /\ polls = 1
    /\ Transition("poll", "idle")
    /\ ret' = "timeout" /\ timedOut' = TRUE
    /\ UNCHANGED <<ring, sends, len, polls, cpuVars, dmaVars, hostIdx, hwVars, acked>>

(* RealtekWifi::stop: ring_deinit forgets the memory, stop releases it.    *)
(* The device is told nothing. It runs between calls, never inside one.    *)
Release ==
    /\ pc = "idle" /\ ring = "ready"
    /\ ring' = "released"
    /\ UNCHANGED <<pc, sends, len, polls, ret, cpuVars, dmaVars, hostIdx, hwVars, histVars>>

(***************************************************************************)
(* The memory system: a plain store becomes visible to the device early.   *)
(***************************************************************************)
DrainBuf ==
    /\ dmaBuf # buf /\ dmaBuf' = buf
    /\ UNCHANGED <<drvVars, cpuVars, dmaBd, hostIdx, hwVars, histVars>>

DrainBd ==
    /\ dmaBd # bd /\ dmaBd' = bd
    /\ UNCHANGED <<drvVars, cpuVars, dmaBuf, hostIdx, hwVars, histVars>>

(***************************************************************************)
(* The DMA engine (external).                                              *)
(***************************************************************************)

(* Fetch the descriptor.                                                   *)
EngineLatch ==
    /\ engine = "idle" /\ Pending
    /\ engine' = "fetch" /\ latched' = dmaBd
    /\ UNCHANGED <<drvVars, cpuVars, dmaVars, hostIdx, hwIdx, received, histVars>>

(* What a fetch of the latched length finds: the packet, if the buffer     *)
(* holds a whole one of that length and has not been given back.           *)
Fetched ==
    IF ring = "ready" /\ latched = dmaBuf.bytes THEN dmaBuf.call ELSE 0

EngineFetch ==
    /\ engine = "fetch"
    /\ engine' = "idle"
    /\ received' = Append(received, Fetched)
    /\ hwIdx' = Wrap(hwIdx + 1)
    /\ UNCHANGED <<drvVars, cpuVars, dmaVars, hostIdx, latched, histVars>>

(***************************************************************************)
(* Specification.                                                          *)
(***************************************************************************)
Driver ==
    \/ RingInit \/ SendRefused \/ (\E n \in Lens : SendBegin(n))
    \/ FillBuffer \/ WriteBd \/ Doorbell
    \/ PollDone \/ PollAgain \/ PollTimeout \/ Release

Memory == DrainBuf \/ DrainBd
Engine == EngineLatch \/ EngineFetch

Next == Driver \/ Memory \/ Engine

(* A send in progress is never preempted for good: it runs on the work     *)
(* loop thread and every wait in it is a bounded IODelay.                  *)
SendProgress == FillBuffer \/ WriteBd \/ Doorbell \/ PollDone \/ PollAgain \/ PollTimeout

Spec     == Init /\ [][Next]_vars
FairSpec == Spec /\ WF_vars(SendProgress)

(***************************************************************************)
(* Properties.                                                             *)
(***************************************************************************)
Packets == 0..MaxSends

TypeOK ==
    /\ pc \in {"idle", "fill", "bd", "doorbell", "poll"}
    /\ ring \in {"none", "ready", "released"}
    /\ sends \in Packets /\ len \in 0..2020 /\ polls \in 0..PollBudget
    /\ ret \in {"none", "ok", "timeout", "refused"}
    /\ buf \in [call : Packets, bytes : Nat] /\ dmaBuf \in [call : Packets, bytes : Nat]
    /\ bd \in Nat /\ dmaBd \in Nat /\ latched \in Nat
    /\ hostIdx \in {0, 1} /\ hwIdx \in {0, 1}
    /\ engine \in {"idle", "fetch"}
    /\ received \in Seq(Packets)
    /\ acked \subseteq Packets /\ timedOut \in BOOLEAN

(* The device takes at most one packet between two clearings of the index, *)
(* however many packets the driver sends: every doorbell writes the same   *)
(* host index (pci.c:127).                                                 *)
AtMostOneFetch == Len(received) <= 1

(* A call of send_h2c returns 0 only if the device has taken a packet: the *)
(* poll of pci.c:131 never succeeds on an index nobody moved.              *)
SuccessMeansTaken == acked # {} => received # <<>>

(* Until a call has timed out, what the device took is the first packet,   *)
(* whole: not a half-written buffer, not a descriptor of another length,   *)
(* not memory already released.                                            *)
CleanUntilTimeout == ~timedOut => \A k \in 1..Len(received) : received[k] = 1

(* When the first call returns 0 its own packet is the one that arrived:   *)
(* a first send has no stale completion to be misled by.                   *)
FirstSendHonest == 1 \in acked => received = <<1>>

(* Until a call has timed out, the driver does not touch the buffer or the *)
(* descriptor while the device may still fetch them, and does not give the *)
(* memory back either.                                                     *)
NoRewriteUnderFetch ==
    [][~timedOut /\ Pending => UNCHANGED <<buf, bd, ring>>]_vars

(* If the device honours TXBD_NUM = 1, its index never leaves 0 and no     *)
(* call returns 0 (the symptom src/README.md records).                     *)
OneBdNeverCompletes == IdxModulus = 1 => acked = {} /\ received = <<>>

(* The ring with its engine implements the mailbox that is emptied at most *)
(* once: what send_h2c promises fw.c, and no more (pci.c:89-145).          *)
Mailbox == INSTANCE H2CMailbox WITH
    busy <- pc # "idle", taken <- received, failed <- timedOut

ImplementsMailbox == Mailbox!Spec

(* Every call of send_h2c returns, whatever the device does.               *)
SendReturns == pc # "idle" ~> pc = "idle"

(* The claim of section-by-section delivery (src/README.md:14): a call     *)
(* that returned 0 has delivered its packet.                               *)
EverySuccessDelivered ==
    \A n \in acked : \E k \in 1..Len(received) : received[k] = n
=============================================================================
