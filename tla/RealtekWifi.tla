----------------------------- MODULE RealtekWifi -----------------------------
(***************************************************************************)
(* The life of the kext (RealtekWifi.cpp): start, the one-shot timer whose *)
(* handler powers the chip on, sets up PCIe DMA and downloads firmware,    *)
(* and stop. The instance may be loaded again after a stop: the chip keeps *)
(* its registers, because stop neither halts DMA nor powers off.           *)
(*                                                                         *)
(* Actors: the thread that calls start and stop; the work loop, which runs *)
(* the timer handler behind its gate (IOKit, external: removeEventSource   *)
(* takes the gate, so it waits for a handler that is running); the CH12    *)
(* DMA engine (external).                                                  *)
(*                                                                         *)
(* Memory is told apart by the load that allocated it. A send of           *)
(* rtw89_pci_ch12_send_h2c is its doorbell and its poll; Ch12Dma has the   *)
(* detail.                                                                 *)
(***************************************************************************)
EXTENDS Naturals

CONSTANTS
    MaxLoads,    (* bound: times the kext is loaded                        *)
    MaxSends,    (* bound: sends of one download                           *)
    MaxCap,      (* last offset of a capability in configuration space     *)
    IdxModulus   (* the device index counts modulo this                    *)

ASSUME BoundAssumption ==
    /\ MaxLoads \in Nat /\ MaxSends \in Nat /\ MaxCap \in Nat
    /\ IdxModulus \in Nat /\ IdxModulus > 1

VARIABLES
    load,     (* number of the current instance                            *)
    life,     (* what the instance has been through                        *)
    held,     (* what the instance has acquired and not given back         *)
    timer,    (* "off", "armed", or "fired": waiting for the gate          *)
    step,     (* where handleTimer is; it holds the gate unless "none"     *)
    cap,      (* cap2 in the walk over the capabilities; 0 ends it         *)
    seen,     (* in the walk: what configuration space holds at cap2 + 1,  *)
              (* as far as it has been read                                *)
    sends,    (* sends of this download                                    *)
    wcpu,               (* the load that started the on-chip CPU, 0: halted *)
    sts,                (* R_AX_WCPU_FW_CTRL: who reported INIT_RDY, or 0  *)
    dle,                (* R_AX_DMAC_FUNC_EN: DLE_WDE_EN and DLE_PLE_EN    *)
    hciEn, dmaEn,       (* R_AX_HCI_FUNC_EN: FUNC_EN, and TXDMA and RXDMA  *)
    txhci,              (* R_AX_PCIE_INIT_CFG1: TXHCI_EN and RXHCI_EN      *)
    stopAll, stopCh12,  (* R_AX_PCIE_DMA_STOP1: STOP_WPDMA, STOP_CH12      *)
    base,               (* R_AX_CH12_TXBD_DESA: whose ring, 0 if nobody's  *)
    hostIdx, hwIdx,     (* R_AX_CH12_TXBD_IDX                              *)
    engine, fetching,   (* the engine, and whose memory it is reading      *)
    timedOut,  (* history: a send has timed out in some load               *)
    stray,     (* history: the engine has read memory that was not live    *)
    acked,     (* history: loads of which a send returned 0                *)
    taken,     (* history: loads whose memory the engine has fetched       *)
    rdyBy      (* RTW89_FLAG_FW_RDY, as the status it was set by           *)

instVars == <<load, life, held, timer>>
walk     == <<cap, seen>>
cpuVars  == <<wcpu, sts, rdyBy>>
regVars  == <<dle, hciEn, dmaEn, txhci, stopAll, stopCh12, base>>
idxVars  == <<hostIdx, hwIdx>>
engVars  == <<engine, fetching>>
histVars == <<timedOut, stray, acked, taken>>
vars     == <<instVars, step, sends, walk, cpuVars, regVars, idxVars, engVars, histVars>>

(* What start acquires, in its order; handleTimer adds the last two.       *)
Order     == <<"provider", "bar", "dev", "workloop", "intr", "timer", "netif">>
RingMem   == {"bd", "buf"}
Resources == {Order[i] : i \in 1..7} \cup RingMem

Wrap(i) == IF i = IdxModulus THEN 0 ELSE i

(* The channel may fetch.                                                  *)
Running == dmaEn /\ txhci /\ ~stopAll /\ ~stopCh12

Live(m) == m = load /\ RingMem \subseteq held

Unread == [c \in {} |-> 0]

Foreign == MaxLoads + 1   (* an owner of the chip before the first load *)

(* The chip as another owner left it: DMA idle, with its indices at reset, *)
(* firmware possibly running.                                              *)
Init ==
    /\ load = 0 /\ life = "out" /\ held = {} /\ timer = "off"
    /\ step = "none" /\ sends = 0 /\ cap = 0 /\ seen = Unread
    /\ wcpu \in {0, Foreign} /\ sts \in {0, Foreign} /\ rdyBy = 0 /\ dle \in BOOLEAN
    /\ hciEn \in BOOLEAN /\ dmaEn \in BOOLEAN /\ txhci \in BOOLEAN
    /\ stopAll \in BOOLEAN /\ stopCh12 \in BOOLEAN /\ base = 0
    /\ hostIdx = 0 /\ hwIdx = 0 /\ engine = "idle" /\ fetching = 0
    /\ timedOut = FALSE /\ stray = FALSE /\ acked = {} /\ taken = {}

(***************************************************************************)
(* start and stop.                                                         *)
(***************************************************************************)
Start ==
    /\ life \in {"out", "stopped"} /\ load < MaxLoads
    /\ load' = load + 1 /\ life' = "started"
    /\ held' = {Order[i] : i \in 1..7} /\ timer' = "armed"
    /\ rdyBy' = 0
    /\ UNCHANGED <<step, sends, walk, wcpu, sts, regVars, idxVars, engVars, histVars>>

(* start returns false at its k-th acquisition and gives nothing back. The *)
(* timer is armed before the last one. The instance is taken to stay:      *)
(* whether and when IOKit releases it is not in the source.                *)
StartFails(k) ==
    /\ life \in {"out", "stopped"} /\ load < MaxLoads
    /\ load' = load + 1 /\ life' = "failed"
    /\ held' = {Order[i] : i \in 1..k - 1}
    /\ timer' = IF k = 7 THEN "armed" ELSE "off"
    /\ rdyBy' = 0
    /\ UNCHANGED <<step, sends, walk, wcpu, sts, regVars, idxVars, engVars, histVars>>

(* stop begins with cancelTimeout: an expired timer is past cancelling.    *)
StopBegin ==
    /\ life = "started"
    /\ life' = "stopping"
    /\ timer' = IF timer = "armed" THEN "off" ELSE timer
    /\ UNCHANGED <<load, held, step, sends, walk, cpuVars, regVars, idxVars, engVars, histVars>>

(* Mutant: the timer is not removed from the work loop.                    *)
TimerNotRemoved ==
    /\ life = "stopping" /\ step = "none"
    /\ life' = "detached"
    /\ UNCHANGED <<load, held, timer, step, sends, walk, cpuVars, regVars, idxVars,
                   engVars, histVars>>

(* Mutant: stop does not wait for the gate.                                *)
RemovedUngated ==
    /\ life = "stopping"
    /\ life' = "detached" /\ timer' = "off"
    /\ UNCHANGED <<load, held, step, sends, walk, cpuVars, regVars, idxVars, engVars, histVars>>

(* removeEventSource gets the gate once no handler is running.             *)
RemoveSources ==
    /\ life = "stopping" /\ step = "none"
    /\ life' = "detached" /\ timer' = "off"
    /\ UNCHANGED <<load, held, step, sends, walk, cpuVars, regVars, idxVars, engVars, histVars>>

(* ring_deinit and every release. No register of the chip is written.      *)
StopRelease ==
    /\ life = "detached"
    /\ life' = "stopped" /\ held' = {}
    /\ UNCHANGED <<load, timer, step, sends, walk, cpuVars, regVars, idxVars, engVars,
                   histVars>>

(***************************************************************************)
(* The timer, once: handleTimer does not arm it again.                     *)
(***************************************************************************)
TimerExpires ==
    /\ timer = "armed"
    /\ timer' = "fired"
    /\ UNCHANGED <<load, life, held, step, sends, walk, cpuVars, regVars, idxVars,
                   engVars, histVars>>

(* handleTimer returns on an instance without device or BAR. Otherwise it  *)
(* reads where the list of the PCI capabilities begins.                    *)
EnterWalk ==
    IF {"dev", "bar"} \subseteq held
    THEN step' = "wake" /\ cap' \in 0..MaxCap
    ELSE UNCHANGED <<step, cap>>

(* Mutant: the handler arms its timer again, as that of AirportRtlwm does. *)
HandlerRearms ==
    /\ timer = "fired" /\ step = "none"
    /\ timer' = "armed"
    /\ EnterWalk /\ sends' = 0
    /\ UNCHANGED <<load, life, held, seen, cpuVars, regVars, idxVars, engVars, histVars>>

HandlerEnter ==
    /\ timer = "fired" /\ step = "none"
    /\ timer' = "off"
    /\ EnterWalk /\ sends' = 0
    /\ UNCHANGED <<load, life, held, seen, cpuVars, regVars, idxVars, engVars, histVars>>

(***************************************************************************)
(* handleTimer, step by step.                                              *)
(***************************************************************************)
Go(from, to) == step = from /\ step' = to

Rest == <<load, life, timer, sends, walk, cpuVars, engVars, histVars>>

(* The walk goes on to the offset found behind a capability that is not    *)
(* power management. Configuration space is not in the repository: a byte  *)
(* of it may have any value (all of them 255 when the device is gone), but *)
(* has the same one when it is read again.                                 *)
WalkOn ==
    /\ step = "wake" /\ cap # 0
    /\ cap' \in (IF cap \in DOMAIN seen THEN {seen[cap]} ELSE 0..MaxCap)
    /\ seen' = [c \in DOMAIN seen \cup {cap} |-> IF c = cap THEN cap' ELSE seen[c]]
    /\ UNCHANGED <<instVars, step, sends, cpuVars, regVars, idxVars, engVars, histVars>>

(* Mutant: the end of the list does not end the walk.                      *)
WalkEndsAtPm ==
    /\ Go("wake", "power") /\ cap # 0 /\ cap \notin DOMAIN seen
    /\ cap' = 0 /\ seen' = Unread
    /\ UNCHANGED <<instVars, sends, cpuVars, regVars, idxVars, engVars, histVars>>

(* The list has ended, or power management is found and D0 written: never  *)
(* at a capability that has been passed before.                            *)
WalkEnds ==
    /\ Go("wake", "power") /\ cap \notin DOMAIN seen
    /\ cap' = 0 /\ seen' = Unread
    /\ UNCHANGED <<instVars, sends, cpuVars, regVars, idxVars, engVars, histVars>>

(* rtw89_mac_pwr_on, which enables the functions of the DMAC; a failure    *)
(* ends the handler. PowerSwitch has its steps, whose number is bounded.   *)
PowerOn ==
    /\ \/ Go("power", "cpu") /\ dle' = TRUE
       \/ Go("power", "none") /\ UNCHANGED dle
    /\ UNCHANGED <<held, hciEn, dmaEn, txhci, stopAll, stopCh12, base, idxVars, Rest>>

NotCpu == <<instVars, sends, walk, hciEn, dmaEn, txhci, stopAll, stopCh12, base, idxVars,
            engVars, histVars>>

(* rtw89_mac_dmac_pre_init writes the functions of the DMAC anew, without  *)
(* the two of the DLE.                                                     *)
DmacPreInit == dle' = FALSE

(* Mutant: the CPU of an earlier load runs on.                             *)
CpuRunsOn == Go("cpu", "clear_sts") /\ DmacPreInit /\ UNCHANGED <<cpuVars, NotCpu>>

CpuHalt ==
    /\ Go("cpu", "clear_sts")
    /\ wcpu' = 0 /\ DmacPreInit
    /\ UNCHANGED <<sts, rdyBy, NotCpu>>

CpuClearStatus ==
    /\ Go("clear_sts", "boot")
    /\ sts' = 0
    /\ UNCHANGED <<wcpu, rdyBy, dle, NotCpu>>

CpuStart ==
    /\ Go("boot", "hci")
    /\ wcpu' = load
    /\ UNCHANGED <<sts, rdyBy, dle, NotCpu>>

(* rtw89_mac_hci_func_en_ax.                                               *)
HciFuncEn ==
    /\ Go("hci", "alloc")
    /\ hciEn' = TRUE /\ dmaEn' = TRUE
    /\ UNCHANGED <<held, dle, txhci, stopAll, stopCh12, base, idxVars, Rest>>

AllocRing ==
    /\ Go("alloc", "phy")
    /\ held' = held \cup RingMem
    /\ UNCHANGED <<regVars, idxVars, Rest>>

AllocFails ==
    /\ Go("alloc", "none")
    /\ UNCHANGED <<held, regVars, idxVars, Rest>>

(* The PCIe PHY settings, ending with HCI_FUNC_EN written as 0 and then 3: *)
(* the two DMA bits come back, bit 2 does not.                             *)
HciToggle ==
    /\ Go("phy", "stop")
    /\ hciEn' = FALSE /\ dmaEn' = TRUE
    /\ UNCHANGED <<held, dle, txhci, stopAll, stopCh12, base, idxVars, Rest>>

(* Mutant: step 1 is left out.                                             *)
DmaNotStopped ==
    /\ Go("stop", "idle")
    /\ UNCHANGED <<held, regVars, idxVars, Rest>>

StopDma ==
    /\ Go("stop", "idle")
    /\ stopAll' = TRUE /\ txhci' = FALSE
    /\ UNCHANGED <<held, dle, hciEn, dmaEn, stopCh12, base, idxVars, Rest>>

(* The poll of R_AX_PCIE_DMA_MONITOR: its result is recorded and ignored.  *)
PollIdle ==
    /\ Go("idle", "clear")
    /\ UNCHANGED <<held, regVars, idxVars, Rest>>

(* Mutant: the bit of CH12 is missing from the mask.                       *)
IdxNotCleared ==
    /\ Go("clear", "ring")
    /\ UNCHANGED <<held, regVars, idxVars, Rest>>

ClearIdx ==
    /\ Go("clear", "ring")
    /\ hostIdx' = 0 /\ hwIdx' = 0
    /\ UNCHANGED <<held, regVars, Rest>>

(* mode_op, rtw89_pci_ch12_ring_init and the BDRAM reset, whose poll is    *)
(* ignored too. ring_init cannot fail here: the ring has just been filled  *)
(* in with one descriptor.                                                 *)
RingSetup ==
    /\ Go("ring", "chan")
    /\ base' = load
    /\ UNCHANGED <<held, dle, hciEn, dmaEn, txhci, stopAll, stopCh12, idxVars, Rest>>

(* Mutant: step 7 stops CH12 with the other channels.                      *)
ChannelStopped ==
    /\ Go("chan", "run")
    /\ stopCh12' = TRUE
    /\ UNCHANGED <<held, dle, hciEn, dmaEn, txhci, stopAll, base, idxVars, Rest>>

OpenChannel ==
    /\ Go("chan", "run")
    /\ stopCh12' = FALSE
    /\ UNCHANGED <<held, dle, hciEn, dmaEn, txhci, stopAll, base, idxVars, Rest>>

StartDma ==
    /\ Go("run", "send")
    /\ txhci' = TRUE /\ stopAll' = FALSE
    /\ UNCHANGED <<held, dle, hciEn, dmaEn, stopCh12, base, idxVars, Rest>>

(* Mutant: the index runs on, as if the ring had a descriptor per call.    *)
DoorbellRunsOn ==
    /\ Go("send", "poll") /\ sends < MaxSends
    /\ hostIdx' = sends + 1 /\ sends' = sends + 1
    /\ UNCHANGED <<held, walk, regVars, hwIdx, load, life, timer, cpuVars, engVars, histVars>>

(* The download rings the doorbell with index 1, again and again.          *)
Doorbell ==
    /\ Go("send", "poll") /\ sends < MaxSends
    /\ hostIdx' = 1 /\ sends' = sends + 1
    /\ UNCHANGED <<held, walk, regVars, hwIdx, load, life, timer, cpuVars, engVars, histVars>>

(* Mutant: the send does not wait for the device.                          *)
SendUnpolled ==
    /\ Go("poll", "send")
    /\ acked' = acked \cup {load}
    /\ UNCHANGED <<instVars, sends, walk, cpuVars, regVars, idxVars, engVars, timedOut,
                   stray, taken>>

SendOk ==
    /\ Go("poll", "send") /\ hwIdx = 1
    /\ acked' = acked \cup {load}
    /\ UNCHANGED <<instVars, sends, walk, cpuVars, regVars, idxVars, engVars, timedOut,
                   stray, taken>>

(* Mutant: the poll has no budget.                                         *)
PollForever ==
    /\ step = "poll" /\ hwIdx # 1
    /\ UNCHANGED vars

SendTimeout ==
    /\ Go("poll", "send") /\ hwIdx # 1
    /\ timedOut' = TRUE
    /\ UNCHANGED <<instVars, sends, walk, cpuVars, regVars, idxVars, engVars, stray,
                   acked, taken>>

(* rtw89_fw_download ends, at any of its polls, or successfully once       *)
(* rtw89_fw_check_rdy reads INIT_RDY.                                      *)
DownloadFails ==
    /\ Go("send", "none")
    /\ UNCHANGED <<held, regVars, idxVars, Rest>>

DownloadDone ==
    /\ Go("send", "none") /\ sts # 0
    /\ rdyBy' = sts
    /\ UNCHANGED <<wcpu, sts, instVars, sends, walk, regVars, idxVars, engVars, histVars>>

(***************************************************************************)
(* The DMA engine (external): the stop bits keep it from starting a fetch, *)
(* not from finishing one.                                                 *)
(***************************************************************************)
EngineLatch ==
    /\ Running /\ hostIdx # hwIdx /\ engine = "idle"
    /\ engine' = "fetch" /\ fetching' = base
    /\ UNCHANGED <<instVars, step, sends, walk, cpuVars, regVars, idxVars, histVars>>

EngineFetch ==
    /\ engine = "fetch" /\ engine' = "idle"
    /\ hwIdx' = Wrap(hwIdx + 1)
    /\ stray' = (stray \/ ~Live(fetching)) /\ taken' = taken \cup {fetching}
    /\ UNCHANGED <<instVars, step, sends, walk, cpuVars, regVars, hostIdx, fetching,
                   timedOut, acked>>

(* The on-chip CPU (external) reports what runs on it, at any time.        *)
WcpuReady ==
    /\ wcpu # 0 /\ sts' = wcpu
    /\ UNCHANGED <<wcpu, rdyBy, step, dle, NotCpu>>

(***************************************************************************)
(* Specification.                                                          *)
(***************************************************************************)
Handler ==
    \/ WalkOn \/ WalkEnds \/ PowerOn \/ CpuHalt \/ CpuClearStatus \/ CpuStart
    \/ HciFuncEn \/ AllocRing \/ AllocFails \/ HciToggle
    \/ StopDma \/ PollIdle \/ ClearIdx \/ RingSetup \/ OpenChannel \/ StartDma
    \/ Doorbell \/ SendOk \/ SendTimeout \/ DownloadFails \/ DownloadDone

Stop == RemoveSources \/ StopRelease

Next ==
    \/ Start \/ (\E k \in 1..7 : StartFails(k)) \/ StopBegin \/ Stop
    \/ TimerExpires \/ HandlerEnter \/ Handler
    \/ EngineLatch \/ EngineFetch \/ WcpuReady

Spec == Init /\ [][Next]_vars

(* The handler runs on, in the walk for as long as the list goes on; every *)
(* other wait of it is bounded. stop waits for nothing but the gate.       *)
FairSpec == Spec /\ WF_vars(Handler) /\ WF_vars(Stop)

(***************************************************************************)
(* Properties.                                                             *)
(***************************************************************************)
TypeOK ==
    /\ load \in 0..MaxLoads
    /\ life \in {"out", "started", "failed", "stopping", "detached", "stopped"}
    /\ held \subseteq Resources /\ timer \in {"off", "armed", "fired"}
    /\ step \in {"none", "wake", "power", "cpu", "clear_sts", "boot", "hci", "alloc", "phy",
                 "stop", "idle", "clear", "ring", "chan", "run", "send", "poll"}
    /\ sends \in 0..MaxSends /\ cap \in 0..MaxCap
    /\ DOMAIN seen \subseteq 1..MaxCap /\ seen \in [DOMAIN seen -> 0..MaxCap]
    /\ wcpu \in 0..Foreign /\ sts \in 0..Foreign /\ rdyBy \in 0..Foreign
    /\ dle \in BOOLEAN /\ hciEn \in BOOLEAN /\ dmaEn \in BOOLEAN /\ txhci \in BOOLEAN
    /\ stopAll \in BOOLEAN /\ stopCh12 \in BOOLEAN /\ timedOut \in BOOLEAN /\ stray \in BOOLEAN
    /\ base \in 0..MaxLoads /\ fetching \in 0..MaxLoads
    /\ hostIdx \in {0, 1} /\ hwIdx \in 0..IdxModulus - 1
    /\ engine \in {"idle", "fetch"}
    /\ acked \subseteq 0..MaxLoads /\ taken \subseteq 0..MaxLoads

(* As long as no send has timed out, in this load or an earlier one, the   *)
(* engine reads only memory of the running instance, though stop releases  *)
(* the ring (RealtekWifi.cpp:127-131) without halting the engine.          *)
FetchesLiveMemory == ~timedOut => ~stray

(* As long as no send has timed out, a send that returns 0 in some load    *)
(* was served from that load's memory: the index of the last load has been *)
(* cleared before (RealtekWifi.cpp:381-387).                               *)
SuccessIsOwn == ~timedOut => acked \subseteq taken

(* FW_RDY is set only by a CPU that this load has started: what the CPU of *)
(* an earlier load has reported, or goes on reporting, is gone by then     *)
(* (RealtekWifi.cpp:237-264, fw.c:152-157).                                *)
ReadyIsOwn == rdyBy \in {0, load}

(* Without a timeout every load is served from its own memory.             *)
OwnMemoryOnly == FetchesLiveMemory /\ SuccessIsOwn

(* Ring address and indices change only while the channel is halted, even  *)
(* if the last load left it running; the doorbell is rung only on a        *)
(* channel that runs, over a ring of this load that is still allocated:    *)
(* the order of steps 1 to 8 (RealtekWifi.cpp:364-439).                    *)
ProgrammedThenRun ==
    [][/\ base' # base \/ (step = "clear" /\ step' # step) => ~Running
       /\ hostIdx' # hostIdx /\ hostIdx' = 1 => Running /\ base = load /\ Live(base)]_vars

(* Once stop has removed the timer, the handler neither runs nor will: it  *)
(* never meets the freed rtw89_dev (RealtekWifi.cpp:115-118, 206).         *)
NoHandlerAfterStop ==
    life \in {"detached", "stopped"} => step = "none" /\ timer = "off"

(* While the handler runs, what it dereferences has not been released.     *)
HandlerHasDevice ==
    step # "none" =>
        /\ {"provider", "bar", "dev"} \subseteq held
        /\ step \in {"phy", "stop", "idle", "clear", "ring", "chan", "run", "send", "poll"}
              => RingMem \subseteq held

(* The handler meets only an instance that is alive.                       *)
HandlerOnLiveInstance == NoHandlerAfterStop /\ HandlerHasDevice

(* Every load of the kext is one of LoadCycle: handleTimer runs once a     *)
(* load at most, never without what it dereferences, and never beside or   *)
(* after the removal of the timer (RealtekWifi.cpp:96-134, 200-216).       *)
Cycle == INSTANCE LoadCycle WITH
    work  <- IF step # "none" THEN "running" ELSE IF timer # "off" THEN "due" ELSE "none",
    whole <- {"provider", "bar", "dev"} \subseteq held,
    ready <- rdyBy # 0

ImplementsLoadCycle == Cycle!Spec

(* The walk is back at a capability it has passed: from here it goes in a  *)
(* circle for ever, with the gate held.                                    *)
Circling == step = "wake" /\ cap \in DOMAIN seen

(* A stop that has begun finishes, wherever the handler was and however    *)
(* long the list of capabilities, unless that list leads back to itself,   *)
(* as it does when all of configuration space reads 255                    *)
(* (RealtekWifi.cpp:113-134, 210-219).                                     *)
StopFinishes == life = "stopping" ~> life = "stopped" \/ Circling

(* "Toggle HCI_FUNC_EN" (RealtekWifi.cpp:350): off and on again, so that   *)
(* the function enabled at line 294 is enabled during the download; "DMAC  *)
(* + CMAC system init (enables full DMA function blocks)" (line 246): so   *)
(* are the blocks the power on enabled.                                    *)
BlocksEnabled == step \in {"send", "poll"} => hciEn /\ dle
=============================================================================
